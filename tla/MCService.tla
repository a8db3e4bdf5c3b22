------------------------------- MODULE MCService -------------------------------
(***************************************************************************)
(* Service for TLC.  Most features are the same in all trips, as they are  *)
(* in a file of one night.                                                 *)
(***************************************************************************)
EXTENDS Service

T(distance, lat) ==
  [ duration |-> 600, distance |-> distance, lat |-> lat, lon |-> -73985, rateCode |-> 1,
    passenger |-> 1, hour |-> 3, day |-> 0 ]

D(trips) == [trips |-> trips, diverges |-> FALSE]

(***************************************************************************)
(* Two good trips, one of which may lack its latitude, in the test set, if *)
(* the first request trains on them.                                       *)
(***************************************************************************)
Good == D(<< T(200, 40753), T(310, 40753) >>)
MCTrainData(t) == { Good } \union (IF t = 1 THEN { D(<< T(200, 40753), T(310, NaN) >>) } ELSE {})
GoodOnly(t)    == { Good }

(***************************************************************************)
(* One trip, which leaves none to train on; one that lacks its latitude;   *)
(* and two that make the weights diverge.                                  *)
(***************************************************************************)
Degenerate(t) == { D(<< T(200, 40753) >>), D(<< T(200, 40753), T(310, NaN) >>),
                   [Good EXCEPT !.diverges = TRUE] }

================================================================================
