-------------------------------- MODULE MCStats --------------------------------
(***************************************************************************)
(* Stats for TLC.  The lines are a common one, three at the edges of the   *)
(* rules, these with a value that breaks a rule, and the common one with   *)
(* two such values.                                                        *)
(***************************************************************************)
EXTENDS Stats

(***************************************************************************)
(* The header of the data of January 2015 with the first column named as a *)
(* later one; one with a column more, which moves the last past the 19     *)
(* fields; one without the latitude.                                       *)
(***************************************************************************)
Header ==
  << "fare", "pickup", "dropoff", "passenger", "distance", "lon", "lat", "rateCode",
     "store_and_fwd_flag", "dropoff_longitude", "dropoff_latitude", "payment_type",
     "fare", "extra", "mta_tax", "tip_amount", "tolls_amount", "improvement_surcharge",
     "total" >>

MCHeaders == { Header, <<"row">> \o Header, [Header EXCEPT ![7] = "latitude"] }

Common ==
  [ pickup |-> 10 * 86400 + 28800, dropoff |-> 10 * 86400 + 29400, passenger |-> 1,
    distance |-> 200, lon |-> -73985, lat |-> 40753, rateCode |-> 1, fare |-> 950,
    total |-> 1130 ]

(***************************************************************************)
(* Valid lines at the edges of the rules, or with a NaN they do not see.   *)
(***************************************************************************)
Edges ==
  { [Common EXCEPT !.dropoff = Common.pickup + 10800, !.lat = 41000, !.distance = 10000],
    [Common EXCEPT !.lon = -74300, !.distance = 9, !.passenger = 6],
    [Common EXCEPT !.lat = NaN, !.fare = NaN] }

V(c, x) == <<c, x>>
With(v, d) == [v EXCEPT ![d[1]] = d[2]]

Breaks ==
  { V("dropoff", Bad), V("total", Bad), V("pickup", -1), V("pickup", PickupMax),
    V("dropoff", Common.pickup), V("dropoff", Common.pickup + 59),
    V("dropoff", Common.pickup + 10801), V("lat", 40499), V("lon", -73699),
    V("distance", 0), V("distance", 10001), V("fare", 0), V("passenger", 7),
    V("distance", NaN), V("distance", 8), V("distance", 1334) }

LineValues ==
  { Common } \union Edges
  \union { With(v, d) : v \in { Common } \union Edges, d \in Breaks }
  \union { With(With(Common, d), e) : d \in Breaks, e \in Breaks }

(***************************************************************************)
(* The last column of each name has the value; other fields do not matter. *)
(***************************************************************************)
Layout(h, v, width) ==
  [ i \in 1 .. width |->
      IF \E c \in Columns : Max({k \in 1 .. Len(h) : h[k] = c} \union {0}) = i
        THEN v[h[i]] ELSE Bad ]

LinesUnder ==
  [ h \in MCHeaders |-> { Layout(h, v, NumFields) : v \in LineValues }
                        \union { Layout(h, Common, width) : width \in {1, 18, 20} } ]

MCLines(h) == LinesUnder[h]

================================================================================
