------------------------------ MODULE LoadReport -------------------------------
(***************************************************************************)
(* What Load (internal/loader/loader.go) promises, with no goroutine in    *)
(* it: each line up to some point of the file is accounted for once, in    *)
(* any order, as a trip or in the counter of the rule it breaks, and then  *)
(* the result is returned.  The point is the limit or the end of the file, *)
(* or before it where the scanner fails.                                   *)
(***************************************************************************)
EXTENDS Integers, Sequences, Functions

CONSTANTS
  Files,  \* the files that may be loaded, as in Loader
  Limit   \* opts.Limit; no limit unless positive

VARIABLES
  file,
  status,    \* "loading", "returned", "failed" or "panicked"
  trips,     \* the valid lines accounted for
  dropped,   \* the others
  counters,  \* how many of these broke each rule
  total      \* TotalRead of the result

vars == <<file, status, trips, dropped, counters, total>>

Accounted == Range(trips) \union dropped

Wanted == IF Limit > 0 /\ Limit < Len(file) THEN Limit ELSE Len(file)

Init ==
  /\ file \in Files
  /\ status = "loading"
  /\ trips = <<>> /\ dropped = {}
  /\ counters = [r \in 1 .. 9 |-> 0]
  /\ total = 0

Account(i) ==
  /\ status = "loading"
  /\ i \in 1 .. Wanted \ Accounted
  /\ \/ /\ file[i] = 0
        /\ trips' = Append(trips, i)
        /\ UNCHANGED <<dropped, counters>>
     \/ /\ file[i] \in 1 .. 9
        /\ dropped' = dropped \union {i}
        /\ counters' = [counters EXCEPT ![file[i]] = @ + 1]
        /\ UNCHANGED trips
  /\ UNCHANGED <<file, status, total>>

Return ==
  /\ status = "loading"
  /\ total' \in 0 .. Wanted
  /\ Accounted = 1 .. total'
  /\ status' = "returned"
  /\ UNCHANGED <<file, trips, dropped, counters>>

Fail ==
  /\ status = "loading"
  /\ Accounted = {}
  /\ status' = "failed"
  /\ UNCHANGED <<file, trips, dropped, counters, total>>

(***************************************************************************)
(* A line makes parseLine panic.                                           *)
(***************************************************************************)
Crash ==
  /\ status = "loading"
  /\ \E i \in 1 .. Wanted : file[i] = -1
  /\ status' = "panicked"
  /\ UNCHANGED <<file, trips, dropped, counters, total>>

Next == (\E i \in 1 .. Wanted : Account(i)) \/ Return \/ Fail \/ Crash

Spec == Init /\ [][Next]_vars

================================================================================
