--------------------------------- MODULE Parser --------------------------------
(***************************************************************************)
(* The header and the lines of the CSV file (internal/loader/parser.go).   *)
(*                                                                         *)
(* A field is the value its text stands for: an integer, NaN, or Bad when  *)
(* it does not parse.  Times are in seconds from 2015-01-01 00:00:00,      *)
(* distances in hundredths of a mile, coordinates in thousandths of a      *)
(* degree, amounts in cents.  An infinite value is no different from a     *)
(* very large one.  Rounding is left out.                                  *)
(***************************************************************************)
EXTENDS Integers, Sequences, FiniteSetsExt

CONSTANTS
  NaN,  \* what strconv.ParseFloat makes of "NaN"
  Bad   \* a field that does not parse

ASSUME FieldAssumption == NaN \notin Int /\ Bad \notin Int /\ NaN # Bad

NumFields == 19

(***************************************************************************)
(* The columns parseLine uses, in the order it reads them.                 *)
(***************************************************************************)
ReadOrder == << "pickup", "dropoff", "passenger", "distance", "lon", "lat",
                "rateCode", "fare", "total" >>

Columns == { ReadOrder[k] : k \in 1 .. 9 }

--------------------------------------------------------------------------------
(***************************************************************************)
(* buildIndex: where each required column is in the header; of two columns *)
(* with the same name the last.  Names are compared trimmed and in lower   *)
(* case, so a name here is one up to that.                                 *)
(***************************************************************************)
HasColumns(header) == \A c \in Columns : \E i \in 1 .. Len(header) : header[i] = c

BuildIndex(header) ==
  [c \in Columns |-> Max({i \in 1 .. Len(header) : header[i] = c})]

--------------------------------------------------------------------------------
(***************************************************************************)
(* Comparisons of float64: with NaN all are false.                         *)
(***************************************************************************)
Less(a, b)      == a # NaN /\ b # NaN /\ a < b
LessEqual(a, b) == a # NaN /\ b # NaN /\ a <= b

PickupMax == 31 * 86400       \* 2015-02-01

(***************************************************************************)
(* R9 and what it compares: distance / hours < 0.5 and > 80.               *)
(***************************************************************************)
TooSlow(distance, sec) == 72 * distance < sec
TooFast(distance, sec) == 9 * distance > 20 * sec

OutOfBox(lat, lon) == \/ Less(lat, 40500) \/ Less(41000, lat)
                      \/ Less(lon, -74300) \/ Less(-73700, lon)

(***************************************************************************)
(* R9 discards a speed that is NaN, which no comparison would.  Fault: it  *)
(* is left to the comparisons.                                             *)
(***************************************************************************)
BadSpeed_NoNaN(distance, sec) ==
  distance # NaN /\ (TooSlow(distance, sec) \/ TooFast(distance, sec))
BadSpeed(distance, sec) ==
  distance = NaN \/ TooSlow(distance, sec) \/ TooFast(distance, sec)

(***************************************************************************)
(* The rule that the values v of a line break, the first in the order of   *)
(* the code, or 0.                                                         *)
(***************************************************************************)
RuleBroken(v) ==
  LET sec == v.dropoff - v.pickup
  IN  IF \E c \in Columns : v[c] = Bad                                  THEN 1
      ELSE IF v.pickup < 0 \/ v.pickup >= PickupMax                     THEN 2
      ELSE IF v.dropoff <= v.pickup                                     THEN 3
      ELSE IF sec < 60 \/ sec > 10800                                   THEN 4
      ELSE IF OutOfBox(v.lat, v.lon)                                    THEN 5
      ELSE IF LessEqual(v.distance, 0) \/ Less(10000, v.distance)       THEN 6
      ELSE IF LessEqual(v.fare, 0) \/ LessEqual(v.total, 0)             THEN 7
      ELSE IF v.passenger < 1 \/ v.passenger > 6                        THEN 8
      ELSE IF BadSpeed(v.distance, sec)                                 THEN 9
      ELSE 0

(***************************************************************************)
(* The Trip of an accepted line; 2015-01-01 was a Thursday, day 4.         *)
(***************************************************************************)
Trip(v) ==
  [ duration |-> v.dropoff - v.pickup, distance |-> v.distance, lat |-> v.lat, lon |-> v.lon,
    rateCode |-> v.rateCode, passenger |-> v.passenger,
    hour |-> (v.pickup \div 3600) % 24, day |-> (4 + v.pickup \div 86400) % 7 ]

(***************************************************************************)
(* The values fields can have; strconv.Atoi and time.Parse know no NaN.    *)
(***************************************************************************)
FieldValues ==
  { v \in [Columns -> Int \union {NaN, Bad}] :
      \A c \in {"pickup", "dropoff", "passenger", "rateCode"} : v[c] # NaN }

(***************************************************************************)
(* Those parseLine reads from the fields of a line.                        *)
(***************************************************************************)
Values(fields, idx) == [c \in Columns |-> fields[idx[c]]]

(***************************************************************************)
(* The k-th column it reads is beyond the fields: an index out of range,   *)
(* which it comes to if the columns before are there and parse.            *)
(***************************************************************************)
InFields(fields, idx, c) == idx[c] \in DOMAIN fields

OutOfRange(fields, idx) ==
  \E k \in 1 .. 9 :
    /\ ~InFields(fields, idx, ReadOrder[k])
    /\ \A m \in 1 .. k-1 : /\ InFields(fields, idx, ReadOrder[m])
                           /\ fields[idx[ReadOrder[m]]] # Bad

Panic == -1

(***************************************************************************)
(* Fault: the number of fields is not looked at.                           *)
(***************************************************************************)
ParseLine_AnyWidth(fields, idx) ==
  IF OutOfRange(fields, idx)                            THEN Panic
  ELSE IF \E c \in Columns : ~InFields(fields, idx, c)  THEN 1
  ELSE RuleBroken(Values(fields, idx))
ParseLine(fields, idx) ==
  IF Len(fields) # NumFields                            THEN 1
  ELSE IF OutOfRange(fields, idx)                       THEN Panic
  ELSE IF \E c \in Columns : ~InFields(fields, idx, c)  THEN 1
  ELSE RuleBroken(Values(fields, idx))

--------------------------------------------------------------------------------
(***************************************************************************)
(* What each rule asks of a line, as the comments of parseLine put it, and *)
(* the three that a NaN gets past, being tested by comparisons that are    *)
(* true of a bad line.                                                     *)
(***************************************************************************)
Within(x, lo, hi) == x # NaN /\ lo <= x /\ x <= hi

Positive(x) == x # NaN /\ x > 0

Obeys(v, k) ==
  LET sec == v.dropoff - v.pickup
  IN  \/ k = 1 /\ \A c \in Columns : v[c] # Bad
      \/ k = 2 /\ Within(v.pickup, 0, PickupMax - 1)
      \/ k = 3 /\ sec > 0
      \/ k = 4 /\ Within(sec, 60, 180 * 60)
      \/ k = 5 /\ Within(v.lat, 40500, 41000) /\ Within(v.lon, -74300, -73700)
      \/ k = 6 /\ Positive(v.distance) /\ Within(v.distance, 0, 10000)
      \/ k = 7 /\ Positive(v.fare) /\ Positive(v.total)
      \/ k = 8 /\ Within(v.passenger, 1, 6)
      \/ k = 9 /\ v.distance # NaN /\ sec <= 72 * v.distance /\ 9 * v.distance <= 20 * sec

EscapesAsNaN(v, k) == \/ k = 5 /\ NaN \in {v.lat, v.lon}
                      \/ k = 6 /\ v.distance = NaN
                      \/ k = 7 /\ NaN \in {v.fare, v.total}

(***************************************************************************)
(* Rule r, or 0, is the first that a line with the values v breaks, but    *)
(* for what escapes as NaN; no distance that is NaN escapes altogether.    *)
(***************************************************************************)
IsFirstBroken(v, r) ==
  /\ r # 0 => ~Obeys(v, r)
  /\ \A k \in 1 .. (IF r = 0 THEN 9 ELSE r - 1) : Obeys(v, k) \/ EscapesAsNaN(v, k)
  /\ r = 0 => v.distance # NaN

================================================================================
