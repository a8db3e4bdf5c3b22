------------------------------ MODULE Stats_proofs -----------------------------
(***************************************************************************)
(* Proofs about Stats: what it promises of the lines, the aggregates and   *)
(* the datasets written, for any file.                                     *)
(***************************************************************************)
EXTENDS Stats, FiniteSetTheorems, TLAPS

LEMMA TheColumns ==
  Columns = { "pickup", "dropoff", "passenger", "distance", "lon", "lat", "rateCode",
              "fare", "total" }
<1>1. 1 .. 9 = {1, 2, 3, 4, 5, 6, 7, 8, 9}
  OBVIOUS
<1>2. Columns = { ReadOrder[k] : k \in {1, 2, 3, 4, 5, 6, 7, 8, 9} }
  BY <1>1 DEF Columns
<1> QED
  BY <1>2 DEF ReadOrder

(***************************************************************************)
(* The types of the values that parse.                                     *)
(***************************************************************************)
LEMMA ParsedValues ==
  ASSUME NEW v \in FieldValues, \A c \in Columns : v[c] # Bad
  PROVE  /\ v.pickup \in Int /\ v.dropoff \in Int /\ v.passenger \in Int
         /\ v.distance \in Int \union {NaN}
         /\ v.lon \in Int \union {NaN} /\ v.lat \in Int \union {NaN}
         /\ v.fare \in Int \union {NaN} /\ v.total \in Int \union {NaN}
  BY TheColumns DEF FieldValues

(***************************************************************************)
(* RuleBroken (parser.go:109-150) returns the first rule broken, whatever  *)
(* the values: a reader of the discard counts may trust them.              *)
(***************************************************************************)
THEOREM FirstRule ==
  ASSUME NEW v \in FieldValues
  PROVE  IsFirstBroken(v, RuleBroken(v))
<1> DEFINE sec == v.dropoff - v.pickup
<1>1. CASE \E c \in Columns : v[c] = Bad
  <2>1. RuleBroken(v) = 1
    BY <1>1 DEF RuleBroken
  <2> QED
    BY <1>1, <2>1 DEF IsFirstBroken, Obeys
<1>2. CASE \A c \in Columns : v[c] # Bad
  <2> /\ v.pickup \in Int /\ v.dropoff \in Int /\ v.passenger \in Int
      /\ v.distance \in Int \union {NaN}
      /\ v.lon \in Int \union {NaN} /\ v.lat \in Int \union {NaN}
      /\ v.fare \in Int \union {NaN} /\ v.total \in Int \union {NaN}
    BY <1>2, ParsedValues
  <2>1. Obeys(v, 1)
    BY <1>2 DEF Obeys
  <2>2. Obeys(v, 2) <=> ~(v.pickup < 0 \/ v.pickup >= PickupMax)
    BY FieldAssumption DEF Obeys, Within, PickupMax
  <2>3. Obeys(v, 3) <=> ~(v.dropoff <= v.pickup)
    BY DEF Obeys
  <2>4. Obeys(v, 4) <=> ~(sec < 60 \/ sec > 10800)
    BY FieldAssumption DEF Obeys, Within
  <2>5. /\ OutOfBox(v.lat, v.lon) => ~Obeys(v, 5)
        /\ ~OutOfBox(v.lat, v.lon) => Obeys(v, 5) \/ EscapesAsNaN(v, 5)
    BY FieldAssumption DEF Obeys, EscapesAsNaN, OutOfBox, Less, Within
  <2>6. LET broken == LessEqual(v.distance, 0) \/ Less(10000, v.distance)
        IN  /\ broken => ~Obeys(v, 6)
            /\ ~broken => Obeys(v, 6) \/ EscapesAsNaN(v, 6)
    BY FieldAssumption DEF Obeys, EscapesAsNaN, Less, LessEqual, Within, Positive
  <2>7. LET broken == LessEqual(v.fare, 0) \/ LessEqual(v.total, 0)
        IN  /\ broken => ~Obeys(v, 7)
            /\ ~broken => Obeys(v, 7) \/ EscapesAsNaN(v, 7)
    BY FieldAssumption DEF Obeys, EscapesAsNaN, LessEqual, Positive
  <2>8. Obeys(v, 8) <=> ~(v.passenger < 1 \/ v.passenger > 6)
    BY FieldAssumption DEF Obeys, Within
  <2>9. /\ Obeys(v, 9) <=> ~BadSpeed(v.distance, sec)
        /\ Obeys(v, 9) => v.distance # NaN
    BY FieldAssumption DEF Obeys, BadSpeed, TooSlow, TooFast
  <2>10. RuleBroken(v) =
           IF ~Obeys(v, 2) THEN 2 ELSE IF ~Obeys(v, 3) THEN 3 ELSE IF ~Obeys(v, 4) THEN 4
           ELSE IF OutOfBox(v.lat, v.lon) THEN 5
           ELSE IF LessEqual(v.distance, 0) \/ Less(10000, v.distance) THEN 6
           ELSE IF LessEqual(v.fare, 0) \/ LessEqual(v.total, 0) THEN 7
           ELSE IF ~Obeys(v, 8) THEN 8 ELSE IF ~Obeys(v, 9) THEN 9 ELSE 0
    BY <1>2, <2>2, <2>3, <2>4, <2>8, <2>9 DEF RuleBroken
  <2> DEFINE Fine(k) == Obeys(v, k) \/ EscapesAsNaN(v, k)
  <2>11. \A k \in 1 .. RuleBroken(v) - 1 : Fine(k)
    <3> SUFFICES ASSUME NEW k \in 1 .. RuleBroken(v) - 1 PROVE Fine(k)
      OBVIOUS
    <3> HIDE DEF Fine
    <3>1. Fine(1) /\ (Obeys(v, 2) => Fine(2)) /\ (Obeys(v, 3) => Fine(3))
          /\ (Obeys(v, 4) => Fine(4)) /\ (Obeys(v, 8) => Fine(8))
      BY <2>1 DEF Fine
    <3>2. k \in {1, 2, 3, 4, 5, 6, 7, 8}
      BY <2>10
    <3> QED
      BY <2>5, <2>6, <2>7, <2>10, <3>1, <3>2 DEF Fine
  <2>12. RuleBroken(v) = 0 => \A k \in 1 .. 9 : Fine(k)
    BY <2>1, <2>5, <2>6, <2>7, <2>10
  <2>13. RuleBroken(v) # 0 => ~Obeys(v, RuleBroken(v))
    BY <2>5, <2>6, <2>7, <2>10
  <2>14. RuleBroken(v) = 0 => v.distance # NaN
    BY <2>9, <2>10
  <2> QED
    BY <2>11, <2>12, <2>13, <2>14 DEF IsFirstBroken
<1> QED
  BY <1>1, <1>2

--------------------------------------------------------------------------------

(***************************************************************************)
(* A column beyond the fields is not looked at when a column read before   *)
(* it does not parse, and then R1 is the rule.                             *)
(***************************************************************************)
LEMMA BadBeforeTheEnd ==
  ASSUME NEW f, NEW idx, ~OutOfRange(f, idx), \E c \in Columns : ~InFields(f, idx, c)
  PROVE  \E c \in Columns : f[idx[c]] = Bad
<1> DEFINE Missing(k) == ~InFields(f, idx, ReadOrder[k])
<1>1. PICK k \in 1 .. 9 : Missing(k) /\ \A m \in 1 .. k-1 : ~Missing(m)
  <2>1. \E k \in 1 .. 9 : Missing(k)
    BY DEF Columns
  <2> HIDE DEF Missing
  <2>2. \/ Missing(1) \/ Missing(2) \/ Missing(3) \/ Missing(4) \/ Missing(5)
        \/ Missing(6) \/ Missing(7) \/ Missing(8) \/ Missing(9)
    BY <2>1
  <2> QED
    BY <2>2
<1>2. PICK m \in 1 .. k-1 : f[idx[ReadOrder[m]]] = Bad
  BY <1>1 DEF OutOfRange
<1>3. ReadOrder[m] \in Columns
  BY DEF Columns
<1> QED
  BY <1>2, <1>3

(***************************************************************************)
(* What parseLine returned is about the line in fields.                    *)
(***************************************************************************)
LineInv ==
  /\ header \in Headers
  /\ fields # <<>> => /\ HasColumns(header)
                     /\ fields \in Lines(header)
                     /\ rule = ParseLine(fields, BuildIndex(header))

LEMMA LineInvariant == Spec => []LineInv
<1>1. Init => LineInv
  BY DEF Init, LineInv
<1>2. LineInv /\ [Next]_vars => LineInv'
  <2> SUFFICES ASSUME LineInv, [Next]_vars PROVE LineInv'
    OBVIOUS
  <2> USE DEF LineInv
  <2>1. CASE ReadLine
    BY <2>1 DEF ReadLine, fileVars
  <2>2. CASE Loaded
    BY <2>2 DEF Loaded, fileVars
  <2>3. CASE BadHeader \/ CountTrip \/ SortCells \/ ExportCSV \/ ConnectFails \/ UpsertInsight
    <3>1. UNCHANGED <<header, fields, rule>>
      BY <2>3 DEF BadHeader, CountTrip, SortCells, ExportCSV, ConnectFails, UpsertInsight, fileVars,
                  lineVars
    <3> QED
      BY <3>1
  <2>4. CASE UNCHANGED vars
    <3>1. UNCHANGED <<header, fields, rule>>
      BY <2>4 DEF vars, fileVars, lineVars
    <3> QED
      BY <3>1
  <2> QED
    BY <2>1, <2>2, <2>3, <2>4 DEF Next, Ended
<1> QED
  BY <1>1, <1>2, PTL DEF Spec

(***************************************************************************)
(* The discard counts mean what they say, for any file: each line is       *)
(* counted under the first rule that it breaks, and those accepted break   *)
(* none but R5 and R7, which NaN escapes.                                  *)
(***************************************************************************)
THEOREM RuleCorrect == Spec => []RuleIsFirstBroken
<1>1. LineInv => RuleIsFirstBroken
  <2> SUFFICES ASSUME LineInv, Len(fields) = NumFields, rule # Panic
               PROVE  IsFirstBroken(Values(fields, BuildIndex(header)), rule)
    BY DEF RuleIsFirstBroken
  <2> DEFINE idx == BuildIndex(header)
             v   == Values(fields, idx)
  <2>1. fields # <<>>
    BY DEF NumFields
  <2>2. /\ header \in Headers /\ HasColumns(header) /\ fields \in Lines(header)
        /\ rule = ParseLine(fields, idx)
    BY <2>1 DEF LineInv
  <2> HIDE DEF idx
  <2>3. ~OutOfRange(fields, idx)
    BY <2>2 DEF ParseLine
  <2>4. CASE \E c \in Columns : ~InFields(fields, idx, c)
    <3>1. rule = 1
      BY <2>2, <2>3, <2>4 DEF ParseLine
    <3>2. \E c \in Columns : v[c] = Bad
      BY <2>3, <2>4, BadBeforeTheEnd DEF Values
    <3> QED
      BY <3>1, <3>2 DEF IsFirstBroken, Obeys, idx
  <2>5. CASE \A c \in Columns : InFields(fields, idx, c)
    <3>1. rule = RuleBroken(v)
      BY <2>2, <2>3, <2>5 DEF ParseLine
    <3>2. v \in FieldValues
      BY <2>2, <2>5, LinesAssumption DEF idx
    <3> QED
      BY <3>1, <3>2, FirstRule DEF idx
  <2> QED
    BY <2>4, <2>5
<1> QED
  BY <1>1, LineInvariant, PTL

--------------------------------------------------------------------------------
(***************************************************************************)
(* Sums over finite sets. Stats counts with SumFunctionOnSet of the        *)
(* library, a recursion over an element chosen from the set.               *)
(***************************************************************************)

(***************************************************************************)
(* The least-number principle for a set of numbers. The induction theorems *)
(* of the library take an operator, so the proofs below reason from the    *)
(* least counterexample instead.                                           *)
(***************************************************************************)
LEMMA LeastNatural ==
  ASSUME NEW T \in SUBSET Nat, T # {}
  PROVE  \E n \in T : \A m \in T : n <= m
<1>1. PICK n \in T : \A m \in T : <<m, n>> \notin OpToRel(<, Nat)
  BY NatLessThanWellFounded, WFMin
<1>2. \A m \in T : ~(m < n)
  BY <1>1 DEF OpToRel
<1> QED
  BY <1>2

(***************************************************************************)
(* One step of the recursion of SumFunctionOnSet, and the functions that   *)
(* are a solution of it over the sets D.                                   *)
(***************************************************************************)
Rest(s) == s \ {CHOOSE x \in s : TRUE}

Step(fun, iter, s) ==
  IF s = {} THEN 0 ELSE LET x == CHOOSE x \in s : TRUE IN fun[x] + iter[s \ {x}]

SumsOver(fun, D, iter) == iter = [s \in D |-> Step(fun, iter, s)]

(***************************************************************************)
(* What SumFunctionOnSet of the library stands for.                        *)
(***************************************************************************)
LEMMA Unfold ==
  ASSUME NEW fun, NEW D
  PROVE  SumFunctionOnSet(fun, D) = (CHOOSE iter : SumsOver(fun, SUBSET D, iter))[D]
  BY DEF SumFunctionOnSet, FoldFunctionOnSet, MapThenFoldSet, SumsOver, Step

(***************************************************************************)
(* A set without the element chosen from it is smaller.                    *)
(***************************************************************************)
LEMMA TheRest ==
  ASSUME NEW s, IsFiniteSet(s), s # {}
  PROVE  /\ (CHOOSE x \in s : TRUE) \in s
         /\ Rest(s) \subseteq s
         /\ Cardinality(s) \in Nat /\ Cardinality(s) > 0
         /\ Cardinality(Rest(s)) = Cardinality(s) - 1
         /\ IsFiniteSet(Rest(s))
<1>1. (CHOOSE x \in s : TRUE) \in s
  OBVIOUS
<1>2. Cardinality(s) \in Nat /\ Cardinality(s) # 0
  BY FS_CardinalityType, FS_EmptySet
<1>3. IsFiniteSet(Rest(s)) /\ Cardinality(Rest(s)) = Cardinality(s) - 1
  BY <1>1, FS_RemoveElement DEF Rest
<1>4. Rest(s) \subseteq s
  BY DEF Rest
<1> QED
  BY <1>1, <1>2, <1>3, <1>4

(***************************************************************************)
(* The recursion has a solution: the sums over sets of n elements extend   *)
(* those over the smaller ones.                                            *)
(***************************************************************************)
Upto(D, n) == {s \in SUBSET D : Cardinality(s) <= n}

LEMMA SumsExist ==
  ASSUME NEW fun, NEW D, IsFiniteSet(D)
  PROVE  \E iter : SumsOver(fun, SUBSET D, iter)
<1> DEFINE T == {n \in Nat : ~ \E iter : SumsOver(fun, Upto(D, n), iter)}
<1>1. T = {}
  <2> SUFFICES ASSUME T # {} PROVE FALSE
    OBVIOUS
  <2>1. PICK n \in T : \A m \in T : n <= m
    <3> HIDE DEF T
    <3>1. T \in SUBSET Nat
      BY DEF T
    <3> QED
      BY <3>1, LeastNatural
  <2>2. \A s \in SUBSET D : IsFiniteSet(s) /\ Cardinality(s) \in Nat
    BY FS_Subset, FS_CardinalityType
  <2>3. CASE n = 0
    <3>1. Upto(D, 0) = {{}}
      BY <2>2, FS_EmptySet DEF Upto
    <3>2. PICK zero : zero = [s \in {{}} |-> 0]
      OBVIOUS
    <3>3. \A s \in {{}} : Step(fun, zero, s) = 0
      BY DEF Step
    <3>4. SumsOver(fun, Upto(D, 0), zero)
      BY <3>1, <3>2, <3>3 DEF SumsOver
    <3> QED
      BY <2>3, <3>4
  <2>4. CASE n # 0
    <3>1. n - 1 \in Nat /\ n - 1 \notin T
      BY <2>1, <2>4
    <3>2. PICK iter : SumsOver(fun, Upto(D, n - 1), iter)
      BY <3>1
    <3>3. PICK next : next = [s \in Upto(D, n) |-> Step(fun, iter, s)]
      OBVIOUS
    <3>4. \A s \in Upto(D, n) : s # {} => Rest(s) \in Upto(D, n - 1) /\ s \in Upto(D, n)
      BY <2>2, TheRest, <3>1 DEF Upto
    <3>5. \A s \in Upto(D, n - 1) : next[s] = iter[s]
      <4>1. \A s \in Upto(D, n - 1) : s \in Upto(D, n)
        BY <2>2, <3>1 DEF Upto
      <4> QED
        BY <3>2, <3>3, <4>1 DEF SumsOver
    <3>6. \A s \in Upto(D, n) : Step(fun, iter, s) = Step(fun, next, s)
      BY <3>4, <3>5 DEF Step, Rest
    <3>7. SumsOver(fun, Upto(D, n), next)
      BY <3>3, <3>6 DEF SumsOver
    <3> QED
      BY <3>7
  <2> QED
    BY <2>3, <2>4
<1>2. Cardinality(D) \in Nat
  BY FS_CardinalityType
<1>3. Upto(D, Cardinality(D)) = SUBSET D
  BY FS_Subset DEF Upto
<1>4. Cardinality(D) \notin T
  BY <1>1
<1> QED
  BY <1>2, <1>3, <1>4

(***************************************************************************)
(* So a sum is the value of a solution.                                    *)
(***************************************************************************)
LEMMA SumsUnfold ==
  ASSUME NEW fun, NEW D, IsFiniteSet(D)
  PROVE  \E iter : /\ SumsOver(fun, SUBSET D, iter)
                   /\ SumFunctionOnSet(fun, D) = iter[D]
  BY SumsExist, Unfold

(***************************************************************************)
(* Solutions for functions that agree on a set agree on it.                *)
(***************************************************************************)
LEMMA SumsAgree ==
  ASSUME NEW f, NEW g, NEW D, NEW E, IsFiniteSet(D), IsFiniteSet(E),
         NEW i, NEW j, SumsOver(f, SUBSET D, i), SumsOver(g, SUBSET E, j),
         NEW S \in SUBSET (D \intersect E), \A x \in S : f[x] = g[x]
  PROVE  i[S] = j[S]
<1> DEFINE T == {Cardinality(s) : s \in {s \in SUBSET S : i[s] # j[s]}}
<1>0. \A s \in SUBSET S : IsFiniteSet(s) /\ Cardinality(s) \in Nat
  BY FS_Subset, FS_CardinalityType
<1>1. T = {}
  <2> SUFFICES ASSUME T # {} PROVE FALSE
    OBVIOUS
  <2>1. T \in SUBSET Nat
    BY <1>0
  <2>2. PICK n \in T : \A m \in T : n <= m
    <3> HIDE DEF T
    <3> QED
      BY <2>1, LeastNatural
  <2>3. PICK s \in SUBSET S : i[s] # j[s] /\ n = Cardinality(s)
    BY <2>2
  <2>4. i[s] = Step(f, i, s) /\ j[s] = Step(g, j, s)
    BY DEF SumsOver
  <2>5. s # {}
    BY <2>3, <2>4 DEF Step
  <2>6. /\ (CHOOSE x \in s : TRUE) \in s /\ Rest(s) \in SUBSET S
        /\ Cardinality(Rest(s)) = n - 1
    BY <1>0, <2>3, <2>5, TheRest
  <2>7. i[Rest(s)] = j[Rest(s)]
    BY <2>1, <2>2, <2>6
  <2> QED
    BY <2>3, <2>4, <2>5, <2>6, <2>7 DEF Step, Rest
<1> QED
  BY <1>1

(***************************************************************************)
(* A sum depends on the values summed only.                                *)
(***************************************************************************)
LEMMA SumSame ==
  ASSUME NEW f, NEW g, NEW S, IsFiniteSet(S), \A x \in S : f[x] = g[x]
  PROVE  SumFunctionOnSet(f, S) = SumFunctionOnSet(g, S)
<1>1. PICK i : SumsOver(f, SUBSET S, i) /\ SumFunctionOnSet(f, S) = i[S]
  BY SumsUnfold
<1>2. PICK j : SumsOver(g, SUBSET S, j) /\ SumFunctionOnSet(g, S) = j[S]
  BY SumsUnfold
<1>3. i[S] = j[S]
  BY <1>1, <1>2, SumsAgree
<1> QED
  BY <1>1, <1>2, <1>3

(***************************************************************************)
(* Sums of counts are counts.                                              *)
(***************************************************************************)
LEMMA SumsAreNat ==
  ASSUME NEW f, NEW S, IsFiniteSet(S), \A x \in S : f[x] \in Nat,
         NEW i, SumsOver(f, SUBSET S, i)
  PROVE  \A s \in SUBSET S : i[s] \in Nat
<1> DEFINE T == {Cardinality(s) : s \in {s \in SUBSET S : i[s] \notin Nat}}
<1>0. \A s \in SUBSET S : IsFiniteSet(s) /\ Cardinality(s) \in Nat
  BY FS_Subset, FS_CardinalityType
<1>1. T = {}
  <2> SUFFICES ASSUME T # {} PROVE FALSE
    OBVIOUS
  <2>1. T \in SUBSET Nat
    BY <1>0
  <2>2. PICK n \in T : \A m \in T : n <= m
    <3> HIDE DEF T
    <3> QED
      BY <2>1, LeastNatural
  <2>3. PICK s \in SUBSET S : i[s] \notin Nat /\ n = Cardinality(s)
    BY <2>2
  <2>4. i[s] = Step(f, i, s)
    BY DEF SumsOver
  <2>5. s # {}
    BY <2>3, <2>4 DEF Step
  <2>6. /\ (CHOOSE x \in s : TRUE) \in s /\ Rest(s) \in SUBSET S
        /\ Cardinality(Rest(s)) = n - 1
    BY <1>0, <2>3, <2>5, TheRest
  <2>7. i[Rest(s)] \in Nat
    BY <2>1, <2>2, <2>6
  <2> QED
    BY <2>3, <2>4, <2>5, <2>6, <2>7 DEF Step, Rest
<1> QED
  BY <1>1

(***************************************************************************)
(* The order in which elements are chosen does not matter.                 *)
(***************************************************************************)
LEMMA SumsCommute ==
  ASSUME NEW f, NEW S, IsFiniteSet(S), \A x \in S : f[x] \in Nat,
         NEW i, SumsOver(f, SUBSET S, i)
  PROVE  \A s \in SUBSET S : \A x \in s : i[s] = f[x] + i[s \ {x}]
<1> DEFINE Odd == {s \in SUBSET S : \E x \in s : i[s] # f[x] + i[s \ {x}]}
           T == {Cardinality(s) : s \in Odd}
<1>0. \A s \in SUBSET S : IsFiniteSet(s) /\ Cardinality(s) \in Nat /\ i[s] \in Nat
  BY FS_Subset, FS_CardinalityType, SumsAreNat
<1>1. T = {}
  <2> SUFFICES ASSUME T # {} PROVE FALSE
    OBVIOUS
  <2>1. T \in SUBSET Nat
    BY <1>0
  <2>2. PICK n \in T : \A m \in T : n <= m
    <3> HIDE DEF T
    <3> QED
      BY <2>1, LeastNatural
  <2>3. PICK s \in Odd : n = Cardinality(s)
    BY <2>2
  <2>4. PICK x \in s : i[s] # f[x] + i[s \ {x}]
    BY <2>3
  <2> DEFINE y == CHOOSE z \in s : TRUE
  <2>5. y \in s /\ i[s] = f[y] + i[s \ {y}]
    BY <2>4 DEF SumsOver, Step
  <2> HIDE DEF y
  <2>6. /\ s \ {x} \in SUBSET S /\ Cardinality(s \ {x}) = n - 1
        /\ s \ {y} \in SUBSET S /\ Cardinality(s \ {y}) = n - 1
        /\ s \ {x, y} \in SUBSET S
    BY <1>0, <2>3, <2>4, <2>5, FS_RemoveElement
  <2>7. s \ {x} \notin Odd /\ s \ {y} \notin Odd
    <3> HIDE DEF Odd
    <3>1. \A u \in Odd : n <= Cardinality(u)
      BY <2>2
    <3>2. n \in Nat
      BY <2>1, <2>2
    <3> QED
      BY <2>6, <3>1, <3>2
  <2>8. x # y /\ x \in s \ {y} /\ y \in s \ {x}
    BY <2>4, <2>5
  <2>9. (s \ {x}) \ {y} = s \ {x, y} /\ (s \ {y}) \ {x} = s \ {x, y}
    OBVIOUS
  <2>10. /\ i[s \ {x}] = f[y] + i[s \ {x, y}]
         /\ i[s \ {y}] = f[x] + i[s \ {x, y}]
    BY <2>6, <2>7, <2>8, <2>9
  <2>11. f[x] \in Nat /\ f[y] \in Nat /\ i[s \ {x, y}] \in Nat
    BY <1>0, <2>4, <2>5, <2>6
  <2> QED
    BY <2>4, <2>5, <2>10, <2>11
<1> QED
  BY <1>1

(***************************************************************************)
(* An element more adds its value.                                         *)
(***************************************************************************)
LEMMA SumAdd ==
  ASSUME NEW f, NEW S, IsFiniteSet(S), NEW x, x \notin S, 
         \A y \in S : f[y] \in Nat, f[x] \in Nat
  PROVE  /\ SumFunctionOnSet(f, S) \in Nat
         /\ SumFunctionOnSet(f, S \union {x}) = f[x] + SumFunctionOnSet(f, S)
<1> DEFINE D == S \union {x}
<1>1. /\ IsFiniteSet(D) /\ D \in SUBSET D /\ x \in D /\ D \ {x} = S
      /\ S \in SUBSET (D \intersect S) /\ \A y \in D : f[y] \in Nat
  BY FS_AddElement
<1> HIDE DEF D
<1>2. PICK i : SumsOver(f, SUBSET D, i) /\ SumFunctionOnSet(f, D) = i[D]
  BY <1>1, SumsUnfold
<1>3. PICK j : SumsOver(f, SUBSET S, j) /\ SumFunctionOnSet(f, S) = j[S]
  BY <1>1, SumsUnfold
<1>4. i[S] = j[S]
  BY <1>1, <1>2, <1>3, SumsAgree, SMTT(30)
<1>5. i[D] = f[x] + i[D \ {x}]
  BY <1>1, <1>2, SumsCommute
<1>6. j[S] \in Nat
  BY <1>3, SumsAreNat
<1> QED
  BY <1>1, <1>2, <1>3, <1>4, <1>5, <1>6 DEF D

(***************************************************************************)
(* Nothing sums to 0.                                                      *)
(***************************************************************************)
LEMMA SumEmpty ==
  ASSUME NEW f
  PROVE  SumFunctionOnSet(f, {}) = 0
<1>1. PICK i : SumsOver(f, SUBSET {}, i) /\ SumFunctionOnSet(f, {}) = i[{}]
  BY SumsUnfold, FS_EmptySet
<1> QED
  BY <1>1 DEF SumsOver, Step

(***************************************************************************)
(* A count incremented, or a first one, is one more in all.                *)
(***************************************************************************)
LEMMA TotalOneMore ==
  ASSUME NEW f, NEW g, NEW i, IsFiniteSet(DOMAIN f),
         DOMAIN g = DOMAIN f \union {i},
         \A x \in DOMAIN f : f[x] \in Nat,
         \A x \in DOMAIN f : x # i => g[x] = f[x],
         g[i] = IF i \in DOMAIN f THEN f[i] + 1 ELSE 1
  PROVE  Total(f) \in Nat /\ Total(g) = Total(f) + 1
<1> DEFINE U == {x \in DOMAIN f : x # i /\ f[x] # 0}
           F == {x \in DOMAIN f : f[x] # 0}
           G == {x \in DOMAIN g : g[x] # 0}
<1>1. /\ IsFiniteSet(U) /\ i \notin U /\ \A x \in U : f[x] \in Nat /\ g[x] = f[x]
      /\ G = U \union {i}
      /\ i \in DOMAIN f /\ f[i] # 0 => F = U \union {i}
      /\ ~(i \in DOMAIN f /\ f[i] # 0) => F = U
      /\ g[i] \in Nat
      /\ i \in DOMAIN f => f[i] \in Nat
  <2>1. IsFiniteSet(U)
    BY FS_Subset
  <2> QED
    BY <2>1
<1> HIDE DEF U
<1>2. SumFunctionOnSet(f, U) = SumFunctionOnSet(g, U)
  BY <1>1, SumSame
<1>3. \A x \in U : g[x] \in Nat
  BY <1>1
<1>4. SumFunctionOnSet(g, U \union {i}) = g[i] + SumFunctionOnSet(g, U)
      /\ SumFunctionOnSet(g, U) \in Nat
  BY <1>1, <1>3, SumAdd
<1>5. Total(g) = g[i] + SumFunctionOnSet(f, U) /\ SumFunctionOnSet(f, U) \in Nat
  BY <1>1, <1>2, <1>4 DEF Total
<1>6. CASE i \in DOMAIN f /\ f[i] # 0
  <2>1. SumFunctionOnSet(f, U \union {i}) = f[i] + SumFunctionOnSet(f, U)
    BY <1>1, <1>6, SumAdd
  <2>2. Total(f) = f[i] + SumFunctionOnSet(f, U)
    BY <1>1, <1>6, <2>1 DEF Total
  <2> QED
    BY <1>1, <1>5, <1>6, <2>2
<1>7. CASE ~(i \in DOMAIN f /\ f[i] # 0)
  <2>1. Total(f) = SumFunctionOnSet(f, U)
    BY <1>1, <1>7 DEF Total
  <2>2. g[i] = 1
    BY <1>1, <1>7
  <2> QED
    BY <1>5, <2>1, <2>2
<1> QED
  BY <1>6, <1>7

--------------------------------------------------------------------------------
(***************************************************************************)
(* The inductive invariant.                                                *)
(***************************************************************************)

(***************************************************************************)
(* What parseLine lets through: the bounds of R2 to R9.                    *)
(***************************************************************************)
Durations  == {i \in Int : 60 <= i /\ i <= 10800}
Distances  == {i \in Int : 1 <= i /\ i <= 10000}
Latitudes  == {i \in Int : 40500 <= i /\ i <= 41000}
Longitudes == {i \in Int : -74300 <= i /\ i <= -73700}
Hours      == 0 .. 23
Days       == 0 .. 6
Accepted ==
  [ duration : Durations, distance : Distances,
    lat : Latitudes \union {NaN}, lon : Longitudes \union {NaN},
    rateCode : Int, passenger : 1 .. 6, hour : Hours, day : Days ]

TripsInv == trips \in Seq(Accepted)
CellsInv == IsFiniteSet(DOMAIN cellMap)

(***************************************************************************)
(* Nothing is kept or written before the sort.                             *)
(***************************************************************************)
Before == {"load", "compute", "panic"}
BeforeInv == pc \in Before => topCells = <<>> /\ tried = {}

(***************************************************************************)
(* The files before the k-th are written, those after it are as before.    *)
(***************************************************************************)
WrittenUpTo(k) ==
  /\ tried = {Datasets[i] : i \in 1 .. k}
  /\ \A i \in 1 .. 6 : /\ i < k \/ (i = k /\ pc # "error") => stored[Datasets[i]] = "new"
                       /\ i > k => stored[Datasets[i]] = "old"
  /\ pc = "write" => k < 6
  /\ pc = "ok" => k = 6
ExportInv == cmd = "stats" => \E k \in 0 .. 6 : WrittenUpTo(k)

NotNew == {d \in tried : stored[d] # "new"}
SeedInv ==
  cmd = "seed" => /\ Cardinality(NotNew) <= faults
                  /\ pc = "ok" => tried = Names

IInv == /\ TypeOK /\ TripsInv /\ CellsInv /\ BeforeInv /\ ExportInv /\ SeedInv
        /\ NarrowHeaderNeverPanics /\ AggregatesAgree /\ TopCellsAreLargest

--------------------------------------------------------------------------------

(***************************************************************************)
(* buildIndex gives places of the header.                                  *)
(***************************************************************************)
LEMMA LargestIndex ==
  ASSUME NEW n \in Nat, NEW S \in SUBSET (1 .. n), S # {}
  PROVE  Max(S) \in S
<1> DEFINE T == {n - i : i \in S}
<1>1. T \in SUBSET Nat /\ T # {}
  <2>1. \A i \in S : n - i \in Nat
    OBVIOUS
  <2> QED
    BY <2>1
<1>2. PICK m \in T : \A k \in T : m <= k
  <2> HIDE DEF T
  <2> QED
    BY <1>1, LeastNatural
<1>3. PICK i \in S : m = n - i
  BY <1>2
<1>4. \A j \in S : i >= j
  BY <1>2, <1>3
<1> QED
  BY <1>3, <1>4 DEF Max

(***************************************************************************)
(* A column is found where the header has it.                              *)
(***************************************************************************)
LEMMA IndexInHeader ==
  ASSUME NEW h \in Headers, HasColumns(h), NEW c \in Columns
  PROVE  BuildIndex(h)[c] \in 1 .. Len(h)
<1> DEFINE S == {i \in 1 .. Len(h) : h[i] = c}
<1>1. S # {} /\ S \in SUBSET (1 .. Len(h)) /\ Len(h) \in Nat
  BY HeadersAssumption DEF HasColumns
<1>2. Max(S) \in S
  BY <1>1, LargestIndex
<1> QED
  BY <1>2 DEF BuildIndex

(***************************************************************************)
(* All columns of a narrow header are in a line of 19 fields.              *)
(***************************************************************************)
LEMMA NarrowHeaderLine ==
  ASSUME NEW h \in Headers, HasColumns(h), Len(h) <= NumFields, NEW line \in Lines(h)
  PROVE  ParseLine(line, BuildIndex(h)) # Panic
<1>1. CASE Len(line) # NumFields
  BY <1>1 DEF ParseLine, Panic
<1>2. CASE Len(line) = NumFields
  <2> DEFINE idx == BuildIndex(h)
  <2>1. DOMAIN line = 1 .. NumFields
    BY <1>2, LinesAssumption
  <2>2. \A c \in Columns : InFields(line, idx, c)
    <3>1. Len(h) \in Nat
      BY HeadersAssumption
    <3>2. \A c \in Columns : idx[c] \in 1 .. Len(h)
      BY IndexInHeader
    <3> HIDE DEF idx
    <3>3. \A k \in 1 .. Len(h) : k \in 1 .. NumFields
      BY <3>1 DEF NumFields
    <3>4. \A c \in Columns : idx[c] \in DOMAIN line
      BY <2>1, <3>2, <3>3
    <3> QED
      BY <3>4 DEF InFields
  <2>3. ~OutOfRange(line, idx)
    BY <2>2 DEF OutOfRange, Columns
  <2>4. ParseLine(line, idx) = RuleBroken(Values(line, idx))
    BY <1>2, <2>2, <2>3 DEF ParseLine
  <2>5. RuleBroken(Values(line, idx)) \in 0 .. 9
    BY DEF RuleBroken
  <2> QED
    BY <2>4, <2>5 DEF Panic
<1> QED
  BY <1>1, <1>2

(***************************************************************************)
(* What parseLine returns, and the trip it accepts.                        *)
(***************************************************************************)
LEMMA ParsedRule ==
  ASSUME NEW line, NEW idx
  PROVE  ParseLine(line, idx) \in Panic .. 9
<1>1. RuleBroken(Values(line, idx)) \in 0 .. 9
  BY DEF RuleBroken
<1> QED
  BY <1>1 DEF ParseLine, Panic

(***************************************************************************)
(* The bounds of the rules are those of the trips.                         *)
(***************************************************************************)
LEMMA AcceptedTrip ==
  ASSUME NEW h \in Headers, HasColumns(h), NEW line \in Lines(h),
         ParseLine(line, BuildIndex(h)) = 0
  PROVE  Trip(Values(line, BuildIndex(h))) \in Accepted
<1> DEFINE idx == BuildIndex(h)
<1>1. /\ Len(line) = NumFields /\ (\A c \in Columns : InFields(line, idx, c))
      /\ RuleBroken(Values(line, idx)) = 0
  BY DEF ParseLine, Panic
<1>2. PICK v : v = Values(line, idx)
  OBVIOUS
<1> HIDE DEF idx
<1>3. v \in FieldValues /\ RuleBroken(v) = 0
  BY <1>1, <1>2, LinesAssumption DEF idx
<1>4. /\ \A k \in 1 .. 9 : Obeys(v, k) \/ EscapesAsNaN(v, k)
      /\ v.distance # NaN
  BY <1>3, FirstRule DEF IsFirstBroken
<1>5. \A c \in Columns : v[c] # Bad
  BY <1>4 DEF Obeys, EscapesAsNaN
<1>6. /\ v.pickup \in Int /\ v.dropoff \in Int /\ v.passenger \in Int
      /\ v.distance \in Int
      /\ v.lon \in Int \union {NaN} /\ v.lat \in Int \union {NaN}
  BY <1>3, <1>4, <1>5, ParsedValues
<1>7. v.rateCode \in Int
  BY <1>3, <1>5, TheColumns DEF FieldValues
<1>8. ~OutOfBox(v.lat, v.lon)
  BY <1>3 DEF RuleBroken
<1>9. /\ v.lat \in Latitudes \union {NaN} /\ v.lon \in Longitudes \union {NaN}
  <2>1. PICK a \in Int \union {NaN}, o \in Int \union {NaN} : a = v.lat /\ o = v.lon
    BY <1>6
  <2>2. /\ a # NaN => 40500 <= a /\ a <= 41000
        /\ o # NaN => -74300 <= o /\ o <= -73700
    BY <1>8, <2>1, FieldAssumption DEF OutOfBox, Less
  <2>3. a \in Latitudes \union {NaN}
    BY <2>2 DEF Latitudes
  <2>4. o \in Longitudes \union {NaN}
    BY <2>2 DEF Longitudes
  <2> QED
    BY <2>1, <2>3, <2>4
<1>10. Obeys(v, 4) /\ Obeys(v, 6) /\ Obeys(v, 8)
  <2>1. Obeys(v, 4) /\ Obeys(v, 8)
    BY <1>4 DEF EscapesAsNaN
  <2>2. Obeys(v, 6) \/ EscapesAsNaN(v, 6)
    BY <1>4
  <2> QED
    BY <1>4, <2>1, <2>2 DEF EscapesAsNaN
<1>11. PICK sec \in Int, distance \in Int, passenger \in Int :
          /\ sec = v.dropoff - v.pickup /\ distance = v.distance /\ passenger = v.passenger
  BY <1>6
<1>12. sec \in Durations /\ distance \in Distances /\ passenger \in 1 .. 6
  <2>1. 60 <= sec /\ sec <= 10800
    BY <1>10, <1>11 DEF Obeys, Within
  <2>2. 0 < distance /\ distance <= 10000 /\ 1 <= passenger /\ passenger <= 6
    BY <1>10, <1>11 DEF Obeys, Within, Positive
  <2>3. sec \in Durations
    BY <2>1 DEF Durations
  <2>4. distance \in Distances
    BY <2>2 DEF Distances
  <2>5. passenger \in 1 .. 6
    BY <2>2
  <2> QED
    BY <2>3, <2>4, <2>5
<1> DEFINE lat  == v.lat
           lon  == v.lon
           rate == v.rateCode
           hour == (v.pickup \div 3600) % 24
           day  == (4 + v.pickup \div 86400) % 7
<1>13. /\ lat \in Latitudes \union {NaN} /\ lon \in Longitudes \union {NaN}
       /\ rate \in Int /\ hour \in 0 .. 23 /\ day \in 0 .. 6
  <2>1. hour \in 0 .. 23 /\ day \in 0 .. 6
    <3>1. PICK p \in Int : p = v.pickup
      BY <1>6
    <3>2. p \div 3600 \in Int /\ 4 + p \div 86400 \in Int
      OBVIOUS
    <3>3. \A i \in Int : i % 24 \in 0 .. 23 /\ i % 7 \in 0 .. 6
      OBVIOUS
    <3> QED
      BY <3>1, <3>2, <3>3
  <2> HIDE DEF hour, day
  <2> QED
    BY <1>7, <1>9, <2>1
<1>14. Trip(v) \in Accepted
  <2>1. Trip(v) = [ duration |-> sec, distance |-> distance, lat |-> lat, lon |-> lon,
                    rateCode |-> rate, passenger |-> passenger,
                    hour |-> hour, day |-> day ]
    BY <1>11 DEF Trip
  <2> HIDE DEF lat, lon, rate, hour, day
  <2>4. hour \in Hours /\ day \in Days
    BY <1>13 DEF Hours, Days
  <2> QED
    BY <1>12, <1>13, <2>1, <2>4 DEF Accepted
<1> QED
  BY <1>2, <1>14 DEF idx

(***************************************************************************)
(* The six names are different.                                            *)
(***************************************************************************)
LEMMA TheNames ==
  /\ Names = {Datasets[i] : i \in 1 .. 6}
  /\ IsFiniteSet(Names)
  /\ \A i, j \in 1 .. 6 : Datasets[i] = Datasets[j] => i = j
<1>1. DOMAIN Datasets = 1 .. 6
  BY DEF Datasets
<1>2. Names = {Datasets[i] : i \in 1 .. 6}
  BY <1>1 DEF Names, Range
<1>3. 1 .. 6 = {1, 2, 3, 4, 5, 6}
  OBVIOUS
<1>4. Datasets \in Surjection(1 .. 6, Names)
  BY <1>1, <1>2 DEF Surjection, Datasets
<1>5. \A i, j \in 1 .. 6 : Datasets[i] = Datasets[j] => i = j
  BY <1>3 DEF Datasets
<1>6. IsFiniteSet(Names)
  <2>1. \A i, j \in Int : IsFiniteSet(i .. j)
    BY FS_Interval
  <2>2. 1 \in Int /\ 6 \in Int
    OBVIOUS
  <2>3. IsFiniteSet(1 .. 6)
    BY <2>1, <2>2
  <2> QED
    BY <1>4, <2>3, FS_Surjection
<1> QED
  BY <1>2, <1>5, <1>6

(***************************************************************************)
(* The first k names are k names.                                          *)
(***************************************************************************)
LEMMA FirstNames ==
  ASSUME NEW k \in 0 .. 6
  PROVE  Cardinality({Datasets[i] : i \in 1 .. k}) = k
<1> DEFINE S == {Datasets[i] : i \in 1 .. k}
           f == [i \in 1 .. k |-> Datasets[i]]
<1>1. f \in Bijection(1 .. k, S)
  <2>1. \A i, j \in 1 .. k : f[i] = f[j] => i = j
    <3>1. \A i \in 1 .. k : i \in 1 .. 6
      OBVIOUS
    <3> QED
      BY <3>1, TheNames
  <2> QED
    BY <2>1 DEF Bijection, Injection, Surjection, IsInjective
<1> QED
  BY <1>1, FS_CountingElements DEF ExistsBijection

--------------------------------------------------------------------------------
(***************************************************************************)
(* The steps.                                                              *)
(***************************************************************************)

(***************************************************************************)
(* Nothing counted.                                                        *)
(***************************************************************************)
LEMMA TotalOfNothing ==
  ASSUME NEW f, \A i \in DOMAIN f : f[i] = 0
  PROVE  Total(f) = 0
<1>1. {i \in DOMAIN f : f[i] # 0} = {}
  OBVIOUS
<1> QED
  BY <1>1, SumEmpty DEF Total

(***************************************************************************)
(* The invariant holds initially.                                          *)
(***************************************************************************)
LEMMA Initially == Init => IInv
<1> SUFFICES ASSUME Init PROVE IInv
  OBVIOUS
<1> USE DEF Init
<1>0. MaxTrips \in Nat /\ TopN \in Nat \ {0} /\ MaxFaults \in Nat
  BY StatsAssumption
<1>1. \A n \in Nat : Zeros(0 .. n) \in [0 .. n -> Nat]
  BY DEF Zeros
<1>2. TypeOK
  <2>1. byHour \in [0 .. 23 -> Nat] /\ byWeekday \in [0 .. 6 -> Nat] /\ speedCount \in [0 .. 23 -> Nat]
    BY <1>1
  <2>2. durationHist \in [0 .. NDurBins-1 -> Nat] /\ distanceHist \in [0 .. NDistBins-1 -> Nat]
    BY DEF Zeros
  <2>3. DOMAIN cellMap = {}
    OBVIOUS
  <2>4. rule \in Panic .. 9 /\ counted \in 0 .. Len(trips) /\ faults \in 0 .. MaxFaults
    BY <1>0 DEF Panic
  <2>5. topCells \in Seq([cell : DOMAIN cellMap, count : Nat]) /\ Len(topCells) <= TopN
    BY <1>0
  <2>6. Len(trips) <= MaxTrips
    BY <1>0
  <2> QED
    BY <2>1, <2>2, <2>3, <2>4, <2>5, <2>6 DEF TypeOK
<1>3. TripsInv
  BY DEF TripsInv
<1>4. CellsInv
  <2>1. DOMAIN cellMap = {}
    OBVIOUS
  <2> QED
    BY <2>1, FS_EmptySet DEF CellsInv
<1>5. BeforeInv
  BY DEF BeforeInv
<1>6. ExportInv
  <2>1. WrittenUpTo(0)
    <3>1. \A i \in 1 .. 6 : Datasets[i] \in Names
      BY TheNames
    <3> QED
      BY <3>1 DEF WrittenUpTo
  <2> QED
    BY <2>1 DEF ExportInv
<1>7. SeedInv
  <2>1. NotNew = {}
    BY DEF NotNew
  <2> QED
    BY <2>1, FS_EmptySet DEF SeedInv
<1>8. NarrowHeaderNeverPanics
  BY DEF NarrowHeaderNeverPanics
<1>9. AggregatesAgree
  <2>1. \A S : \A i \in DOMAIN Zeros(S) : Zeros(S)[i] = 0
    BY DEF Zeros
  <2>2. \A i \in DOMAIN cellMap : cellMap[i] = 0
    OBVIOUS
  <2>3. /\ Total(byHour) = 0 /\ Total(byWeekday) = 0 /\ Total(durationHist) = 0
        /\ Total(distanceHist) = 0 /\ Total(speedCount) = 0 /\ Total(cellMap) = 0
    BY <2>1, <2>2, TotalOfNothing
  <2> QED
    BY <2>3 DEF AggregatesAgree
<1>10. TopCellsAreLargest
  BY DEF TopCellsAreLargest
<1> QED
  BY <1>2, <1>3, <1>4, <1>5, <1>6, <1>7, <1>8, <1>9, <1>10 DEF IInv

(***************************************************************************)
(* What a step leaves alone stays true.                                    *)
(***************************************************************************)
SameCounts == UNCHANGED <<header, trips, counted, byHour, byWeekday, durationHist, distanceHist,
                           speedCount, cellMap>>
SameOutput == UNCHANGED <<cmd, stored, tried, faults>>

LEMMA CountsStay ==
  ASSUME IInv, SameCounts
  PROVE  /\ TripsInv' /\ CellsInv' /\ AggregatesAgree'
         /\ header' \in Headers
         /\ Len(trips)' <= MaxTrips
         /\ counted' \in 0 .. Len(trips)'
         /\ byHour' \in [0 .. 23 -> Nat] /\ byWeekday' \in [0 .. 6 -> Nat]
         /\ durationHist' \in [0 .. NDurBins-1 -> Nat] /\ distanceHist' \in [0 .. NDistBins-1 -> Nat]
         /\ speedCount' \in [0 .. 23 -> Nat]
         /\ \A c \in DOMAIN cellMap' : cellMap'[c] \in 1 .. counted'
<1> USE DEF SameCounts
<1>1. TripsInv' /\ CellsInv'
  BY DEF IInv, TripsInv, CellsInv
<1>2. AggregatesAgree'
  BY DEF IInv, AggregatesAgree, Total
<1> QED
  BY <1>1, <1>2 DEF IInv, TypeOK

(***************************************************************************)
(* Each action preserves the invariant.                                    *)
(***************************************************************************)
LEMMA StepBadHeader ==
  ASSUME IInv, BadHeader
  PROVE  IInv'
<1> USE DEF BadHeader, fileVars, lineVars, countVars, outVars
<1>1. SameCounts
  BY DEF SameCounts
<1>2. TypeOK'
  BY DEF IInv, TypeOK
<1>3. BeforeInv' /\ NarrowHeaderNeverPanics'
  BY DEF BeforeInv, NarrowHeaderNeverPanics, Before
<1>4. TopCellsAreLargest'
  BY DEF TopCellsAreLargest
<1>5. ExportInv'
  BY DEF IInv, ExportInv, WrittenUpTo
<1>6. SeedInv'
  BY DEF IInv, SeedInv, NotNew
<1> QED
  BY <1>1, <1>2, <1>3, <1>4, <1>5, <1>6, CountsStay DEF IInv

LEMMA StepReadLine ==
  ASSUME IInv, ReadLine
  PROVE  IInv'
<1> USE DEF ReadLine, fileVars, countVars, outVars
<1> DEFINE idx == BuildIndex(header)
<1>0. /\ header \in Headers /\ HasColumns(header) /\ fields' \in Lines(header)
      /\ rule' = ParseLine(fields', idx) /\ pc = "load"
      /\ MaxTrips \in Nat
  BY StatsAssumption DEF IInv, TypeOK
<1>1. /\ trips' \in Seq(Accepted) /\ Len(trips') <= MaxTrips /\ Len(trips) \in Nat
      /\ Len(trips') \in Nat /\ Len(trips) <= Len(trips')
  <2>1. trips \in Seq(Accepted) /\ Len(trips) < MaxTrips /\ Len(trips) \in Nat
    BY DEF IInv, TripsInv
  <2>2. rule' = 0 => Trip(Values(fields', idx)) \in Accepted
    BY <1>0, AcceptedTrip
  <2>3. trips' = IF rule' = 0 THEN Append(trips, Trip(Values(fields', idx))) ELSE trips
    OBVIOUS
  <2> HIDE DEF ReadLine
  <2> QED
    BY <1>0, <2>1, <2>2, <2>3
<1>2. TypeOK'
  <2>1. rule' \in Panic .. 9
    BY <1>0, ParsedRule
  <2>2. counted' \in 0 .. Len(trips')
    BY <1>1 DEF IInv, TypeOK
  <2> QED
    BY <1>1, <2>1, <2>2 DEF IInv, TypeOK
<1>3. TripsInv'
  BY <1>1 DEF TripsInv
<1>4. CellsInv' /\ AggregatesAgree'
  BY DEF IInv, CellsInv, AggregatesAgree, Total
<1>5. BeforeInv'
  BY DEF IInv, BeforeInv, Before
<1>6. ExportInv'
  BY DEF IInv, ExportInv, WrittenUpTo
<1>7. SeedInv'
  BY DEF IInv, SeedInv, NotNew
<1>8. NarrowHeaderNeverPanics'
  BY <1>0, NarrowHeaderLine DEF NarrowHeaderNeverPanics
<1>9. TopCellsAreLargest'
  BY DEF TopCellsAreLargest
<1> QED
  BY <1>2, <1>3, <1>4, <1>5, <1>6, <1>7, <1>8, <1>9 DEF IInv

LEMMA StepLoaded ==
  ASSUME IInv, Loaded
  PROVE  IInv'
<1> USE DEF Loaded, fileVars, countVars, outVars
<1>1. SameCounts
  BY DEF SameCounts
<1>2. TypeOK'
  <2>1. rule' \in Panic .. 9 /\ pc' \in {"load", "compute", "write", "ok", "error", "panic"}
    BY DEF Panic
  <2>2. fields' \in Lines(header') \union {<<>>}
    OBVIOUS
  <2> QED
    BY <2>1, <2>2 DEF IInv, TypeOK
<1>3. BeforeInv' /\ NarrowHeaderNeverPanics'
  BY DEF IInv, BeforeInv, NarrowHeaderNeverPanics, Before
<1>4. TopCellsAreLargest'
  BY DEF TopCellsAreLargest
<1>5. ExportInv'
  BY DEF IInv, ExportInv, WrittenUpTo
<1>6. SeedInv'
  BY DEF IInv, SeedInv, NotNew
<1> QED
  BY <1>1, <1>2, <1>3, <1>4, <1>5, <1>6, CountsStay DEF IInv

(***************************************************************************)
(* Counting a trip adds one to each total: the trip is within the bins.    *)
(***************************************************************************)
LEMMA IncTotal ==
  ASSUME NEW S, IsFiniteSet(S), NEW f \in [S -> Nat], NEW i \in S
  PROVE  Inc(f, i) \in [S -> Nat] /\ Total(Inc(f, i)) = Total(f) + 1
<1> DEFINE g == Inc(f, i)
<1>1. g \in [S -> Nat] /\ g[i] = f[i] + 1 /\ \A x \in S : x # i => g[x] = f[x]
  BY DEF Inc
<1> HIDE DEF g
<1>2. DOMAIN f = S /\ DOMAIN g = S /\ \A x \in S : f[x] \in Nat
  BY <1>1
<1>3. Total(g) = Total(f) + 1
  BY <1>1, <1>2, TotalOneMore
<1> QED
  BY <1>1, <1>3 DEF g

(***************************************************************************)
(* A cell counted, new or not, adds one too.                               *)
(***************************************************************************)
LEMMA AddCellTotal ==
  ASSUME NEW map, IsFiniteSet(DOMAIN map), \A c \in DOMAIN map : map[c] \in Nat, NEW cell
  PROVE  LET new == AddCell(map, cell)
         IN  /\ Total(new) = Total(map) + 1
             /\ DOMAIN new = DOMAIN map \union {cell}
             /\ IsFiniteSet(DOMAIN new)
             /\ \A c \in DOMAIN map : c # cell => new[c] = map[c]
             /\ new[cell] = IF cell \in DOMAIN map THEN map[cell] + 1 ELSE 1
<1> DEFINE new == AddCell(map, cell)
<1>1. /\ DOMAIN new = DOMAIN map \union {cell}
      /\ \A c \in DOMAIN map : c # cell => new[c] = map[c]
      /\ new[cell] = IF cell \in DOMAIN map THEN map[cell] + 1 ELSE 1
  <2>1. CASE cell \in DOMAIN map
    <3>1. new = Inc(map, cell) /\ DOMAIN map = DOMAIN map \union {cell}
      BY <2>1 DEF AddCell
    <3> QED
      BY <2>1, <3>1 DEF Inc
  <2>2. CASE cell \notin DOMAIN map
    <3>1. new = [c \in DOMAIN map \union {cell} |-> IF c = cell THEN 1 ELSE map[c]]
      BY <2>2 DEF AddCell
    <3> QED
      BY <2>2, <3>1
  <2> QED
    BY <2>1, <2>2
<1> HIDE DEF new
<1>2. IsFiniteSet(DOMAIN new)
  BY <1>1, FS_AddElement
<1>3. Total(new) = Total(map) + 1
  BY <1>1, TotalOneMore
<1> QED
  BY <1>1, <1>2, <1>3 DEF new

DurationBins == 0 .. 90
DistanceBins == 0 .. 100

(***************************************************************************)
(* The bins of Compute, and that the accepted trips are within them.       *)
(***************************************************************************)
LEMMA Bins ==
  /\ IsFiniteSet(Hours) /\ IsFiniteSet(Days)
  /\ IsFiniteSet(DurationBins) /\ IsFiniteSet(DistanceBins)
  /\ DurationBins = 0 .. NDurBins-1 /\ DistanceBins = 0 .. NDistBins-1
  /\ \A d \in Durations : d \div 120 \in DurationBins /\ d > 0
  /\ \A d \in Distances : d \div 100 \in DistanceBins
<1>1. \A n \in Nat : IsFiniteSet(0 .. n)
  BY FS_Interval
<1>2. 23 \in Nat /\ 6 \in Nat /\ 90 \in Nat /\ 100 \in Nat
  OBVIOUS
<1>3. /\ IsFiniteSet(Hours) /\ IsFiniteSet(Days)
      /\ IsFiniteSet(DurationBins) /\ IsFiniteSet(DistanceBins)
  BY <1>1, <1>2 DEF Hours, Days, DurationBins, DistanceBins
<1>4. DurationBins = 0 .. NDurBins-1 /\ DistanceBins = 0 .. NDistBins-1
  BY DEF DurationBins, DistanceBins, NDurBins, NDistBins
<1>5. \A d \in Durations : d \div 120 \in DurationBins /\ d > 0
  BY DEF Durations, DurationBins
<1>6. \A d \in Distances : d \div 100 \in DistanceBins
  <2> SUFFICES ASSUME NEW d \in Int, 1 <= d, d <= 10000
               PROVE  d \div 100 \in 0 .. 100
    BY DEF Distances, DistanceBins
  <2>1. 0 <= d \div 100 /\ d \div 100 <= 100
    OBVIOUS
  <2> QED
    BY <2>1
<1> QED
  BY <1>3, <1>4, <1>5, <1>6

(***************************************************************************)
(* Every total counts the trip once.                                       *)
(***************************************************************************)
LEMMA StepCountTrip ==
  ASSUME IInv, CountTrip
  PROVE  IInv'
<1>0. /\ pc = "compute" /\ counted < Len(trips) /\ counted' = counted + 1
      /\ cmd' = cmd /\ header' = header /\ pc' = pc /\ fields' = fields /\ rule' = rule
      /\ trips' = trips /\ topCells' = topCells
      /\ stored' = stored /\ tried' = tried /\ faults' = faults
  BY DEF CountTrip, fileVars, lineVars, outVars
<1>a. TypeOK /\ TripsInv /\ CellsInv /\ BeforeInv /\ AggregatesAgree
  BY DEF IInv
<1>1. /\ counted \in Nat /\ Len(trips) \in Nat /\ trips \in Seq(Accepted)
      /\ counted' \in 1 .. Len(trips)
  <2>1. trips \in Seq(Accepted) /\ Len(trips) \in Nat
    BY <1>a DEF TripsInv
  <2>2. counted \in 0 .. Len(trips)
    BY <1>a DEF TypeOK
  <2> QED
    BY <1>0, <2>1, <2>2
<1>2. PICK t \in Accepted : t = trips[counted']
  BY <1>1
<1>3. /\ byHour' = Inc(byHour, t.hour)
      /\ byWeekday' = Inc(byWeekday, t.day)
      /\ durationHist' = IncBin(durationHist, t.duration \div 120)
      /\ distanceHist' = IncBin(distanceHist, t.distance \div 100)
      /\ speedCount' = IF t.duration > 0 THEN Inc(speedCount, t.hour) ELSE speedCount
      /\ \E cell : cellMap' = AddCell(cellMap, cell)
  BY <1>2 DEF CountTrip
<1>4. PICK cell : cellMap' = AddCell(cellMap, cell)
  BY <1>3
<1>5. /\ byHour \in [Hours -> Nat] /\ byWeekday \in [Days -> Nat]
      /\ durationHist \in [DurationBins -> Nat] /\ distanceHist \in [DistanceBins -> Nat]
      /\ speedCount \in [Hours -> Nat]
      /\ IsFiniteSet(Hours) /\ IsFiniteSet(Days)
      /\ IsFiniteSet(DurationBins) /\ IsFiniteSet(DistanceBins)
  BY <1>a, Bins DEF TypeOK, Hours, Days
<1> DEFINE hour == t.hour
           day == t.day
           duration == t.duration
           distance == t.distance
<1>6. hour \in Hours /\ day \in Days /\ duration \in Durations /\ distance \in Distances
  BY <1>2 DEF Accepted
<1> HIDE DEF hour, day, duration, distance
<1>7. duration \div 120 \in DurationBins /\ distance \div 100 \in DistanceBins /\ duration > 0
  BY <1>6, Bins
<1>8. /\ byHour' = Inc(byHour, hour)
      /\ byWeekday' = Inc(byWeekday, day)
      /\ durationHist' = Inc(durationHist, duration \div 120)
      /\ distanceHist' = Inc(distanceHist, distance \div 100)
      /\ speedCount' = Inc(speedCount, hour)
  <2>1. duration \div 120 \in DOMAIN durationHist /\ distance \div 100 \in DOMAIN distanceHist
    BY <1>5, <1>7
  <2> QED
    BY <1>3, <1>7, <2>1 DEF IncBin, hour, day, duration, distance
<1>9. /\ byHour' \in [Hours -> Nat] /\ Total(byHour') = Total(byHour) + 1
      /\ byWeekday' \in [Days -> Nat] /\ Total(byWeekday') = Total(byWeekday) + 1
      /\ durationHist' \in [DurationBins -> Nat] /\ Total(durationHist') = Total(durationHist) + 1
      /\ distanceHist' \in [DistanceBins -> Nat] /\ Total(distanceHist') = Total(distanceHist) + 1
      /\ speedCount' \in [Hours -> Nat] /\ Total(speedCount') = Total(speedCount) + 1
  <2>1. byHour' \in [Hours -> Nat] /\ Total(byHour') = Total(byHour) + 1
    <3>1. Inc(byHour, hour) \in [Hours -> Nat] /\ Total(Inc(byHour, hour)) = Total(byHour) + 1
      BY <1>5, <1>6, IncTotal
    <3> QED
      BY <1>8, <3>1, Zenon
  <2>2. byWeekday' \in [Days -> Nat] /\ Total(byWeekday') = Total(byWeekday) + 1
    <3>1. Inc(byWeekday, day) \in [Days -> Nat] /\ Total(Inc(byWeekday, day)) = Total(byWeekday) + 1
      BY <1>5, <1>6, IncTotal
    <3> QED
      BY <1>8, <3>1, Zenon
  <2>3. durationHist' \in [DurationBins -> Nat] /\ Total(durationHist') = Total(durationHist) + 1
    <3>1. Inc(durationHist, duration \div 120) \in [DurationBins -> Nat] /\ Total(Inc(durationHist, duration \div 120)) = Total(durationHist) + 1
      BY <1>5, <1>7, IncTotal
    <3> QED
      BY <1>8, <3>1, Zenon
  <2>4. distanceHist' \in [DistanceBins -> Nat] /\ Total(distanceHist') = Total(distanceHist) + 1
    <3>1. Inc(distanceHist, distance \div 100) \in [DistanceBins -> Nat] /\ Total(Inc(distanceHist, distance \div 100)) = Total(distanceHist) + 1
      BY <1>5, <1>7, IncTotal
    <3> QED
      BY <1>8, <3>1, Zenon
  <2>5. speedCount' \in [Hours -> Nat] /\ Total(speedCount') = Total(speedCount) + 1
    <3>1. Inc(speedCount, hour) \in [Hours -> Nat] /\ Total(Inc(speedCount, hour)) = Total(speedCount) + 1
      BY <1>5, <1>6, IncTotal
    <3> QED
      BY <1>8, <3>1, Zenon
  <2> QED
    BY <2>1, <2>2, <2>3, <2>4, <2>5
<1>10. IsFiniteSet(DOMAIN cellMap) /\ \A c \in DOMAIN cellMap : cellMap[c] \in Nat /\ cellMap[c] <= counted
  <2>1. IsFiniteSet(DOMAIN cellMap) /\ \A c \in DOMAIN cellMap : cellMap[c] \in 1 .. counted
    BY <1>a DEF TypeOK, CellsInv
  <2> QED
    BY <1>1, <2>1
<1>11. /\ Total(cellMap') = Total(cellMap) + 1
       /\ DOMAIN cellMap' = DOMAIN cellMap \union {cell}
       /\ IsFiniteSet(DOMAIN cellMap')
       /\ \A c \in DOMAIN cellMap : c # cell => cellMap'[c] = cellMap[c]
       /\ cellMap'[cell] = IF cell \in DOMAIN cellMap THEN cellMap[cell] + 1 ELSE 1
  <2>1. IsFiniteSet(DOMAIN cellMap) /\ \A c \in DOMAIN cellMap : cellMap[c] \in Nat
    BY <1>10
  <2>2. cellMap' = AddCell(cellMap, cell)
    BY <1>4
  <2> DEFINE map == AddCell(cellMap, cell)
  <2>3. /\ Total(map) = Total(cellMap) + 1
        /\ DOMAIN map = DOMAIN cellMap \union {cell}
        /\ IsFiniteSet(DOMAIN map)
        /\ \A c \in DOMAIN cellMap : c # cell => map[c] = cellMap[c]
        /\ map[cell] = IF cell \in DOMAIN cellMap THEN cellMap[cell] + 1 ELSE 1
    BY <2>1, AddCellTotal, Zenon
  <2>4. cellMap' = map
    BY <2>2
  <2> HIDE DEF map
  <2> QED
    BY <2>3, <2>4, Zenon
<1>12. TypeOK'
  <2>1. \A c \in DOMAIN cellMap' : cellMap'[c] \in 1 .. counted'
    <3>1. \A c \in DOMAIN cellMap : cellMap[c] \in 1 .. counted
      BY <1>a DEF TypeOK
    <3>2. SUFFICES ASSUME NEW c \in DOMAIN cellMap' PROVE cellMap'[c] \in 1 .. counted'
      OBVIOUS
    <3>3. CASE c = cell
      BY <1>0, <1>1, <1>11, <3>1, <3>3
    <3>4. CASE c # cell
      <4>1. c \in DOMAIN cellMap /\ cellMap'[c] = cellMap[c]
        BY <1>11, <3>2, <3>4
      <4> QED
        BY <1>0, <1>1, <3>1, <4>1
    <3> QED
      BY <3>3, <3>4
  <2>2. topCells' = <<>> /\ TopN \in Nat
    BY <1>0, <1>a, StatsAssumption DEF BeforeInv, Before
  <2>3. topCells' \in Seq([cell : DOMAIN cellMap', count : Nat]) /\ Len(topCells') <= TopN
    BY <2>2
  <2>4. /\ byHour' \in [0 .. 23 -> Nat] /\ byWeekday' \in [0 .. 6 -> Nat]
        /\ durationHist' \in [0 .. NDurBins-1 -> Nat] /\ distanceHist' \in [0 .. NDistBins-1 -> Nat]
        /\ speedCount' \in [0 .. 23 -> Nat]
    BY <1>9, Bins DEF Hours, Days
  <2>5. counted' \in 0 .. Len(trips')
    BY <1>0, <1>1
  <2> QED
    BY <1>0, <1>a, <2>1, <2>3, <2>4, <2>5 DEF TypeOK
<1>13. TripsInv' /\ CellsInv'
  BY <1>0, <1>1, <1>11 DEF TripsInv, CellsInv
<1>14. AggregatesAgree'
  <2>1. /\ Total(byHour) = counted /\ Total(byWeekday) = counted /\ Total(durationHist) = counted
        /\ Total(distanceHist) = counted /\ Total(speedCount) = counted /\ Total(cellMap) = counted
    BY <1>a DEF AggregatesAgree
  <2>2. /\ Total(byHour') = counted' /\ Total(byWeekday') = counted' /\ Total(durationHist') = counted'
        /\ Total(distanceHist') = counted' /\ Total(speedCount') = counted' /\ Total(cellMap') = counted'
    BY <1>0, <1>9, <1>11, <2>1
  <2>3. \A f \in {byHour', byWeekday', durationHist', distanceHist', speedCount', cellMap'} :
          Total(f) = counted'
    BY <2>2
  <2> QED
    BY <2>3 DEF AggregatesAgree
<1>15. BeforeInv' /\ NarrowHeaderNeverPanics'
  BY <1>0 DEF IInv, BeforeInv, NarrowHeaderNeverPanics
<1>16. ExportInv'
  BY <1>0 DEF IInv, ExportInv, WrittenUpTo
<1>17. SeedInv'
  BY <1>0 DEF IInv, SeedInv, NotNew
<1>18. TopCellsAreLargest'
  BY <1>0 DEF TopCellsAreLargest
<1> QED
  BY <1>12, <1>13, <1>14, <1>15, <1>16, <1>17, <1>18 DEF IInv

(***************************************************************************)
(* The sort keeps the largest cells: the lesser of TopN and their number.  *)
(***************************************************************************)
LEMMA KeptIsLesser ==
  ASSUME NEW n \in Nat
  PROVE  Kept(n) \in Nat /\ Kept(n) <= n /\ Kept(n) <= TopN /\ (Kept(n) = n \/ Kept(n) = TopN)
<1>1. TopN \in Nat
  BY StatsAssumption
<1>2. \E x \in {TopN, n} : \A y \in {TopN, n} : x <= y
  BY <1>1
<1>3. Kept(n) \in {TopN, n} /\ \A y \in {TopN, n} : Kept(n) <= y
  BY <1>2 DEF Kept, Min
<1> QED
  BY <1>1, <1>3

(***************************************************************************)
(* The cells kept are a bijection's first, so they are different and none  *)
(* left out is larger.                                                     *)
(***************************************************************************)
LEMMA StepSortCells ==
  ASSUME IInv, SortCells
  PROVE  IInv'
<1>0. /\ pc = "compute" /\ pc' = "write" /\ counted = Len(trips)
      /\ cmd' = cmd /\ header' = header /\ fields' = fields /\ rule' = rule
      /\ trips' = trips /\ counted' = counted /\ cellMap' = cellMap
      /\ stored' = stored /\ tried' = tried /\ faults' = faults
      /\ SameCounts
  BY DEF SortCells, SameCounts, fileVars, lineVars, countVars, outVars
<1> DEFINE cells == DOMAIN cellMap
           n == Cardinality(cells)
<1>1. IsFiniteSet(cells) /\ n \in Nat
  BY FS_CardinalityType DEF IInv, CellsInv
<1>2. PICK s \in Sorted(cellMap) :
        topCells' = [i \in 1 .. Kept(Cardinality(DOMAIN s)) |-> [cell |-> s[i], count |-> cellMap[s[i]]]]
  BY DEF SortCells
<1>3. /\ s \in [1 .. n -> cells] /\ DOMAIN s = 1 .. n
      /\ \A i, j \in 1 .. n : s[i] = s[j] => i = j
      /\ \A c \in cells : \E i \in 1 .. n : s[i] = c
      /\ \A i, j \in 1 .. n : i < j => cellMap[s[i]] >= cellMap[s[j]]
  BY DEF Sorted, Bijection, Injection, Surjection, IsInjective
<1>4. Cardinality(DOMAIN s) = n
  <2>1. 1 \in Int /\ n \in Int
    BY <1>1
  <2>2. Cardinality(1 .. n) = IF 1 > n THEN 0 ELSE n - 1 + 1
    BY <2>1, FS_Interval
  <2> QED
    BY <1>1, <1>3, <2>2
<1>5. \A c \in cells : cellMap[c] \in Nat
  <2>1. \A c \in cells : cellMap[c] \in 1 .. counted
    BY DEF IInv, TypeOK
  <2> QED
    BY <2>1
<1> HIDE DEF n, cells
<1> DEFINE k == Kept(n)
<1>6. k \in Nat /\ k <= n /\ k <= TopN /\ (k = n \/ k = TopN)
  BY <1>1, KeptIsLesser
<1>7. topCells' = [i \in 1 .. k |-> [cell |-> s[i], count |-> cellMap[s[i]]]]
  BY <1>2, <1>4
<1> HIDE DEF k
<1>8. \A i \in 1 .. k : i \in 1 .. n /\ s[i] \in cells /\ cellMap[s[i]] \in Nat
  BY <1>1, <1>3, <1>5, <1>6
<1>9. topCells' \in Seq([cell : cells, count : Nat]) /\ Len(topCells') = k
  BY <1>6, <1>7, <1>8
<1>10. TypeOK'
  <2>1. Len(topCells') <= TopN
    BY <1>6, <1>9
  <2>2. topCells' \in Seq([cell : DOMAIN cellMap', count : Nat])
    BY <1>0, <1>9 DEF cells
  <2> QED
    BY <1>0, <2>1, <2>2, CountsStay DEF IInv, TypeOK
<1>11. TopCellsAreLargest'
  <2> DEFINE kept == {topCells'[i].cell : i \in 1 .. Len(topCells')}
  <2>1. \A i \in 1 .. k : topCells'[i].cell = s[i] /\ topCells'[i].count = cellMap[s[i]]
    BY <1>7
  <2>2. kept = {s[i] : i \in 1 .. k}
    BY <1>9, <2>1
  <2>3. Cardinality(kept) = k
    <3> DEFINE f == [i \in 1 .. k |-> s[i]]
    <3>1. f \in Bijection(1 .. k, {s[i] : i \in 1 .. k})
      BY <1>3, <1>8 DEF Bijection, Injection, Surjection, IsInjective
    <3>2. Cardinality({s[i] : i \in 1 .. k}) = k
      BY <1>6, <3>1, FS_CountingElements DEF ExistsBijection
    <3> QED
      BY <2>2, <3>2
  <2>4. kept = cells \/ k = TopN
    <3> SUFFICES ASSUME k = n PROVE kept = cells
      BY <1>6
    <3>1. \A c \in cells : c \in {s[i] : i \in 1 .. k}
      BY <1>3
    <3>2. \A c \in {s[i] : i \in 1 .. k} : c \in cells
      BY <1>8
    <3> QED
      BY <2>2, <3>1, <3>2
  <2>5. \A c \in cells \ kept, d \in kept : cellMap[c] <= cellMap[d]
    <3> SUFFICES ASSUME NEW c \in cells \ kept, NEW d \in kept PROVE cellMap[c] <= cellMap[d]
      OBVIOUS
    <3>1. PICK j \in 1 .. n : s[j] = c
      BY <1>3
    <3>2. PICK i \in 1 .. k : s[i] = d
      BY <2>2
    <3>3. j \notin 1 .. k
      BY <2>2, <3>1
    <3>4. i < j /\ i \in 1 .. n
      BY <1>1, <1>6, <1>8, <3>3
    <3>5. cellMap[s[i]] >= cellMap[s[j]] /\ cellMap[s[i]] \in Nat /\ cellMap[s[j]] \in Nat
      BY <1>3, <1>5, <1>8, <3>1, <3>4
    <3> QED
      BY <3>1, <3>2, <3>5
  <2>6. \A i \in 1 .. k : topCells'[i].count = cellMap[topCells'[i].cell]
    BY <2>1
  <2> QED
    BY <1>0, <1>9, <2>3, <2>4, <2>5, <2>6 DEF TopCellsAreLargest, cells
<1>12. ExportInv'
  <2> SUFFICES ASSUME cmd = "stats" PROVE \E m \in 0 .. 6 : WrittenUpTo(m)'
    BY <1>0 DEF ExportInv
  <2>1. PICK m \in 0 .. 6 : WrittenUpTo(m)
    BY DEF IInv, ExportInv
  <2>2. tried = {} /\ tried = {Datasets[i] : i \in 1 .. m}
    BY <1>0, <2>1 DEF IInv, BeforeInv, Before, WrittenUpTo
  <2>3. m = 0
    <3>1. m # 0 => 1 \in 1 .. m
      OBVIOUS
    <3> QED
      BY <2>2, <3>1
  <2> QED
    BY <1>0, <2>1, <2>3 DEF WrittenUpTo
<1>13. SeedInv'
  BY <1>0 DEF IInv, SeedInv, NotNew
<1>14. BeforeInv' /\ NarrowHeaderNeverPanics'
  BY <1>0 DEF BeforeInv, Before, NarrowHeaderNeverPanics
<1> QED
  BY <1>0, <1>10, <1>11, <1>12, <1>13, <1>14, CountsStay DEF IInv

(***************************************************************************)
(* What TopCellsAreLargest says of the cells kept.                         *)
(***************************************************************************)
Largest(top, map) ==
  LET kept == {top[i].cell : i \in 1 .. Len(top)}
  IN  /\ Cardinality(kept) = Len(top)
      /\ kept = DOMAIN map \/ Len(top) = TopN
      /\ \A i \in 1 .. Len(top) : top[i].count = map[top[i].cell]
      /\ \A c \in DOMAIN map \ kept, k \in kept : map[c] <= map[k]

LEMMA TopCells ==
  TopCellsAreLargest
    <=> (pc \in {"write", "ok", "error"} /\ HasColumns(header) => Largest(topCells, cellMap))
  BY DEF TopCellsAreLargest, Largest

(***************************************************************************)
(* The next file of the order is written, or the export ends.              *)
(***************************************************************************)
LEMMA StepExportCSV ==
  ASSUME IInv, ExportCSV
  PROVE  IInv'
<1> DEFINE d == Datasets[Cardinality(tried) + 1]
<1>0. /\ pc = "write" /\ cmd = "stats" /\ pc' = AfterWrite
      /\ tried' = tried \union {d}
      /\ cmd' = cmd /\ header' = header /\ fields' = fields /\ rule' = rule
      /\ trips' = trips /\ counted' = counted /\ cellMap' = cellMap /\ topCells' = topCells
      /\ SameCounts
  BY DEF ExportCSV, SameCounts, fileVars, lineVars, countVars
<1>1. /\ stored \in [Names -> {"old", "partial", "new"}] /\ tried \subseteq Names
      /\ faults \in Nat /\ MaxFaults \in Nat /\ faults <= MaxFaults
  <2>1. /\ stored \in [Names -> {"old", "partial", "new"}] /\ tried \subseteq Names
        /\ faults \in 0 .. MaxFaults
    BY DEF IInv, TypeOK
  <2> QED
    BY <2>1, StatsAssumption
<1>2. PICK k \in 0 .. 5 : WrittenUpTo(k)
  <2>1. PICK k \in 0 .. 6 : WrittenUpTo(k)
    BY <1>0 DEF IInv, ExportInv
  <2>2. k \in 0 .. 5
    BY <1>0, <2>1 DEF WrittenUpTo
  <2> QED
    BY <2>1, <2>2
<1>3. /\ k \in 0 .. 6 /\ k + 1 \in 1 .. 6 /\ k + 1 \in Nat
      /\ \A i \in 1 .. k + 1 : i \in 1 .. 6 /\ (i \in 1 .. k \/ i = k + 1)
      /\ \A i \in 1 .. k : i \in 1 .. k + 1
  OBVIOUS
<1>4. Cardinality(tried) = k
  BY <1>2, <1>3, FirstNames DEF WrittenUpTo
<1>5. /\ d = Datasets[k + 1] /\ d \in Names
  BY <1>3, <1>4, TheNames
<1>6. tried' = {Datasets[i] : i \in 1 .. k + 1} /\ tried' \subseteq Names
  <2>1. tried = {Datasets[i] : i \in 1 .. k}
    BY <1>2 DEF WrittenUpTo
  <2> QED
    BY <1>0, <1>1, <1>3, <1>5, <2>1
<1>7. Cardinality(tried') = k + 1
  <2>1. k + 1 \in 0 .. 6
    BY <1>3
  <2> QED
    BY <1>6, <2>1, FirstNames
<1>8. \/ stored' = [stored EXCEPT ![d] = "new"] /\ faults' = faults
      \/ /\ stored' \in {stored, [stored EXCEPT ![d] = "partial"]}
         /\ faults < MaxFaults /\ faults' = faults + 1
  BY DEF ExportCSV, WriteCSV, Fault
<1>9. /\ faults' = faults => pc' \in {"ok", "write"} /\ stored'[d] = "new"
      /\ faults' # faults => pc' = "error"
      /\ pc' = "ok" => k + 1 = 6
      /\ pc' = "write" => k + 1 < 6
  <2>1. faults' = faults => stored'[d] = "new"
    BY <1>1, <1>5, <1>8
  <2>2. pc' = IF faults' # faults THEN "error" ELSE IF k + 1 = 6 THEN "ok" ELSE "write"
    BY <1>0, <1>7 DEF AfterWrite
  <2> QED
    BY <1>3, <2>1, <2>2
<1> HIDE DEF d
<1>10. /\ stored' \in [Names -> {"old", "partial", "new"}] /\ faults' \in 0 .. MaxFaults
       /\ \A i \in 1 .. 6 : i # k + 1 => stored'[Datasets[i]] = stored[Datasets[i]]
  <2>1. \A i \in 1 .. 6 : i # k + 1 => Datasets[i] # d /\ Datasets[i] \in Names
    BY <1>3, <1>5, TheNames
  <2>2. stored' \in [Names -> {"old", "partial", "new"}] /\ faults' \in 0 .. MaxFaults
    BY <1>1, <1>5, <1>8
  <2> QED
    BY <1>1, <1>5, <1>8, <2>1, <2>2
<1>11. TypeOK'
  <2>1. pc' \in {"ok", "write", "error"}
    BY <1>9
  <2> QED
    BY <1>0, <1>6, <1>10, <2>1, CountsStay DEF IInv, TypeOK
<1>12. ExportInv'
  <2>1. \A i \in 1 .. 6 :
          /\ i < k + 1 \/ (i = k + 1 /\ pc' # "error") => stored'[Datasets[i]] = "new"
          /\ i > k + 1 => stored'[Datasets[i]] = "old"
    <3> SUFFICES ASSUME NEW i \in 1 .. 6
                 PROVE  /\ i < k + 1 \/ (i = k + 1 /\ pc' # "error") => stored'[Datasets[i]] = "new"
                        /\ i > k + 1 => stored'[Datasets[i]] = "old"
      OBVIOUS
    <3>1. CASE i = k + 1
      BY <1>5, <1>9, <3>1
    <3>2. CASE i # k + 1
      <4>1. stored'[Datasets[i]] = stored[Datasets[i]]
        BY <1>10, <3>2
      <4>2. /\ i < k \/ i = k => stored[Datasets[i]] = "new"
            /\ i > k => stored[Datasets[i]] = "old"
        BY <1>0, <1>2 DEF WrittenUpTo
      <4> QED
        BY <1>2, <3>2, <4>1, <4>2
    <3> QED
      BY <3>1, <3>2
  <2>2. WrittenUpTo(k + 1)'
    BY <1>6, <1>9, <2>1 DEF WrittenUpTo
  <2>3. k + 1 \in 0 .. 6
    BY <1>3
  <2> QED
    BY <2>2, <2>3 DEF ExportInv
<1>13. SeedInv'
  BY <1>0 DEF SeedInv
<1>14. BeforeInv' /\ NarrowHeaderNeverPanics'
  BY <1>9 DEF BeforeInv, Before, NarrowHeaderNeverPanics
<1>15. TopCellsAreLargest'
  <2>1. HasColumns(header) => Largest(topCells, cellMap)
    BY <1>0, TopCells DEF IInv
  <2>2. HasColumns(header') => Largest(topCells', cellMap')
    BY <1>0, <2>1 DEF SameCounts
  <2> QED
    BY <2>2 DEF TopCellsAreLargest, Largest
<1> QED
  BY <1>0, <1>11, <1>12, <1>13, <1>14, <1>15, CountsStay DEF IInv

(***************************************************************************)
(* No connection to MongoDB: the program ends with nothing stored.         *)
(***************************************************************************)
LEMMA StepConnectFails ==
  ASSUME IInv, ConnectFails
  PROVE  IInv'
<1>0. /\ pc = "write" /\ cmd = "seed" /\ pc' = "error"
      /\ faults < MaxFaults /\ faults' = faults + 1
      /\ cmd' = cmd /\ header' = header /\ fields' = fields /\ rule' = rule
      /\ trips' = trips /\ counted' = counted /\ cellMap' = cellMap /\ topCells' = topCells
      /\ stored' = stored /\ tried' = tried
      /\ SameCounts
  BY DEF ConnectFails, Fault, SameCounts, fileVars, lineVars, countVars
<1>1. faults \in Nat /\ MaxFaults \in Nat
  <2>1. faults \in 0 .. MaxFaults
    BY DEF IInv, TypeOK
  <2> QED
    BY <2>1, StatsAssumption
<1>2. TypeOK'
  <2>1. faults' \in 0 .. MaxFaults
    BY <1>0, <1>1
  <2> QED
    BY <1>0, <2>1, CountsStay DEF IInv, TypeOK
<1>3. SeedInv'
  <2>1. IsFiniteSet(NotNew) /\ Cardinality(NotNew) \in Nat /\ Cardinality(NotNew) <= faults
    <3>1. NotNew \in SUBSET Names
      BY DEF IInv, TypeOK, NotNew
    <3>2. IsFiniteSet(NotNew)
      BY <3>1, TheNames, FS_Subset
    <3> QED
      BY <1>0, <3>2, FS_CardinalityType DEF IInv, SeedInv
  <2>2. NotNew' = NotNew
    BY <1>0 DEF NotNew
  <2>3. Cardinality(NotNew') <= faults'
    BY <1>0, <1>1, <2>1, <2>2
  <2> QED
    BY <1>0, <2>3 DEF SeedInv
<1>4. ExportInv'
  BY <1>0 DEF ExportInv
<1>5. BeforeInv' /\ NarrowHeaderNeverPanics'
  BY <1>0 DEF BeforeInv, Before, NarrowHeaderNeverPanics
<1>6. TopCellsAreLargest'
  <2>1. HasColumns(header) => Largest(topCells, cellMap)
    BY <1>0, TopCells DEF IInv
  <2>2. HasColumns(header') => Largest(topCells', cellMap')
    BY <1>0, <2>1 DEF SameCounts
  <2> QED
    BY <2>2 DEF TopCellsAreLargest, Largest
<1> QED
  BY <1>0, <1>2, <1>3, <1>4, <1>5, <1>6, CountsStay DEF IInv

(***************************************************************************)
(* An upsert without a fault leaves its dataset new.                       *)
(***************************************************************************)
LEMMA StepUpsertInsight ==
  ASSUME IInv, UpsertInsight
  PROVE  IInv'
<1>0. /\ pc = "write" /\ cmd = "seed" /\ pc' = AfterUpsert
      /\ cmd' = cmd /\ header' = header /\ fields' = fields /\ rule' = rule
      /\ trips' = trips /\ counted' = counted /\ cellMap' = cellMap /\ topCells' = topCells
      /\ SameCounts
  BY DEF UpsertInsight, SameCounts, fileVars, lineVars, countVars
<1>1. PICK d \in Names \ tried :
        /\ tried' = tried \union {d}
        /\ \/ stored' = [stored EXCEPT ![d] = "new"] /\ faults' = faults
           \/ /\ stored' \in {stored, [stored EXCEPT ![d] = "new"]}
              /\ faults < MaxFaults /\ faults' = faults + 1
  BY DEF UpsertInsight, Fault
<1>2. /\ stored \in [Names -> {"old", "partial", "new"}] /\ tried \subseteq Names
      /\ faults \in Nat /\ MaxFaults \in Nat /\ faults <= MaxFaults
  <2>1. /\ stored \in [Names -> {"old", "partial", "new"}] /\ tried \subseteq Names
        /\ faults \in 0 .. MaxFaults
    BY DEF IInv, TypeOK
  <2> QED
    BY <2>1, StatsAssumption
<1>3. /\ stored' \in [Names -> {"old", "partial", "new"}] /\ faults' \in 0 .. MaxFaults
      /\ tried' \subseteq Names /\ pc' \in {"ok", "write"}
      /\ pc' = "ok" => tried' = Names
  <2>1. pc' \in {"ok", "write"} /\ (pc' = "ok" => tried' = Names)
    BY <1>0 DEF AfterUpsert
  <2> QED
    BY <1>1, <1>2, <2>1
<1>4. TypeOK'
  BY <1>0, <1>3, CountsStay DEF IInv, TypeOK
<1>5. SeedInv'
  <2>1. IsFiniteSet(NotNew) /\ Cardinality(NotNew) \in Nat /\ Cardinality(NotNew) <= faults
    <3>1. NotNew \in SUBSET Names
      BY <1>2 DEF NotNew
    <3>2. IsFiniteSet(NotNew)
      BY <3>1, TheNames, FS_Subset
    <3> QED
      BY <1>0, <3>2, FS_CardinalityType DEF IInv, SeedInv
  <2>2. \A e \in tried : stored'[e] = stored[e]
    BY <1>1, <1>2
  <2>3. d \notin NotNew /\ NotNew' \in {NotNew, NotNew \union {d}}
    BY <1>1, <2>2 DEF NotNew
  <2>4. Cardinality(NotNew') <= faults'
    <3>1. CASE faults' = faults
      <4>1. stored'[d] = "new"
        BY <1>1, <1>2, <3>1
      <4>2. NotNew' = NotNew
        BY <1>1, <2>2, <4>1 DEF NotNew
      <4> QED
        BY <2>1, <3>1, <4>2
    <3>2. CASE faults' = faults + 1
      <4>1. Cardinality(NotNew \union {d}) = Cardinality(NotNew) + 1
        BY <2>1, <2>3, FS_AddElement
      <4> QED
        BY <1>2, <2>1, <2>3, <3>2, <4>1
    <3> QED
      BY <1>1, <3>1, <3>2
  <2> QED
    BY <1>3, <2>4 DEF SeedInv
<1>6. ExportInv'
  BY <1>0 DEF ExportInv
<1>7. BeforeInv' /\ NarrowHeaderNeverPanics'
  BY <1>3 DEF BeforeInv, Before, NarrowHeaderNeverPanics
<1>8. TopCellsAreLargest'
  <2>1. HasColumns(header) => Largest(topCells, cellMap)
    BY <1>0, TopCells DEF IInv
  <2>2. HasColumns(header') => Largest(topCells', cellMap')
    BY <1>0, <2>1 DEF SameCounts
  <2> QED
    BY <2>2 DEF TopCellsAreLargest, Largest
<1> QED
  BY <1>0, <1>4, <1>5, <1>6, <1>7, <1>8, CountsStay DEF IInv

(***************************************************************************)
(* The invariant of the specification.                                     *)
(***************************************************************************)
LEMMA Invariance == Spec => []IInv
<1>1. IInv /\ UNCHANGED vars => IInv'
  <2> SUFFICES ASSUME IInv, UNCHANGED vars PROVE IInv'
    OBVIOUS
  <2> USE DEF vars, fileVars, lineVars, countVars, outVars
  <2>1. SameCounts
    BY DEF SameCounts
  <2>2. TypeOK'
    BY DEF IInv, TypeOK
  <2>3. BeforeInv' /\ NarrowHeaderNeverPanics' /\ TopCellsAreLargest'
    BY DEF IInv, BeforeInv, NarrowHeaderNeverPanics, TopCellsAreLargest
  <2>4. ExportInv' /\ SeedInv'
    BY DEF IInv, ExportInv, WrittenUpTo, SeedInv, NotNew
  <2> QED
    BY <2>1, <2>2, <2>3, <2>4, CountsStay DEF IInv
<1>2. IInv /\ [Next]_vars => IInv'
  BY <1>1, StepBadHeader, StepReadLine, StepLoaded, StepCountTrip, StepSortCells,
     StepExportCSV, StepConnectFails, StepUpsertInsight DEF Next, Ended
<1> QED
  BY <1>2, Initially, PTL DEF Spec

(***************************************************************************)
(* Types of the variables, whatever the file. The hour and the day of a    *)
(* trip are within the arrays of StatsResult (stats.go:17-21), so Compute  *)
(* indexes none of them out of range.                                      *)
(***************************************************************************)
THEOREM TypeCorrect == Spec => []TypeOK
<1>1. IInv => TypeOK
  BY DEF IInv
<1> QED
  BY <1>1, Invariance, PTL

(***************************************************************************)
(* With any header no wider than the lines, parseLine (parser.go:65-107)   *)
(* indexes no field that is not there.                                     *)
(***************************************************************************)
THEOREM NoPanic == Spec => []NarrowHeaderNeverPanics
<1>1. IInv => NarrowHeaderNeverPanics
  BY DEF IInv
<1> QED
  BY <1>1, Invariance, PTL

(***************************************************************************)
(* The histograms, the cells and the mean speeds of Compute                *)
(* (stats.go:52-116) count the same trips: R4, R6 and R9 keep each of them *)
(* within the bins.                                                        *)
(***************************************************************************)
THEOREM AggregatesCorrect == Spec => []AggregatesAgree
<1>1. IInv => AggregatesAgree
  BY DEF IInv
<1> QED
  BY <1>1, Invariance, PTL

(***************************************************************************)
(* The cells that Compute keeps (stats.go:97-113) are largest, however the *)
(* ties are broken.                                                        *)
(***************************************************************************)
THEOREM TopCellsCorrect == Spec => []TopCellsAreLargest
<1>1. IInv => TopCellsAreLargest
  BY DEF IInv
<1> QED
  BY <1>1, Invariance, PTL

(***************************************************************************)
(* ExportCSVs (stats.go:118-138): success means six new files, and an      *)
(* error leaves a prefix of them.                                          *)
(***************************************************************************)
THEOREM ExportCorrect == Spec => []ExportReported
<1>1. IInv => ExportReported
  <2> SUFFICES ASSUME IInv, cmd = "stats"
               PROVE  /\ pc = "ok" => \A d \in Names : stored[d] = "new"
                      /\ \A i, j \in 1 .. 6 : i < j /\ stored[Datasets[i]] # "new"
                           => stored[Datasets[j]] = "old"
    BY DEF ExportReported
  <2>1. PICK k \in 0 .. 6 : WrittenUpTo(k)
    BY DEF IInv, ExportInv
  <2>2. \A i \in 1 .. 6 : /\ i < k \/ (i = k /\ pc # "error") => stored[Datasets[i]] = "new"
                          /\ i > k => stored[Datasets[i]] = "old"
    BY <2>1 DEF WrittenUpTo
  <2>3. pc = "ok" => k = 6
    BY <2>1 DEF WrittenUpTo
  <2>4. pc = "ok" => \A i \in 1 .. 6 : stored[Datasets[i]] = "new"
    BY <2>2, <2>3
  <2>5. \A i, j \in 1 .. 6 : i < j /\ stored[Datasets[i]] # "new" => stored[Datasets[j]] = "old"
    BY <2>2
  <2> QED
    BY <2>4, <2>5, TheNames
<1> QED
  BY <1>1, Invariance, PTL

(***************************************************************************)
(* An upsert that fails costs its own dataset only (main.go:307-313).      *)
(***************************************************************************)
THEOREM InsightsCorrect == Spec => []InsightsAreIndependent
<1>1. IInv => InsightsAreIndependent
  <2> SUFFICES ASSUME IInv, cmd = "seed", pc = "ok"
               PROVE  Cardinality({d \in Names : stored[d] # "new"}) <= faults
    BY DEF InsightsAreIndependent
  <2>1. tried = Names /\ Cardinality(NotNew) <= faults
    BY DEF IInv, SeedInv
  <2> QED
    BY <2>1 DEF NotNew
<1> QED
  BY <1>1, Invariance, PTL

(***************************************************************************)
(* The lat_centro that writeCellsCSV (stats.go:201) prints for a cell is   *)
(* within half a cell of each of its pickups: R5 makes every latitude      *)
(* positive.                                                               *)
(***************************************************************************)
THEOREM CentresCorrect == Spec => []LatitudesAreNearCentre
<1>1. \A lat \in Latitudes : \A c \in CellsOf(lat) :
        c \in Int /\ -5 <= Centre(c) - lat /\ Centre(c) - lat <= 5
  <2> SUFFICES ASSUME NEW lat \in Int, 40500 <= lat, lat <= 41000, NEW c \in CellsOf(lat)
               PROVE  c \in Int /\ -5 <= Centre(c) - lat /\ Centre(c) - lat <= 5
    BY DEF Latitudes
  <2>1. c = lat \div 10 \/ (lat % 10 = 0 /\ c = (lat - 1) \div 10)
    BY FieldAssumption DEF CellsOf, Truncate
  <2> QED
    BY <2>1 DEF Centre
<1>2. IInv => LatitudesAreNearCentre
  <2> SUFFICES ASSUME IInv, NEW i \in 1 .. Len(trips)
               PROVE  IsNearCentre(trips[i].lat)
    BY DEF LatitudesAreNearCentre
  <2> DEFINE lat == trips[i].lat
  <2>1. trips[i] \in Accepted
    BY DEF IInv, TripsInv
  <2>2. lat \in Latitudes \union {NaN}
    BY <2>1 DEF Accepted
  <2> HIDE DEF lat
  <2>3. ASSUME lat # NaN, NEW c \in CellsOf(lat) PROVE Within(Centre(c) - lat, -5, 5)
    <3>1. lat \in Latitudes
      BY <2>2, <2>3
    <3>2. c \in Int /\ -5 <= Centre(c) - lat /\ Centre(c) - lat <= 5
      BY <1>1, <2>3, <3>1
    <3>3. lat \in Int
      BY <3>1 DEF Latitudes
    <3>4. Centre(c) - lat \in Int
      BY <3>2, <3>3 DEF Centre
    <3> QED
      BY <3>2, <3>4, FieldAssumption, Zenon DEF Within
  <2> QED
    BY <2>3 DEF lat, IsNearCentre
<1> QED
  BY <1>2, Invariance, PTL

================================================================================
