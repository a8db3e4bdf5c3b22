----------------------------- MODULE Loader_proofs -----------------------------
(***************************************************************************)
(* Proofs about Loader: no line is lost or counted twice, and Load         *)
(* implements LoadReport, for any file, workers, batches, capacities and   *)
(* limit.                                                                  *)
(***************************************************************************)
EXTENDS Loader, SeqFacts

--------------------------------------------------------------------------------
(***************************************************************************)
(* The inductive invariant: LinesConserved, and what it takes to preserve  *)
(* it and to conclude from it.                                             *)
(***************************************************************************)

Started == pc \notin {"start", "failed"}

(***************************************************************************)
(* Only lines that were sent are anywhere, each in a place for its rule.   *)
(***************************************************************************)
BoundsInv ==
  /\ totalRead <= Report!Wanted
  /\ \A k \in 1 .. Len(batchCh) : batchCh[k].lo <= batchCh[k].hi /\ batchCh[k].hi <= sent
  /\ \A w \in Workers : wpc[w] = "parse" => 1 <= cur[w] /\ cur[w] <= last[w] /\ last[w] <= sent
  /\ \A k \in 1 .. Len(outCh) : outCh[k] <= sent /\ RuleOf(outCh[k]) = 0
  /\ \A k \in 1 .. Len(trips) : trips[k] <= sent /\ RuleOf(trips[k]) = 0
  /\ \A i \in dropped : i <= sent /\ RuleOf(i) \in Rules

ReaderInv ==
  /\ rpc = "idle" <=> ~Started
  /\ rpc = "idle" => totalRead = 0
  /\ rpc = "send" => sent < totalRead
  /\ rpc \in {"flush", "close", "exit"} => truncated \/ totalRead = Report!Wanted
  /\ rpc \in {"close", "exit"} => sent = totalRead
  /\ batchClosed => rpc = "exit"

Active == {w \in Workers : wpc[w] \in {"recv", "parse"}}

WorkerInv ==
  /\ running = Cardinality(Active)
  /\ \A w \in Workers : wpc[w] = "idle" <=> ~Started
  /\ \A w \in Workers : wpc[w] = "exit" => NoMoreBatches
  /\ outClosed => Started /\ running = 0
  /\ pc = "returned" => outClosed /\ outCh = <<>>

CountersInv == \A r \in Rules : counters[r] = Cardinality({i \in dropped : RuleOf(i) = r})

IInv == TypeOK /\ BoundsInv /\ ReaderInv /\ WorkerInv /\ LinesConserved /\ CountersInv

--------------------------------------------------------------------------------
LEMMA Sizes ==
  ASSUME TypeOK
  PROVE  /\ NumLines \in Nat /\ Report!Wanted \in Nat /\ Report!Wanted <= NumLines
         /\ file \in Seq(Panic .. 9) /\ W \in Nat \ {0} /\ BatchSize \in Nat \ {0}
         /\ totalRead \in Nat /\ sent \in Nat /\ sent <= totalRead /\ totalRead <= NumLines
<1>1. file \in Seq(Panic .. 9)
  BY FilesAssumption DEF TypeOK
<1>2. NumLines \in Nat
  BY <1>1 DEF NumLines
<1>3. Report!Wanted \in Nat /\ Report!Wanted <= NumLines
  BY <1>2, SizesAssumption DEF Report!Wanted, NumLines
<1> QED
  BY <1>1, <1>2, <1>3, SizesAssumption DEF TypeOK

LEMMA WorkersAreFinite == IsFiniteSet(Workers) /\ Cardinality(Workers) = W
<1>1. 1 \in Int /\ W \in Int /\ W > 0
  BY SizesAssumption
<1>2. IsFiniteSet(1 .. W) /\ Cardinality(1 .. W) = IF 1 > W THEN 0 ELSE W - 1 + 1
  BY <1>1, FS_Interval
<1> QED
  BY <1>1, <1>2 DEF Workers

(***************************************************************************)
(* The places of a line, counted.                                          *)
(***************************************************************************)
Covering(i) == {b \in [lo : Nat, hi : Nat] : i \in b.lo .. b.hi}
Holders(i)  == {w \in Workers : i \in AtWorker(w)}

PlacesSum(i) ==
  /\ Places(i) = CountOf(batchCh, Covering(i)) + Cardinality(Holders(i))
                   + CountOf(outCh, {i}) + CountOf(trips, {i})
                   + (IF i \in dropped THEN 1 ELSE 0)
  /\ CountOf(batchCh, Covering(i)) \in Nat /\ Cardinality(Holders(i)) \in Nat
  /\ CountOf(outCh, {i}) \in Nat /\ CountOf(trips, {i}) \in Nat
  /\ IsFiniteSet(Holders(i))

LEMMA PlacesCounted == TypeOK => \A i : PlacesSum(i)
<1> SUFFICES ASSUME TypeOK, NEW i PROVE PlacesSum(i)
  OBVIOUS
<1> DEFINE Batches == [lo : 1 .. NumLines, hi : 1 .. NumLines]
<1>1. batchCh \in Seq(Batches) /\ outCh \in Seq(1 .. NumLines) /\ trips \in Seq(1 .. NumLines)
  BY DEF TypeOK
<1>2. \A b \in Batches : b \in [lo : Nat, hi : Nat]
  OBVIOUS
<1>3. \A k \in 1 .. Len(batchCh) : batchCh[k] \in Batches
  <2> HIDE DEF Batches
  <2> QED
    BY <1>1, Elements
<1>4. {k \in 1 .. Len(batchCh) : i \in batchCh[k].lo .. batchCh[k].hi}
        = {k \in 1 .. Len(batchCh) : batchCh[k] \in Covering(i)}
  BY <1>2, <1>3 DEF Covering
<1>5. /\ {k \in 1 .. Len(outCh) : outCh[k] = i} = {k \in 1 .. Len(outCh) : outCh[k] \in {i}}
      /\ {k \in 1 .. Len(trips) : trips[k] = i} = {k \in 1 .. Len(trips) : trips[k] \in {i}}
  OBVIOUS
<1>6. Places(i) = CountOf(batchCh, Covering(i)) + Cardinality(Holders(i))
                   + CountOf(outCh, {i}) + CountOf(trips, {i})
                   + (IF i \in dropped THEN 1 ELSE 0)
  BY <1>4, <1>5 DEF Places, CountOf, Holders
<1> HIDE DEF Batches
<1>7. /\ CountOf(batchCh, Covering(i)) \in Nat
      /\ CountOf(outCh, {i}) \in Nat /\ CountOf(trips, {i}) \in Nat
  BY <1>1, CountType
<1>8. IsFiniteSet(Holders(i)) /\ Cardinality(Holders(i)) \in Nat
  BY WorkersAreFinite, FS_Subset, FS_CardinalityType DEF Holders
<1> QED
  BY <1>6, <1>7, <1>8 DEF PlacesSum

LEMMA PlacesCountedNext == TypeOK' => (\A i : PlacesSum(i))'
  BY PlacesCounted, PTL

(***************************************************************************)
(* A step that moves no line.                                              *)
(***************************************************************************)
LEMMA NothingMoves ==
  ASSUME UNCHANGED <<batchCh, outCh, trips, dropped, cur, last>>,
         \A w \in Workers : wpc'[w] = "parse" <=> wpc[w] = "parse", NEW i
  PROVE  Places(i)' = Places(i)
<1>1. {w \in Workers : i \in AtWorker(w)}' = {w \in Workers : i \in AtWorker(w)}
  BY DEF AtWorker
<1> QED
  BY <1>1 DEF Places

LEMMA SameFile ==
  ASSUME file' = file
  PROVE  /\ NumLines' = NumLines /\ Report!Wanted' = Report!Wanted
         /\ \A i : RuleOf(i)' = RuleOf(i)
  BY DEF NumLines, RuleOf, Report!Wanted

LEMMA NotMoved ==
  ASSUME IInv, UNCHANGED <<file, totalRead, sent, batchCh, outCh, trips, dropped, cur, last,
                           counters>>,
         \A w \in Workers : wpc'[w] = "parse" <=> wpc[w] = "parse"
  PROVE  BoundsInv' /\ LinesConserved' /\ CountersInv'
<1>1. BoundsInv'
  BY SameFile DEF IInv, BoundsInv
<1>2. LinesConserved'
  BY NothingMoves DEF IInv, LinesConserved
<1>3. CountersInv'
  BY SameFile DEF IInv, CountersInv
<1> QED
  BY <1>1, <1>2, <1>3

--------------------------------------------------------------------------------

LEMMA InitIInv == Init => IInv
<1> SUFFICES ASSUME Init PROVE IInv
  OBVIOUS
<1>1. TypeOK
  <2>1. /\ file \in Files /\ pc = "start" /\ rpc = "idle" /\ totalRead = 0
        /\ truncated = FALSE /\ sent = 0 /\ batchCh = <<>> /\ batchClosed = FALSE
        /\ wpc = [w \in Workers |-> "idle"] /\ cur = [w \in Workers |-> 0]
        /\ last = [w \in Workers |-> 0] /\ counters = [r \in Rules |-> 0] /\ dropped = {}
        /\ running = 0 /\ outCh = <<>> /\ outClosed = FALSE /\ trips = <<>>
    BY DEF Init
  <2>2. NumLines \in Nat /\ W \in Nat \ {0} /\ OutPerWorker \in Nat \ {0}
    BY <2>1, FilesAssumption, SizesAssumption DEF NumLines
  <2>3. W * OutPerWorker \in Nat /\ 2 * W \in Nat /\ Len(<<>>) = 0
    BY <2>2
  <2>4. 0 <= W * OutPerWorker /\ 0 <= 2 * W /\ 0 \in 0 .. NumLines /\ 0 \in 0 .. NumLines + 1
        /\ 0 \in 0 .. W /\ 0 \in 0 .. 0
    BY <2>2, <2>3
  <2>5. /\ batchCh \in Seq([lo : 1 .. NumLines, hi : 1 .. NumLines]) /\ Len(batchCh) <= 2 * W
        /\ outCh \in Seq(1 .. NumLines) /\ Len(outCh) <= W * OutPerWorker
        /\ trips \in Seq(1 .. NumLines)
    BY <2>1, <2>3, <2>4
  <2>6. /\ cur \in [Workers -> 0 .. NumLines+1] /\ last \in [Workers -> 0 .. NumLines]
        /\ counters \in [Rules -> Nat]
    BY <2>1, <2>4
  <2> QED
    BY <2>1, <2>4, <2>5, <2>6 DEF TypeOK
<1>2. Report!Wanted \in Nat
  BY <1>1, Sizes
<1>3. BoundsInv
  BY <1>2 DEF Init, BoundsInv
<1>4. ReaderInv
  BY DEF Init, ReaderInv, Started
<1>5. WorkerInv
  <2>1. Active = {}
    BY DEF Init, Active
  <2> QED
    BY <2>1, FS_EmptySet DEF Init, WorkerInv, Started
<1>6. LinesConserved
  BY DEF Init, LinesConserved
<1>7. CountersInv
  <2>1. \A r \in Rules : {i \in dropped : RuleOf(i) = r} = {}
    BY DEF Init
  <2> QED
    BY <2>1, FS_EmptySet DEF Init, CountersInv
<1> QED
  BY <1>1, <1>3, <1>4, <1>5, <1>6, <1>7 DEF IInv

--------------------------------------------------------------------------------
(***************************************************************************)
(* The caller.                                                             *)
(***************************************************************************)

LEMMA FailIInv == ASSUME IInv, Fail PROVE IInv'
<1> USE DEF Fail, readerVars, workerVars
<1>1. TypeOK /\ ReaderInv /\ WorkerInv
  BY DEF IInv
<1>2. BoundsInv' /\ LinesConserved' /\ CountersInv'
  BY NotMoved
<1>3. TypeOK'
  BY <1>1 DEF TypeOK, NumLines
<1>4. ReaderInv'
  BY <1>1, SameFile DEF ReaderInv, Started
<1>5. WorkerInv'
  BY <1>1 DEF WorkerInv, Started, Active, NoMoreBatches
<1> QED
  BY <1>2, <1>3, <1>4, <1>5 DEF IInv

LEMMA StartIInv == ASSUME IInv, Start PROVE IInv'
<1> USE DEF Start
<1>1. TypeOK /\ ReaderInv /\ WorkerInv
  BY DEF IInv
<1>2. wpc' = [w \in Workers |-> "recv"] /\ \A w \in Workers : wpc[w] = "idle"
  BY <1>1 DEF WorkerInv, Started
<1>3. BoundsInv' /\ LinesConserved' /\ CountersInv'
  BY <1>2, NotMoved
<1>4. W \in 0 .. W
  BY SizesAssumption
<1>5. TypeOK'
  BY <1>1, <1>4 DEF TypeOK, NumLines
<1>6. ReaderInv'
  BY <1>1, SameFile DEF ReaderInv, Started
<1>7. WorkerInv'
  <2>1. Active' = Workers
    BY <1>2 DEF Active
  <2>2. running' = Cardinality(Active)'
    BY <2>1, WorkersAreFinite
  <2> QED
    BY <1>1, <1>2, <2>2 DEF WorkerInv, Started
<1> QED
  BY <1>3, <1>5, <1>6, <1>7 DEF IInv

LEMMA ReturnIInv == ASSUME IInv, Return PROVE IInv'
<1> USE DEF Return, readerVars, workerVars
<1>1. TypeOK /\ ReaderInv /\ WorkerInv
  BY DEF IInv
<1>2. BoundsInv' /\ LinesConserved' /\ CountersInv'
  BY NotMoved
<1>3. TypeOK'
  BY <1>1 DEF TypeOK, NumLines
<1>4. ReaderInv'
  BY <1>1, SameFile DEF ReaderInv, Started
<1>5. WorkerInv'
  BY <1>1 DEF WorkerInv, Started, Active, NoMoreBatches
<1> QED
  BY <1>2, <1>3, <1>4, <1>5 DEF IInv

LEMMA CollectIInv == ASSUME IInv, Collect PROVE IInv'
<1> DEFINE x == Head(outCh)
<1>1. TypeOK /\ BoundsInv /\ ReaderInv /\ WorkerInv /\ LinesConserved /\ CountersInv
  BY DEF IInv
<1>2. /\ pc = "collect" /\ outCh # <<>> /\ trips' = Append(trips, x) /\ outCh' = Tail(outCh)
      /\ UNCHANGED <<file, pc, rpc, totalRead, truncated, sent, batchCh, batchClosed, wpc, cur,
                     last, counters, dropped, running, outClosed>>
  BY DEF Collect, readerVars, workerVars
<1>3. outCh \in Seq(1 .. NumLines) /\ trips \in Seq(1 .. NumLines)
  BY <1>1 DEF TypeOK
<1>4. /\ Len(outCh) \in Nat /\ Len(outCh) > 0 /\ x = outCh[1] /\ x \in 1 .. NumLines
      /\ Tail(outCh) \in Seq(1 .. NumLines) /\ Len(Tail(outCh)) = Len(outCh) - 1
      /\ \A k \in 1 .. Len(outCh) - 1 : k + 1 \in 1 .. Len(outCh) /\ Tail(outCh)[k] = outCh[k + 1]
  BY <1>2, <1>3, Tails
<1>5. /\ Append(trips, x) \in Seq(1 .. NumLines) /\ Len(Append(trips, x)) = Len(trips) + 1
      /\ Len(trips) \in Nat /\ Append(trips, x)[Len(trips) + 1] = x
      /\ \A k \in 1 .. Len(trips) : Append(trips, x)[k] = trips[k]
  BY <1>3, <1>4, Appends
<1> HIDE DEF x
<1>6. TypeOK'
  <2>1. Len(outCh) - 1 <= W * OutPerWorker
    BY <1>1, <1>4, SizesAssumption DEF TypeOK
  <2> QED
    BY <1>1, <1>2, <1>4, <1>5, <2>1 DEF TypeOK, NumLines
<1>7. BoundsInv'
  <2>1. \A k \in 1 .. Len(outCh') : outCh'[k] <= sent /\ RuleOf(outCh'[k]) = 0
    BY <1>1, <1>2, <1>4 DEF BoundsInv
  <2>2. x <= sent /\ RuleOf(x) = 0
    BY <1>1, <1>4 DEF BoundsInv
  <2>3. \A k \in 1 .. Len(trips') : trips'[k] <= sent /\ RuleOf(trips'[k]) = 0
    BY <1>1, <1>2, <1>5, <2>2 DEF BoundsInv
  <2> QED
    BY <1>1, <1>2, <2>1, <2>3, SameFile DEF BoundsInv, RuleOf
<1>8. ReaderInv'
  BY <1>1, <1>2, SameFile DEF ReaderInv, Started
<1>9. WorkerInv'
  BY <1>1, <1>2 DEF WorkerInv, Started, Active, NoMoreBatches
<1>10. LinesConserved'
  <2>1. ASSUME NEW i PROVE Places(i)' = Places(i)
    <3>1. /\ CountOf(outCh, {i}) = CountOf(outCh', {i}) + (IF x \in {i} THEN 1 ELSE 0)
          /\ CountOf(trips', {i}) = CountOf(trips, {i}) + (IF x \in {i} THEN 1 ELSE 0)
      BY <1>2, <1>3, <1>4, CountTail, CountAppend DEF x
    <3>2. CountOf(batchCh, Covering(i))' = CountOf(batchCh, Covering(i))
      BY <1>2 DEF CountOf, Covering
    <3>3. Holders(i)' = Holders(i)
      BY <1>2 DEF Holders, AtWorker
    <3>4. PlacesSum(i) /\ PlacesSum(i)'
      BY <1>1, <1>6, PlacesCounted, PlacesCountedNext
    <3> QED
      BY <1>2, <3>1, <3>2, <3>3, <3>4, SMTT(30) DEF PlacesSum
  <2> QED
    BY <1>1, <1>2, <2>1 DEF LinesConserved
<1>11. CountersInv'
  BY <1>1, <1>2, SameFile DEF CountersInv
<1> QED
  BY <1>6, <1>7, <1>8, <1>9, <1>10, <1>11 DEF IInv

--------------------------------------------------------------------------------
(***************************************************************************)
(* The reader.                                                             *)
(***************************************************************************)

(***************************************************************************)
(* A line that is not sent is nowhere.                                     *)
(***************************************************************************)
LEMMA NotSent ==
  ASSUME TypeOK, BoundsInv, NEW i \in Nat, sent < i PROVE Places(i) = 0
<1>1. sent \in Nat /\ NumLines \in Nat
  BY Sizes
<1>2. /\ batchCh \in Seq([lo : 1 .. NumLines, hi : 1 .. NumLines])
      /\ outCh \in Seq(1 .. NumLines) /\ trips \in Seq(1 .. NumLines)
      /\ last \in [Workers -> 0 .. NumLines] /\ dropped \subseteq 1 .. NumLines
  BY DEF TypeOK
<1>3. CountOf(batchCh, Covering(i)) = 0
  <2>1. ASSUME NEW k \in 1 .. Len(batchCh) PROVE batchCh[k] \notin Covering(i)
    <3>1. batchCh[k] \in [lo : 1 .. NumLines, hi : 1 .. NumLines]
      BY <1>2, Elements
    <3>2. batchCh[k].hi <= sent /\ batchCh[k].hi \in Nat
      BY <3>1 DEF BoundsInv
    <3> QED
      BY <1>1, <3>2 DEF Covering
  <2> QED
    BY <1>2, <2>1, CountType
<1>4. Holders(i) = {}
  <2>1. ASSUME NEW w \in Workers, wpc[w] = "parse" PROVE i \notin cur[w] .. last[w]
    BY <1>1, <1>2, <2>1 DEF BoundsInv
  <2> QED
    BY <2>1 DEF Holders, AtWorker
<1>5. ASSUME NEW s \in Seq(1 .. NumLines), \A k \in 1 .. Len(s) : s[k] <= sent
      PROVE  CountOf(s, {i}) = 0
  <2>1. ASSUME NEW k \in 1 .. Len(s) PROVE s[k] \notin {i}
    <3>1. s[k] \in 1 .. NumLines
      BY Elements
    <3> QED
      BY <1>1, <1>5, <3>1
  <2> QED
    BY <2>1, CountType
<1>6. CountOf(outCh, {i}) = 0 /\ CountOf(trips, {i}) = 0
  BY <1>2, <1>5 DEF BoundsInv
<1>7. i \notin dropped
  BY <1>1, <1>2 DEF BoundsInv
<1>8. PlacesSum(i)
  BY PlacesCounted
<1> QED
  BY <1>3, <1>4, <1>6, <1>7, <1>8, FS_EmptySet DEF PlacesSum

LEMMA ScanLineIInv == ASSUME IInv, ScanLine PROVE IInv'
<1>1. TypeOK /\ BoundsInv /\ ReaderInv /\ WorkerInv /\ LinesConserved /\ CountersInv
  BY DEF IInv
<1>2. /\ rpc = "scan" /\ totalRead < NumLines /\ ~LimitReached /\ totalRead' = totalRead + 1
      /\ rpc' = IF totalRead' - sent = BatchSize THEN "send" ELSE "scan"
      /\ UNCHANGED <<file, pc, truncated, sent, batchCh, batchClosed, wpc, cur, last, counters,
                     dropped, running, outCh, outClosed, trips>>
  BY DEF ScanLine, workerVars
<1>3. /\ NumLines \in Nat /\ BatchSize \in Nat \ {0} /\ totalRead \in Nat /\ sent \in Nat
      /\ sent <= totalRead
  BY <1>1, Sizes
<1>4. TypeOK'
  <2>1. totalRead + 1 \in 0 .. NumLines /\ sent \in 0 .. totalRead + 1
    BY <1>2, <1>3
  <2> QED
    BY <1>1, <1>2, <2>1 DEF TypeOK, NumLines
<1>5. totalRead + 1 <= Report!Wanted
  BY <1>2, <1>3, SizesAssumption DEF Report!Wanted, LimitReached, NumLines
<1>6. BoundsInv'
  BY <1>1, <1>2, <1>5, SameFile DEF BoundsInv
<1>7. ReaderInv'
  BY <1>1, <1>2, <1>3 DEF ReaderInv, Started
<1>8. WorkerInv'
  BY <1>1, <1>2 DEF WorkerInv, Started, Active, NoMoreBatches
<1>9. LinesConserved'
  <2>1. ASSUME NEW i \in 1 .. totalRead + 1 PROVE Places(i)' = IF i <= sent THEN 1 ELSE 0
    <3>1. Places(i)' = Places(i)
      BY <1>2, NothingMoves
    <3>2. CASE i \in 1 .. totalRead
      BY <1>1, <3>1, <3>2 DEF LinesConserved
    <3>3. CASE i \notin 1 .. totalRead
      <4>1. i \in Nat /\ sent < i
        BY <1>3, <3>3
      <4> QED
        BY <1>1, <1>3, <3>1, <4>1, NotSent
    <3> QED
      BY <3>2, <3>3
  <2> QED
    BY <1>2, <2>1 DEF LinesConserved
<1>10. CountersInv'
  BY <1>1, <1>2, SameFile DEF CountersInv
<1> QED
  BY <1>4, <1>6, <1>7, <1>8, <1>9, <1>10 DEF IInv

LEMMA EndScanIInv == ASSUME IInv, StopScan \/ ScanFails PROVE IInv'
<1>1. TypeOK /\ BoundsInv /\ ReaderInv /\ WorkerInv
  BY DEF IInv
<1>2. /\ rpc = "scan" /\ rpc' = "flush" /\ truncated' \in BOOLEAN
      /\ UNCHANGED <<file, pc, totalRead, sent, batchCh, batchClosed, wpc, cur, last, counters,
                     dropped, running, outCh, outClosed, trips>>
  BY <1>1 DEF StopScan, ScanFails, workerVars, TypeOK
<1>3. BoundsInv' /\ LinesConserved' /\ CountersInv'
  BY <1>2, NotMoved
<1>4. TypeOK'
  BY <1>1, <1>2 DEF TypeOK, NumLines
<1>5. truncated' \/ totalRead = Report!Wanted
  <2>1. CASE ScanFails
    BY <2>1 DEF ScanFails
  <2>2. CASE StopScan
    <3>1. totalRead = NumLines \/ (Limit > 0 /\ totalRead >= Limit)
      BY <2>2 DEF StopScan, LimitReached
    <3>2. totalRead <= Report!Wanted /\ totalRead \in Nat /\ NumLines \in Nat
      BY <1>1, Sizes DEF BoundsInv
    <3> QED
      BY <3>1, <3>2, SizesAssumption DEF Report!Wanted, NumLines
  <2> QED
    BY <2>1, <2>2
<1>6. ReaderInv'
  BY <1>1, <1>2, <1>5, SameFile DEF ReaderInv, Started
<1>7. WorkerInv'
  BY <1>1, <1>2 DEF WorkerInv, Started, Active, NoMoreBatches
<1> QED
  BY <1>3, <1>4, <1>6, <1>7 DEF IInv

LEMMA CloseBatchChIInv == ASSUME IInv, CloseBatchCh PROVE IInv'
<1>1. TypeOK /\ BoundsInv /\ ReaderInv /\ WorkerInv
  BY DEF IInv
<1>2. /\ rpc = "close" /\ rpc' = "exit" /\ batchClosed' = TRUE
      /\ UNCHANGED <<file, pc, totalRead, truncated, sent, batchCh, wpc, cur, last, counters,
                     dropped, running, outCh, outClosed, trips>>
  BY DEF CloseBatchCh, workerVars
<1>3. BoundsInv' /\ LinesConserved' /\ CountersInv'
  BY <1>2, NotMoved
<1>4. TypeOK'
  BY <1>1, <1>2 DEF TypeOK, NumLines
<1>5. ReaderInv'
  BY <1>1, <1>2, SameFile DEF ReaderInv, Started
<1>6. WorkerInv'
  BY <1>1, <1>2 DEF WorkerInv, Started, Active, NoMoreBatches
<1> QED
  BY <1>3, <1>4, <1>5, <1>6 DEF IInv

(***************************************************************************)
(* What it sends is the lines read since the last batch, once.             *)
(***************************************************************************)
LEMMA PutBatchMoves ==
  ASSUME IInv, PutBatch, sent < totalRead,
         rpc' \in {"idle", "scan", "send", "flush", "close", "exit"},
         UNCHANGED <<file, pc, totalRead, truncated, batchClosed, wpc, cur, last, counters,
                     dropped, running, outCh, outClosed, trips>>
  PROVE  TypeOK' /\ BoundsInv' /\ LinesConserved' /\ CountersInv'
<1> DEFINE Batches == [lo : 1 .. NumLines, hi : 1 .. NumLines]
           b == [lo |-> sent + 1, hi |-> totalRead]
<1>1. TypeOK /\ BoundsInv /\ LinesConserved /\ CountersInv
  BY DEF IInv
<1>2. batchCh' = Append(batchCh, b) /\ sent' = totalRead /\ Len(batchCh) < 2 * W
  BY DEF PutBatch, BatchChHasRoom
<1>3. /\ NumLines \in Nat /\ totalRead \in Nat /\ sent \in Nat /\ totalRead <= NumLines
      /\ W \in Nat
  BY <1>1, Sizes
<1>4. b \in Batches /\ b.lo = sent + 1 /\ b.hi = totalRead /\ b.lo <= b.hi
      /\ b \in [lo : Nat, hi : Nat]
  BY <1>3
<1>5. batchCh \in Seq(Batches)
  BY <1>1 DEF TypeOK
<1> HIDE DEF Batches, b
<1>6. /\ batchCh' \in Seq(Batches) /\ Len(batchCh') = Len(batchCh) + 1 /\ Len(batchCh) \in Nat
      /\ batchCh'[Len(batchCh) + 1] = b
      /\ \A k \in 1 .. Len(batchCh) : batchCh'[k] = batchCh[k] /\ batchCh[k] \in Batches
  BY <1>2, <1>4, <1>5, Appends, Elements
<1>7. TypeOK'
  <2>1. Len(batchCh') <= 2 * W
    BY <1>2, <1>3, <1>6
  <2>2. sent' \in 0 .. totalRead
    BY <1>2, <1>3
  <2> QED
    BY <1>1, <1>6, <2>1, <2>2 DEF TypeOK, NumLines, Batches
<1>8. BoundsInv'
  <2>1. ASSUME NEW k \in 1 .. Len(batchCh')
        PROVE  batchCh'[k].lo <= batchCh'[k].hi /\ batchCh'[k].hi <= totalRead
    <3>1. CASE k \in 1 .. Len(batchCh)
      <4>1. batchCh[k].hi <= sent /\ batchCh[k].lo <= batchCh[k].hi /\ batchCh[k].hi \in Nat
        <5>1. batchCh[k] \in Batches /\ batchCh[k].hi <= sent /\ batchCh[k].lo <= batchCh[k].hi
          BY <1>1, <1>6, <3>1 DEF BoundsInv
        <5> QED
          BY <5>1 DEF Batches
      <4> QED
        BY <1>3, <1>6, <3>1, <4>1
    <3>2. CASE k \notin 1 .. Len(batchCh)
      <4>1. k = Len(batchCh) + 1
        BY <1>6, <3>2
      <4> QED
        BY <1>3, <1>4, <1>6, <4>1
    <3> QED
      BY <3>1, <3>2
  <2>2. /\ \A w \in Workers : last[w] \in Int
        /\ \A k \in 1 .. Len(outCh) : outCh[k] \in Int
        /\ \A k \in 1 .. Len(trips) : trips[k] \in Int
        /\ \A i \in dropped : i \in Int
    <3>1. /\ outCh \in Seq(1 .. NumLines) /\ trips \in Seq(1 .. NumLines)
          /\ last \in [Workers -> 0 .. NumLines] /\ dropped \subseteq 1 .. NumLines
      BY <1>1 DEF TypeOK
    <3>2. /\ \A k \in 1 .. Len(outCh) : outCh[k] \in 1 .. NumLines
          /\ \A k \in 1 .. Len(trips) : trips[k] \in 1 .. NumLines
      BY <3>1, Elements
    <3> QED
      BY <3>1, <3>2
  <2> QED
    BY <1>1, <1>2, <1>3, <2>1, <2>2, SameFile DEF BoundsInv
<1>9. LinesConserved'
  <2>1. ASSUME NEW i \in 1 .. totalRead PROVE Places(i)' = 1
    <3>1. CountOf(batchCh', Covering(i))
            = CountOf(batchCh, Covering(i)) + (IF b \in Covering(i) THEN 1 ELSE 0)
      BY <1>2, <1>4, <1>5, CountAppend
    <3>2. b \in Covering(i) <=> sent < i
      BY <1>3, <1>4 DEF Covering
    <3>3. Holders(i)' = Holders(i) /\ Covering(i)' = Covering(i)
      BY DEF Holders, AtWorker, Covering
    <3>4. PlacesSum(i) /\ PlacesSum(i)'
      BY <1>1, <1>7, PlacesCounted, PlacesCountedNext
    <3>5. Places(i)' = Places(i) + (IF b \in Covering(i) THEN 1 ELSE 0)
      BY <3>1, <3>3, <3>4 DEF PlacesSum
    <3>6. Places(i) = IF i <= sent THEN 1 ELSE 0
      BY <1>1 DEF LinesConserved
    <3> QED
      BY <1>3, <3>2, <3>5, <3>6
  <2> QED
    BY <1>2, <1>3, <2>1 DEF LinesConserved
<1>10. CountersInv'
  BY <1>1, SameFile DEF CountersInv
<1> QED
  BY <1>7, <1>8, <1>9, <1>10

LEMMA SendBatchIInv == ASSUME IInv, SendBatch \/ Flush PROVE IInv'
<1>1. TypeOK /\ BoundsInv /\ ReaderInv /\ WorkerInv
  BY DEF IInv
<1>2. /\ rpc \in {"send", "flush"} /\ rpc' = IF rpc = "send" THEN "scan" ELSE "close"
      /\ UNCHANGED <<file, pc, totalRead, truncated, batchClosed, wpc, cur, last, counters,
                     dropped, running, outCh, outClosed, trips>>
  BY DEF SendBatch, Flush, workerVars
<1>3. sent \in Nat /\ totalRead \in Nat /\ sent <= totalRead
  BY <1>1, Sizes
<1>4. /\ TypeOK' /\ BoundsInv' /\ LinesConserved' /\ CountersInv'
      /\ sent' = totalRead
  <2>1. CASE sent < totalRead
    <3>1. PutBatch
      BY <1>1, <2>1 DEF SendBatch, Flush
    <3>2. sent' = totalRead
      BY <3>1 DEF PutBatch
    <3> QED
      BY <1>2, <2>1, <3>1, <3>2, PutBatchMoves
  <2>2. CASE ~(sent < totalRead)
    <3>1. UNCHANGED <<batchCh, sent>> /\ sent = totalRead
      BY <1>1, <1>3, <2>2 DEF SendBatch, Flush, ReaderInv
    <3>2. TypeOK'
      BY <1>1, <1>2, <3>1 DEF TypeOK, NumLines
    <3> QED
      BY <1>2, <3>1, <3>2, NotMoved
  <2> QED
    BY <2>1, <2>2
<1>5. ReaderInv'
  BY <1>1, <1>2, <1>4, SameFile DEF ReaderInv, Started
<1>6. WorkerInv'
  BY <1>1, <1>2 DEF WorkerInv, ReaderInv, Started, Active, NoMoreBatches
<1> QED
  BY <1>4, <1>5, <1>6 DEF IInv

--------------------------------------------------------------------------------
(***************************************************************************)
(* A worker.                                                               *)
(***************************************************************************)

LEMMA ActiveIsFinite ==
  /\ IsFiniteSet(Active) /\ Cardinality(Active) \in Nat /\ Cardinality(Active) <= W
  /\ Cardinality(Active) = 0 <=> Active = {}
<1>1. Active \in SUBSET Workers
  BY DEF Active
<1>2. IsFiniteSet(Active) /\ Cardinality(Active) <= W
  BY <1>1, WorkersAreFinite, FS_Subset
<1> QED
  BY <1>2, FS_CardinalityType, FS_EmptySet

LEMMA TakeBatchIInv == ASSUME IInv, NEW w \in Workers, TakeBatch(w) PROVE IInv'
<1> DEFINE Batches == [lo : 1 .. NumLines, hi : 1 .. NumLines]
           b == Head(batchCh)
<1>1. TypeOK /\ BoundsInv /\ ReaderInv /\ WorkerInv /\ LinesConserved /\ CountersInv
  BY DEF IInv
<1>2. /\ wpc[w] = "recv" /\ batchCh # <<>> /\ cur' = [cur EXCEPT ![w] = b.lo]
      /\ last' = [last EXCEPT ![w] = b.hi] /\ batchCh' = Tail(batchCh)
      /\ wpc' = [wpc EXCEPT ![w] = "parse"]
      /\ UNCHANGED <<file, pc, rpc, totalRead, truncated, sent, batchClosed, counters, dropped,
                     running, outCh, outClosed, trips>>
  BY DEF TakeBatch, readerVars
<1>3. batchCh \in Seq(Batches) /\ NumLines \in Nat /\ sent \in Nat
  BY <1>1, Sizes DEF TypeOK
<1> HIDE DEF Batches
<1>4. /\ Len(batchCh) \in Nat /\ Len(batchCh) > 0 /\ b = batchCh[1] /\ b \in Batches
      /\ Tail(batchCh) \in Seq(Batches) /\ Len(Tail(batchCh)) = Len(batchCh) - 1
      /\ \A k \in 1 .. Len(batchCh) - 1 :
           k + 1 \in 1 .. Len(batchCh) /\ Tail(batchCh)[k] = batchCh[k + 1]
  BY <1>2, <1>3, Tails
<1> HIDE DEF b
<1>5. /\ b.lo \in 1 .. NumLines /\ b.hi \in 1 .. NumLines /\ b \in [lo : Nat, hi : Nat]
      /\ b.lo <= b.hi /\ b.hi <= sent
  <2>1. b.lo <= b.hi /\ b.hi <= sent
    BY <1>1, <1>4 DEF BoundsInv
  <2> QED
    BY <1>3, <1>4, <2>1 DEF Batches
<1>6. /\ wpc'[w] = "parse" /\ cur'[w] = b.lo /\ last'[w] = b.hi
      /\ \A v \in Workers \ {w} : wpc'[v] = wpc[v] /\ cur'[v] = cur[v] /\ last'[v] = last[v]
  BY <1>1, <1>2 DEF TypeOK
<1>7. TypeOK'
  <2>1. Len(batchCh') <= 2 * W /\ batchCh' \in Seq(Batches)
    BY <1>1, <1>2, <1>4, SizesAssumption DEF TypeOK
  <2>2. /\ cur' \in [Workers -> 0 .. NumLines+1] /\ last' \in [Workers -> 0 .. NumLines]
        /\ wpc' \in [Workers -> {"idle", "recv", "parse", "exit"}]
    BY <1>1, <1>2, <1>3, <1>5, SMTT(30) DEF TypeOK
  <2> QED
    BY <1>1, <1>2, <2>1, <2>2 DEF TypeOK, NumLines, Batches
<1>8. BoundsInv'
  <2>1. \A k \in 1 .. Len(batchCh') : batchCh'[k].lo <= batchCh'[k].hi /\ batchCh'[k].hi <= sent
    BY <1>1, <1>2, <1>4 DEF BoundsInv
  <2>2. \A v \in Workers : wpc'[v] = "parse" =>
          1 <= cur'[v] /\ cur'[v] <= last'[v] /\ last'[v] <= sent
    BY <1>1, <1>5, <1>6 DEF BoundsInv
  <2> QED
    BY <1>1, <1>2, <2>1, <2>2, SameFile DEF BoundsInv
<1>9. ReaderInv'
  BY <1>1, <1>2, SameFile DEF ReaderInv, Started
<1>10. WorkerInv'
  <2>1. Active' = Active
    BY <1>2, <1>6 DEF Active
  <2>2. \A v \in Workers : wpc[v] # "exit"
    BY <1>1, <1>2 DEF WorkerInv, NoMoreBatches
  <2> QED
    BY <1>1, <1>2, <1>6, <2>1, <2>2 DEF WorkerInv, Started
<1>11. LinesConserved'
  <2>1. ASSUME NEW i \in 1 .. totalRead PROVE Places(i)' = Places(i)
    <3>1. CountOf(batchCh, Covering(i))
            = CountOf(batchCh', Covering(i)) + (IF b \in Covering(i) THEN 1 ELSE 0)
      BY <1>2, <1>3, CountTail DEF b
    <3>2. w \notin Holders(i) /\ (w \in Holders(i)' <=> b \in Covering(i))
      BY <1>2, <1>5, <1>6 DEF Holders, AtWorker, Covering
    <3>3. Holders(i) \ {w} = Holders(i)' \ {w}
      BY <1>6 DEF Holders, AtWorker
    <3>4. PlacesSum(i) /\ PlacesSum(i)'
      BY <1>1, <1>7, PlacesCounted, PlacesCountedNext
    <3>5. Cardinality(Holders(i)')
            = Cardinality(Holders(i)) + (IF b \in Covering(i) THEN 1 ELSE 0)
      <4>1. IsFiniteSet(Holders(i)) /\ Cardinality(Holders(i)) \in Nat
        BY <3>4 DEF PlacesSum
      <4> DEFINE H == Holders(i)
                 G == Holders(i)'
      <4>2. IsFiniteSet(H) /\ H \ {w} = G \ {w}
        BY <3>3, <4>1
      <4> HIDE DEF H, G
      <4>3. /\ Cardinality(H) \in Nat /\ Cardinality(G) \in Nat
            /\ Cardinality(G) + (IF w \in H THEN 1 ELSE 0)
                 = Cardinality(H) + (IF w \in G THEN 1 ELSE 0)
        BY <4>2, OneChanged
      <4> QED
        BY <3>2, <4>3 DEF H, G
    <3>6. Covering(i)' = Covering(i)
      BY DEF Covering
    <3> QED
      BY <1>2, <3>1, <3>4, <3>5, <3>6 DEF PlacesSum
  <2> QED
    BY <1>1, <1>2, <2>1 DEF LinesConserved
<1>12. CountersInv'
  BY <1>1, <1>2, SameFile DEF CountersInv
<1> QED
  BY <1>7, <1>8, <1>9, <1>10, <1>11, <1>12 DEF IInv

(***************************************************************************)
(* No worker is started or ends.                                           *)
(***************************************************************************)
SameWorkers ==
  /\ Active' = Active
  /\ \A v \in Workers : /\ wpc'[v] = "idle" <=> wpc[v] = "idle"
                        /\ wpc'[v] = "exit" <=> wpc[v] = "exit"

(***************************************************************************)
(* A worker that goes on to the next line no longer has the one before.    *)
(***************************************************************************)
LEMMA LineLeaves ==
  ASSUME TypeOK, BoundsInv, WorkerInv, NEW w \in Workers, wpc[w] = "parse", NextLine(w)
  PROVE  /\ cur[w] \in 1 .. NumLines /\ cur[w] <= sent
         /\ wpc' \in [Workers -> {"idle", "recv", "parse", "exit"}]
         /\ cur' \in [Workers -> 0 .. NumLines+1] /\ last' = last
         /\ \A v \in Workers : wpc'[v] = "parse" =>
              1 <= cur'[v] /\ cur'[v] <= last'[v] /\ last'[v] <= sent
         /\ SameWorkers
         /\ \A i \in Nat :
              /\ Cardinality(Holders(i)') \in Nat
              /\ Cardinality(Holders(i))
                   = Cardinality(Holders(i)') + (IF i = cur[w] THEN 1 ELSE 0)
<1>1. NumLines \in Nat /\ sent \in Nat /\ sent <= NumLines
  BY Sizes
<1>2. /\ last[w] \in 0 .. NumLines /\ cur[w] \in 0 .. NumLines + 1
      /\ 1 <= cur[w] /\ cur[w] <= last[w] /\ last[w] <= sent
  BY DEF TypeOK, BoundsInv
<1>3. cur[w] \in 1 .. NumLines /\ cur[w] <= sent /\ cur[w] + 1 \in 0 .. NumLines + 1
  BY <1>1, <1>2
<1>4. /\ cur' = [cur EXCEPT ![w] = cur[w] + 1] /\ last' = last
      /\ wpc' = [wpc EXCEPT ![w] = IF cur[w] = last[w] THEN "recv" ELSE "parse"]
  BY DEF NextLine
<1>5. /\ wpc' \in [Workers -> {"idle", "recv", "parse", "exit"}]
      /\ cur' \in [Workers -> 0 .. NumLines+1]
      /\ wpc'[w] = IF cur[w] = last[w] THEN "recv" ELSE "parse"
      /\ cur'[w] = cur[w] + 1
      /\ \A v \in Workers \ {w} : wpc'[v] = wpc[v] /\ cur'[v] = cur[v]
  BY <1>3, <1>4 DEF TypeOK
<1>6. \A v \in Workers : wpc'[v] = "parse" =>
        1 <= cur'[v] /\ cur'[v] <= last'[v] /\ last'[v] <= sent
  BY <1>2, <1>4, <1>5 DEF BoundsInv
<1>7. SameWorkers
  BY <1>5 DEF SameWorkers, Active
<1>8. ASSUME NEW i \in Nat
      PROVE  /\ Cardinality(Holders(i)') \in Nat
             /\ Cardinality(Holders(i)) = Cardinality(Holders(i)') + (IF i = cur[w] THEN 1 ELSE 0)
  <2> DEFINE H == Holders(i)
             G == Holders(i)'
  <2>1. w \in H <=> (w \in G \/ i = cur[w])
    BY <1>2, <1>4, <1>5 DEF Holders, AtWorker
  <2>2. i = cur[w] => w \notin G
    BY <1>2, <1>4, <1>5 DEF Holders, AtWorker
  <2>3. H \ {w} = G \ {w}
    BY <1>4, <1>5 DEF Holders, AtWorker
  <2>4. IsFiniteSet(H)
    BY WorkersAreFinite, FS_Subset DEF Holders
  <2> HIDE DEF H, G
  <2>5. /\ Cardinality(H) \in Nat /\ Cardinality(G) \in Nat
        /\ Cardinality(G) + (IF w \in H THEN 1 ELSE 0)
             = Cardinality(H) + (IF w \in G THEN 1 ELSE 0)
    BY <2>3, <2>4, OneChanged
  <2>6. Cardinality(H) = Cardinality(G) + (IF i = cur[w] THEN 1 ELSE 0)
    BY <2>1, <2>2, <2>5
  <2> QED
    BY <2>5, <2>6 DEF H, G
<1> QED
  BY <1>3, <1>4, <1>5, <1>6, <1>7, <1>8

(***************************************************************************)
(* outCh is open while a worker has a line.                                *)
(***************************************************************************)
LEMMA OpenWhileParsing ==
  ASSUME WorkerInv, NEW w \in Workers, wpc[w] = "parse"
  PROVE  Started /\ ~outClosed /\ pc # "returned" /\ running > 0
<1>1. Active # {}
  BY DEF Active
<1>2. running > 0
  BY <1>1, ActiveIsFinite DEF WorkerInv
<1> QED
  BY <1>2 DEF WorkerInv, Started

LEMMA WorkersGoOn ==
  ASSUME WorkerInv, NEW w \in Workers, wpc[w] = "parse", SameWorkers,
         UNCHANGED <<pc, batchCh, batchClosed, running, outClosed>>
  PROVE  WorkerInv'
<1>1. Started' = Started /\ NoMoreBatches' = NoMoreBatches
  BY DEF Started, NoMoreBatches
<1>2. \A v \in Workers : /\ wpc'[v] = "idle" <=> ~Started'
                         /\ wpc'[v] = "exit" => NoMoreBatches'
  <2> SUFFICES ASSUME NEW v \in Workers
               PROVE  /\ wpc'[v] = "idle" <=> ~Started'
                      /\ wpc'[v] = "exit" => NoMoreBatches'
    OBVIOUS
  <2>1. (wpc[v] = "idle" <=> ~Started) /\ (wpc[v] = "exit" => NoMoreBatches)
    BY DEF WorkerInv
  <2>2. (wpc'[v] = "idle" <=> wpc[v] = "idle") /\ (wpc'[v] = "exit" <=> wpc[v] = "exit")
    BY DEF SameWorkers
  <2> QED
    BY <1>1, <2>1, <2>2
<1>3. running' = Cardinality(Active)' /\ ~outClosed' /\ pc' # "returned"
  BY OpenWhileParsing DEF WorkerInv, SameWorkers
<1> QED
  BY <1>2, <1>3 DEF WorkerInv

LEMMA EmitTripIInv == ASSUME IInv, NEW w \in Workers, EmitTrip(w) PROVE IInv'
<1> DEFINE x == cur[w]
<1>1. TypeOK /\ BoundsInv /\ ReaderInv /\ WorkerInv /\ LinesConserved /\ CountersInv
  BY DEF IInv
<1>2. /\ wpc[w] = "parse" /\ RuleOf(x) = 0 /\ Len(outCh) < W * OutPerWorker
      /\ outCh' = Append(outCh, x) /\ NextLine(w)
      /\ UNCHANGED <<file, pc, rpc, totalRead, truncated, sent, batchCh, batchClosed, counters,
                     dropped, running, outClosed, trips>>
  BY DEF EmitTrip, readerVars
<1>3. /\ x \in 1 .. NumLines /\ x <= sent
      /\ wpc' \in [Workers -> {"idle", "recv", "parse", "exit"}]
      /\ cur' \in [Workers -> 0 .. NumLines+1] /\ last' = last
      /\ \A v \in Workers : wpc'[v] = "parse" =>
           1 <= cur'[v] /\ cur'[v] <= last'[v] /\ last'[v] <= sent
      /\ SameWorkers
      /\ \A i \in Nat :
           /\ Cardinality(Holders(i)') \in Nat
           /\ Cardinality(Holders(i)) = Cardinality(Holders(i)') + (IF i = x THEN 1 ELSE 0)
  BY <1>1, <1>2, LineLeaves
<1>4. outCh \in Seq(1 .. NumLines) /\ outCh' = Append(outCh, x) /\ x \in 1 .. NumLines
  BY <1>1, <1>2, <1>3 DEF TypeOK
<1> HIDE DEF x
<1>5. /\ outCh' \in Seq(1 .. NumLines) /\ Len(outCh') = Len(outCh) + 1 /\ Len(outCh) \in Nat
      /\ outCh'[Len(outCh) + 1] = x
      /\ \A k \in 1 .. Len(outCh) : outCh'[k] = outCh[k]
  BY <1>4, Appends
<1>6. TypeOK'
  <2>1. Len(outCh') <= W * OutPerWorker
    BY <1>2, <1>5, SizesAssumption
  <2> QED
    BY <1>1, <1>2, <1>3, <1>5, <2>1 DEF TypeOK, NumLines
<1>7. BoundsInv'
  <2>1. ASSUME NEW k \in 1 .. Len(outCh') PROVE outCh'[k] <= sent /\ RuleOf(outCh'[k]) = 0
    <3>1. CASE k \in 1 .. Len(outCh)
      BY <1>1, <1>5, <3>1 DEF BoundsInv
    <3>2. CASE k = Len(outCh) + 1
      BY <1>2, <1>3, <1>5, <3>2
    <3> QED
      BY <1>5, <3>1, <3>2
  <2> QED
    BY <1>1, <1>2, <1>3, <2>1, SameFile DEF BoundsInv, RuleOf
<1>8. ReaderInv'
  BY <1>1, <1>2, SameFile DEF ReaderInv, Started
<1>9. WorkerInv'
  <2>1. UNCHANGED <<pc, batchCh, batchClosed, running, outClosed>>
    BY <1>2
  <2> QED
    BY <1>1, <1>2, <1>3, <2>1, WorkersGoOn
<1>10. LinesConserved'
  <2>1. ASSUME NEW i \in 1 .. totalRead PROVE Places(i)' = Places(i)
    <3>1. CountOf(outCh', {i}) = CountOf(outCh, {i}) + (IF x \in {i} THEN 1 ELSE 0)
      <4> DEFINE S == {i}
      <4> HIDE DEF S
      <4>1. CountOf(Append(outCh, x), S) = CountOf(outCh, S) + (IF x \in S THEN 1 ELSE 0)
        BY <1>4, CountAppend, ZenonT(20)
      <4>2. outCh' = Append(outCh, x)
        BY <1>4
      <4> QED
        BY <4>1, <4>2 DEF S
    <3>2. Cardinality(Holders(i)) = Cardinality(Holders(i)') + (IF i = x THEN 1 ELSE 0)
      BY <1>3
    <3>3. CountOf(batchCh, Covering(i))' = CountOf(batchCh, Covering(i))
      BY <1>2 DEF CountOf, Covering
    <3>4. PlacesSum(i) /\ PlacesSum(i)'
      BY <1>1, <1>6, PlacesCounted, PlacesCountedNext
    <3> QED
      BY <1>2, <3>1, <3>2, <3>3, <3>4, SMTT(30) DEF PlacesSum
  <2> QED
    BY <1>1, <1>2, <2>1 DEF LinesConserved
<1>11. CountersInv'
  BY <1>1, <1>2, SameFile DEF CountersInv
<1> QED
  BY <1>6, <1>7, <1>8, <1>9, <1>10, <1>11 DEF IInv

LEMMA DiscardIInv == ASSUME IInv, NEW w \in Workers, Discard(w) PROVE IInv'
<1> DEFINE x == cur[w]
           q == RuleOf(x)
<1>1. TypeOK /\ BoundsInv /\ ReaderInv /\ WorkerInv /\ LinesConserved /\ CountersInv
  BY DEF IInv
<1>2. /\ wpc[w] = "parse" /\ q \in Rules /\ counters' = [counters EXCEPT ![q] = @ + 1]
      /\ dropped' = dropped \union {x} /\ NextLine(w)
      /\ UNCHANGED <<file, pc, rpc, totalRead, truncated, sent, batchCh, batchClosed, running,
                     outCh, outClosed, trips>>
  BY DEF Discard, Count, readerVars
<1>3. /\ x \in 1 .. NumLines /\ x <= sent
      /\ wpc' \in [Workers -> {"idle", "recv", "parse", "exit"}]
      /\ cur' \in [Workers -> 0 .. NumLines+1] /\ last' = last
      /\ \A v \in Workers : wpc'[v] = "parse" =>
           1 <= cur'[v] /\ cur'[v] <= last'[v] /\ last'[v] <= sent
      /\ SameWorkers
      /\ \A i \in Nat :
           /\ Cardinality(Holders(i)') \in Nat
           /\ Cardinality(Holders(i)) = Cardinality(Holders(i)') + (IF i = x THEN 1 ELSE 0)
  BY <1>1, <1>2, LineLeaves
<1>4. NumLines \in Nat /\ totalRead \in Nat /\ sent \in Nat /\ sent <= totalRead
  BY <1>1, Sizes
<1>5. x \notin dropped
  <2> SUFFICES ASSUME NEW i, i = x PROVE i \notin dropped
    OBVIOUS
  <2>1. i \in Nat /\ i \in 1 .. totalRead
    BY <1>3, <1>4
  <2>2. Places(i) = 1
    BY <1>1, <1>3, <2>1 DEF LinesConserved
  <2>3. Cardinality(Holders(i)') \in Nat /\ Cardinality(Holders(i)) = Cardinality(Holders(i)') + 1
    BY <1>3, <2>1
  <2>4. PlacesSum(i)
    BY <1>1, PlacesCounted
  <2> QED
    BY <2>2, <2>3, <2>4 DEF PlacesSum
<1>6. TypeOK'
  <2>1. counters \in [Rules -> Nat] /\ dropped \subseteq 1 .. NumLines
    BY <1>1 DEF TypeOK
  <2>2. dropped' \subseteq 1 .. NumLines
    BY <1>2, <1>3, <2>1
  <2> HIDE DEF q
  <2>3. counters' \in [Rules -> Nat]
    BY <1>2, <2>1
  <2> QED
    BY <1>1, <1>2, <1>3, <2>2, <2>3 DEF TypeOK, NumLines
<1> HIDE DEF x, q
<1>7. BoundsInv'
  <2>1. \A i \in dropped' : i <= sent /\ RuleOf(i) \in Rules
    BY <1>1, <1>2, <1>3 DEF BoundsInv, q
  <2> QED
    BY <1>1, <1>2, <1>3, <2>1, SameFile DEF BoundsInv
<1>8. ReaderInv'
  BY <1>1, <1>2, SameFile DEF ReaderInv, Started
<1>9. WorkerInv'
  <2>1. UNCHANGED <<pc, batchCh, batchClosed, running, outClosed>>
    BY <1>2
  <2> QED
    BY <1>1, <1>2, <1>3, <2>1, WorkersGoOn
<1>10. LinesConserved'
  <2>1. ASSUME NEW i \in 1 .. totalRead PROVE Places(i)' = Places(i)
    <3>1. (IF i \in dropped' THEN 1 ELSE 0)
            = (IF i \in dropped THEN 1 ELSE 0) + (IF i = x THEN 1 ELSE 0)
      BY <1>2, <1>5
    <3>2. Cardinality(Holders(i)) = Cardinality(Holders(i)') + (IF i = x THEN 1 ELSE 0)
      BY <1>3
    <3>3. /\ CountOf(batchCh, Covering(i))' = CountOf(batchCh, Covering(i))
          /\ CountOf(outCh, {i})' = CountOf(outCh, {i})
          /\ CountOf(trips, {i})' = CountOf(trips, {i})
      BY <1>2 DEF CountOf, Covering
    <3>4. PlacesSum(i) /\ PlacesSum(i)'
      BY <1>1, <1>6, PlacesCounted, PlacesCountedNext
    <3> QED
      BY <3>1, <3>2, <3>3, <3>4 DEF PlacesSum
  <2> QED
    BY <1>1, <1>2, <2>1 DEF LinesConserved
<1>11. CountersInv'
  <2> SUFFICES ASSUME NEW r \in Rules
               PROVE  counters'[r] = Cardinality({i \in dropped' : RuleOf(i) = r})
    BY <1>2, SameFile DEF CountersInv
  <2> DEFINE S == {i \in dropped : RuleOf(i) = r}
  <2>1. IsFiniteSet(S)
    <3>1. IsFiniteSet(1 .. NumLines)
      BY <1>4, FS_Interval
    <3>2. S \in SUBSET (1 .. NumLines)
      BY <1>1 DEF TypeOK
    <3> QED
      BY <3>1, <3>2, FS_Subset
  <2>2. counters[r] = Cardinality(S) /\ counters \in [Rules -> Nat]
    BY <1>1 DEF CountersInv, TypeOK
  <2>3. CASE r = q
    <3>1. {i \in dropped' : RuleOf(i) = r} = S \union {x} /\ x \notin S
      BY <1>2, <1>5, <2>3 DEF q
    <3> HIDE DEF S
    <3>2. Cardinality(S \union {x}) = Cardinality(S) + 1
      BY <2>1, <3>1, FS_AddElement
    <3> QED
      BY <1>2, <2>2, <2>3, <3>1, <3>2
  <2>4. CASE r # q
    <3>1. {i \in dropped' : RuleOf(i) = r} = S
      BY <1>2, <2>4 DEF q
    <3> QED
      BY <1>2, <2>2, <2>4, <3>1
  <2> QED
    BY <2>3, <2>4
<1> QED
  BY <1>6, <1>7, <1>8, <1>9, <1>10, <1>11 DEF IInv

LEMMA CrashOnLineIInv == ASSUME IInv, NEW w \in Workers, CrashOnLine(w) PROVE IInv'
<1>1. TypeOK /\ BoundsInv /\ ReaderInv /\ WorkerInv
  BY DEF IInv
<1>2. /\ wpc[w] = "parse" /\ pc' = "panicked"
      /\ UNCHANGED <<file, rpc, totalRead, truncated, sent, batchCh, batchClosed, wpc, cur, last,
                     counters, dropped, running, outCh, outClosed, trips>>
  BY DEF CrashOnLine, readerVars, workerVars
<1>3. Started /\ ~outClosed
  BY <1>1, <1>2, OpenWhileParsing
<1>4. BoundsInv' /\ LinesConserved' /\ CountersInv'
  BY <1>2, NotMoved
<1>5. TypeOK'
  BY <1>1, <1>2 DEF TypeOK, NumLines
<1>6. ReaderInv'
  BY <1>1, <1>2, <1>3, SameFile DEF ReaderInv, Started
<1>7. WorkerInv'
  BY <1>1, <1>2, <1>3 DEF WorkerInv, Started, Active, NoMoreBatches
<1> QED
  BY <1>4, <1>5, <1>6, <1>7 DEF IInv

LEMMA ExitWorkerIInv == ASSUME IInv, NEW w \in Workers, ExitWorker(w) PROVE IInv'
<1>1. TypeOK /\ BoundsInv /\ ReaderInv /\ WorkerInv
  BY DEF IInv
<1>2. /\ wpc[w] = "recv" /\ NoMoreBatches /\ wpc' = [wpc EXCEPT ![w] = "exit"]
      /\ running' = running - 1
      /\ UNCHANGED <<file, pc, rpc, totalRead, truncated, sent, batchCh, batchClosed, cur, last,
                     counters, dropped, outCh, outClosed, trips>>
  BY DEF ExitWorker, readerVars
<1>3. /\ wpc \in [Workers -> {"idle", "recv", "parse", "exit"}]
      /\ wpc' \in [Workers -> {"idle", "recv", "parse", "exit"}]
      /\ wpc'[w] = "exit" /\ \A v \in Workers \ {w} : wpc'[v] = wpc[v]
  BY <1>1, <1>2 DEF TypeOK
<1>4. BoundsInv' /\ LinesConserved' /\ CountersInv'
  BY <1>2, <1>3, NotMoved
<1>5. Active' = Active \ {w} /\ w \in Active
  BY <1>2, <1>3 DEF Active
<1>6. /\ Cardinality(Active \ {w}) = Cardinality(Active) - 1 /\ Cardinality(Active) \in Nat
      /\ Cardinality(Active) # 0
  BY <1>5, ActiveIsFinite, FS_RemoveElement
<1>7. running > 0 /\ running' = Cardinality(Active)' /\ ~outClosed /\ running \in 0 .. W
  BY <1>1, <1>2, <1>5, <1>6 DEF WorkerInv, TypeOK
<1>8. TypeOK'
  <2>1. running' \in 0 .. W
    BY <1>2, <1>7, SizesAssumption
  <2> QED
    BY <1>1, <1>2, <1>3, <2>1 DEF TypeOK, NumLines
<1>9. ReaderInv'
  BY <1>1, <1>2, SameFile DEF ReaderInv, Started
<1>10. WorkerInv'
  <2>1. Started
    BY <1>1, <1>2 DEF WorkerInv
  <2>2. Started' /\ NoMoreBatches' /\ pc' # "returned" /\ ~outClosed'
    BY <1>1, <1>2, <1>7, <2>1 DEF WorkerInv, Started, NoMoreBatches
  <2>3. \A v \in Workers : wpc'[v] # "idle"
    BY <1>1, <1>3, <2>1 DEF WorkerInv
  <2> QED
    BY <1>7, <2>2, <2>3 DEF WorkerInv
<1> QED
  BY <1>4, <1>8, <1>9, <1>10 DEF IInv

LEMMA CloseOutChIInv == ASSUME IInv, CloseOutCh PROVE IInv'
<1>1. TypeOK /\ BoundsInv /\ ReaderInv /\ WorkerInv
  BY DEF IInv
<1>2. /\ pc # "start" /\ pc # "failed" /\ running = 0 /\ ~outClosed /\ outClosed' = TRUE
      /\ UNCHANGED <<file, pc, rpc, totalRead, truncated, sent, batchCh, batchClosed, wpc, cur,
                     last, counters, dropped, running, outCh, trips>>
  BY DEF CloseOutCh, WorkersDone, readerVars, workerVars
<1>3. BoundsInv' /\ LinesConserved' /\ CountersInv'
  BY <1>2, NotMoved
<1>4. TypeOK'
  BY <1>1, <1>2 DEF TypeOK, NumLines
<1>5. ReaderInv'
  BY <1>1, <1>2, SameFile DEF ReaderInv, Started
<1>6. WorkerInv'
  BY <1>1, <1>2 DEF WorkerInv, Started, Active, NoMoreBatches
<1> QED
  BY <1>3, <1>4, <1>5, <1>6 DEF IInv

LEMMA NextIInv == IInv /\ [Next]_vars => IInv'
<1> SUFFICES ASSUME IInv, [Next]_vars PROVE IInv'
  OBVIOUS
<1>1. CASE CallerNext
  BY <1>1, FailIInv, StartIInv, CollectIInv, ReturnIInv DEF CallerNext
<1>2. CASE ReaderNext
  BY <1>2, ScanLineIInv, EndScanIInv, SendBatchIInv, CloseBatchChIInv DEF ReaderNext
<1>3. ASSUME NEW w \in Workers, WorkerNext(w) PROVE IInv'
  BY <1>3, TakeBatchIInv, EmitTripIInv, DiscardIInv, CrashOnLineIInv, ExitWorkerIInv
  DEF WorkerNext
<1>4. CASE CloseOutCh
  BY <1>4, CloseOutChIInv
<1>5. CASE UNCHANGED vars
  <2>1. UNCHANGED <<file, pc, rpc, totalRead, truncated, sent, batchCh, batchClosed, wpc, cur,
                    last, counters, dropped, running, outCh, outClosed, trips>>
    BY <1>5 DEF vars, readerVars, workerVars
  <2>2. TypeOK /\ ReaderInv /\ WorkerInv
    BY DEF IInv
  <2>3. BoundsInv' /\ LinesConserved' /\ CountersInv'
    BY <2>1, NotMoved
  <2>4. TypeOK'
    BY <2>1, <2>2 DEF TypeOK, NumLines
  <2>5. ReaderInv'
    BY <2>1, <2>2, SameFile DEF ReaderInv, Started
  <2>6. WorkerInv'
    BY <2>1, <2>2 DEF WorkerInv, Started, Active, NoMoreBatches
  <2> QED
    BY <2>3, <2>4, <2>5, <2>6 DEF IInv
<1> QED
  BY <1>1, <1>2, <1>3, <1>4, <1>5 DEF Next, Terminated

LEMMA Invariance == Spec => []IInv
  BY InitIInv, NextIInv, PTL DEF Spec

--------------------------------------------------------------------------------
(***************************************************************************)
(* What the invariant says at the end.                                     *)
(***************************************************************************)

LEMMA ClosedInOrder == IInv => NoSendAfterClose
<1> SUFFICES ASSUME IInv, outClosed
             PROVE  /\ \A w \in Workers : wpc[w] = "exit"
                    /\ batchCh = <<>> /\ rpc = "exit"
  BY DEF NoSendAfterClose
<1>1. TypeOK /\ ReaderInv /\ WorkerInv
  BY DEF IInv
<1>2. Started /\ Active = {}
  BY <1>1, ActiveIsFinite DEF WorkerInv
<1>3. \A w \in Workers : wpc[w] = "exit"
  <2> SUFFICES ASSUME NEW w \in Workers PROVE wpc[w] = "exit"
    OBVIOUS
  <2>1. wpc[w] \in {"idle", "recv", "parse", "exit"}
    BY <1>1 DEF TypeOK
  <2>2. wpc[w] # "idle" /\ wpc[w] \notin {"recv", "parse"}
    BY <1>1, <1>2 DEF WorkerInv, Active
  <2> QED
    BY <2>1, <2>2
<1>4. 1 \in Workers
  BY SizesAssumption DEF Workers
<1>5. NoMoreBatches
  BY <1>1, <1>3, <1>4 DEF WorkerInv
<1> QED
  BY <1>1, <1>3, <1>5 DEF ReaderInv, NoMoreBatches

LEMMA AccountedCounts ==
  ASSUME IInv
  PROVE  /\ \A i : i \in Report!Accounted <=> CountOf(trips, {i}) # 0 \/ i \in dropped
         /\ Report!Accounted \subseteq 1 .. sent
<1>1. trips \in Seq(1 .. NumLines) /\ dropped \subseteq 1 .. NumLines /\ NumLines \in Nat
  BY Sizes DEF IInv, TypeOK
<1>2. ASSUME NEW i
      PROVE  i \in Report!Range(trips) <=> \E k \in 1 .. Len(trips) : trips[k] = i
  BY <1>1 DEF Report!Range
<1>3. ASSUME NEW i PROVE i \in Report!Range(trips) <=> CountOf(trips, {i}) # 0
  <2>1. CountOf(trips, {i}) = 0 <=> \A k \in 1 .. Len(trips) : trips[k] \notin {i}
    BY <1>1, CountType
  <2> QED
    BY <1>2, <2>1
<1>4. Report!Accounted = Report!Range(trips) \union dropped
  BY DEF Report!Accounted
<1>5. Report!Accounted \subseteq 1 .. sent
  <2> SUFFICES ASSUME NEW i \in Report!Accounted PROVE i \in 1 .. sent
    OBVIOUS
  <2>1. sent \in Nat
    BY Sizes DEF IInv
  <2>2. CASE i \in dropped
    BY <1>1, <2>1, <2>2 DEF IInv, BoundsInv
  <2>3. CASE i \in Report!Range(trips)
    <3>1. PICK k \in 1 .. Len(trips) : trips[k] = i
      BY <1>2, <2>3
    <3>2. trips[k] <= sent /\ trips[k] \in 1 .. NumLines
      BY <1>1, Elements DEF IInv, BoundsInv
    <3> QED
      BY <2>1, <3>1, <3>2
  <2> QED
    BY <1>4, <2>2, <2>3
<1> QED
  BY <1>3, <1>4, <1>5

(***************************************************************************)
(* When outCh is closed and drained, a line read is a trip or discarded,   *)
(* not both, and once.                                                     *)
(***************************************************************************)
LEMMA OnlyInResult ==
  ASSUME IInv, outClosed, outCh = <<>>
  PROVE  /\ totalRead \in Nat /\ sent = totalRead
         /\ truncated \/ totalRead = Report!Wanted
         /\ \A i \in 1 .. totalRead :
              CountOf(trips, {i}) = IF i \in dropped THEN 0 ELSE 1
<1>1. TypeOK /\ ReaderInv /\ LinesConserved
  BY DEF IInv
<1>2. /\ \A w \in Workers : wpc[w] = "exit"
      /\ batchCh = <<>> /\ rpc = "exit"
  BY ClosedInOrder DEF NoSendAfterClose
<1>3. totalRead \in Nat /\ sent = totalRead /\ (truncated \/ totalRead = Report!Wanted)
  BY <1>1, <1>2, Sizes DEF ReaderInv
<1>4. ASSUME NEW i \in 1 .. totalRead PROVE CountOf(trips, {i}) = IF i \in dropped THEN 0 ELSE 1
  <2>1. Places(i) = 1
    BY <1>1, <1>3 DEF LinesConserved
  <2>2. CountOf(batchCh, Covering(i)) = 0 /\ CountOf(outCh, {i}) = 0
    BY <1>2, CountEmpty
  <2>3. Holders(i) = {}
    BY <1>2 DEF Holders, AtWorker
  <2>4. Cardinality(Holders(i)) = 0
    BY <2>3, FS_EmptySet
  <2>5. PlacesSum(i)
    BY <1>1, PlacesCounted
  <2>6. CountOf(trips, {i}) \in Nat /\ 1 = CountOf(trips, {i}) + (IF i \in dropped THEN 1 ELSE 0)
    <3>1. /\ Places(i) = CountOf(batchCh, Covering(i)) + Cardinality(Holders(i))
                   + CountOf(outCh, {i}) + CountOf(trips, {i})
                   + (IF i \in dropped THEN 1 ELSE 0)
          /\ CountOf(trips, {i}) \in Nat
      BY <2>5 DEF PlacesSum
    <3> QED
      BY <2>1, <2>2, <2>4, <3>1
  <2> QED
    BY <2>6
<1> QED
  BY <1>3, <1>4

LEMMA ResultAddsUp == IInv => EveryLineAccounted
<1> SUFFICES ASSUME IInv, pc = "returned" PROVE EveryLineAccounted
  BY DEF EveryLineAccounted
<1> DEFINE Valid == {i \in 1 .. totalRead : RuleOf(i) = 0}
<1>1. TypeOK /\ BoundsInv /\ WorkerInv /\ CountersInv
  BY DEF IInv
<1>2. outClosed /\ outCh = <<>>
  BY <1>1 DEF WorkerInv
<1>3. /\ totalRead \in Nat /\ sent = totalRead
      /\ truncated \/ totalRead = Report!Wanted
      /\ \A i \in 1 .. totalRead : CountOf(trips, {i}) = IF i \in dropped THEN 0 ELSE 1
  BY <1>2, OnlyInResult
<1>4. totalRead = Report!Wanted \/ (truncated /\ totalRead < Report!Wanted)
  BY <1>1, <1>3, Sizes DEF BoundsInv
<1>5. trips \in Seq(1 .. NumLines) /\ dropped \subseteq 1 .. NumLines
  BY <1>1 DEF TypeOK
<1>6. \A k \in 1 .. Len(trips) : trips[k] \in Valid
  <2> SUFFICES ASSUME NEW k \in 1 .. Len(trips) PROVE trips[k] \in Valid
    OBVIOUS
  <2>1. trips[k] \in 1 .. NumLines /\ trips[k] <= sent /\ RuleOf(trips[k]) = 0
    BY <1>1, <1>5, Elements DEF BoundsInv
  <2> QED
    BY <1>3, <2>1
<1>7. \A i \in 1 .. totalRead : i \in dropped <=> RuleOf(i) # 0
  <2> SUFFICES ASSUME NEW i \in 1 .. totalRead PROVE i \in dropped <=> RuleOf(i) # 0
    OBVIOUS
  <2>1. i \in dropped => RuleOf(i) \in Rules
    BY <1>1 DEF BoundsInv
  <2>2. i \notin dropped => RuleOf(i) = 0
    <3>1. HAVE i \notin dropped
    <3>2. CountOf(trips, {i}) # 0
      BY <1>3, <3>1
    <3>3. PICK k \in 1 .. Len(trips) : trips[k] = i
      BY <1>5, <3>2, CountType
    <3> QED
      BY <1>6, <3>3
  <2> QED
    BY <2>1, <2>2 DEF Rules
<1>8. \A i \in 1 .. totalRead : CountOf(trips, {i}) = IF RuleOf(i) = 0 THEN 1 ELSE 0
  BY <1>3, <1>7
<1>9. \A i \in 1 .. totalRead :
        Cardinality({k \in 1 .. Len(trips) : trips[k] = i}) = IF RuleOf(i) = 0 THEN 1 ELSE 0
  <2> SUFFICES ASSUME NEW i \in 1 .. totalRead
               PROVE  CountOf(trips, {i}) = Cardinality({k \in 1 .. Len(trips) : trips[k] = i})
    BY <1>8
  <2>1. {k \in 1 .. Len(trips) : trips[k] = i} = {k \in 1 .. Len(trips) : trips[k] \in {i}}
    OBVIOUS
  <2> QED
    BY <2>1 DEF CountOf
<1>10. Len(trips) = Cardinality(Valid)
  <2>1. \A i \in Valid : CountOf(trips, {i}) = 1
    BY <1>8
  <2> HIDE DEF Valid
  <2> QED
    BY <1>5, <1>6, <2>1, CountDistinct
<1>11. \A r \in Rules : counters[r] = Cardinality({i \in 1 .. totalRead : RuleOf(i) = r})
  <2> SUFFICES ASSUME NEW r \in Rules
               PROVE  {i \in dropped : RuleOf(i) = r} = {i \in 1 .. totalRead : RuleOf(i) = r}
    BY <1>1 DEF CountersInv
  <2>1. \A i \in dropped : i \in 1 .. totalRead
    BY <1>1, <1>3, <1>5 DEF BoundsInv
  <2>2. r # 0
    BY DEF Rules
  <2> QED
    BY <1>7, <2>1, <2>2
<1> QED
  BY <1>4, <1>9, <1>10, <1>11 DEF EveryLineAccounted

--------------------------------------------------------------------------------
(***************************************************************************)
(* The theorems.                                                           *)
(***************************************************************************)

(***************************************************************************)
(* The types, with the capacities of the channels (loader.go:116-117).     *)
(***************************************************************************)
THEOREM TypeCorrect == Spec => []TypeOK
<1>1. IInv => TypeOK
  BY DEF IInv
<1> QED
  BY <1>1, Invariance, PTL

(***************************************************************************)
(* No line sent by the reader is lost or in two places, whatever the       *)
(* interleaving (loader.go:116-160).                                       *)
(***************************************************************************)
THEOREM Conservation == Spec => []LinesConserved
<1>1. IInv => LinesConserved
  BY DEF IInv
<1> QED
  BY <1>1, Invariance, PTL

(***************************************************************************)
(* outCh is closed when no worker is left that could send to it            *)
(* (loader.go:151-153).                                                    *)
(***************************************************************************)
THEOREM ChannelsClosedInOrder == Spec => []NoSendAfterClose
  BY ClosedInOrder, Invariance, PTL

(***************************************************************************)
(* The result has every line read once, among the trips or in the counter  *)
(* of the rule it breaks (loader.go:189-201).                              *)
(***************************************************************************)
THEOREM ResultIsComplete == Spec => []EveryLineAccounted
  BY ResultAddsUp, Invariance, PTL

--------------------------------------------------------------------------------
(***************************************************************************)
(* The refinement: what a step of Load is in LoadReport.                   *)
(***************************************************************************)
Reports == [Report!Next]_(Report!vars)

(***************************************************************************)
(* A line a worker has, or outCh, has not been accounted for.              *)
(***************************************************************************)
LEMMA NotYetAccounted ==
  ASSUME IInv, NEW i \in 1 .. sent,
         (\E w \in Workers : i \in AtWorker(w)) \/ (\E k \in 1 .. Len(outCh) : outCh[k] = i)
  PROVE  i \in 1 .. Report!Wanted \ Report!Accounted
<1>1. TypeOK /\ BoundsInv /\ LinesConserved
  BY DEF IInv
<1>2. /\ sent \in Nat /\ totalRead \in Nat /\ sent <= totalRead /\ Report!Wanted \in Nat
      /\ totalRead <= Report!Wanted
  BY <1>1, Sizes DEF BoundsInv
<1>3. i \in 1 .. Report!Wanted /\ i \in 1 .. totalRead /\ i <= sent
  BY <1>2
<1>4. Places(i) = 1 /\ PlacesSum(i)
  BY <1>1, <1>3, PlacesCounted DEF LinesConserved
<1>5. Cardinality(Holders(i)) # 0 \/ CountOf(outCh, {i}) # 0
  <2>1. CASE \E w \in Workers : i \in AtWorker(w)
    <3>1. Holders(i) # {} /\ IsFiniteSet(Holders(i))
      BY <1>4, <2>1 DEF Holders, PlacesSum
    <3> QED
      BY <3>1, FS_EmptySet
  <2>2. CASE \E k \in 1 .. Len(outCh) : outCh[k] = i
    <3>1. outCh \in Seq(1 .. NumLines)
      BY <1>1 DEF TypeOK
    <3>2. ~(\A k \in 1 .. Len(outCh) : outCh[k] \notin {i})
      BY <2>2
    <3> QED
      BY <3>1, <3>2, CountType
  <2> QED
    BY <2>1, <2>2
<1>6. CountOf(trips, {i}) = 0 /\ i \notin dropped
  <2>1. /\ Places(i) = CountOf(batchCh, Covering(i)) + Cardinality(Holders(i))
                   + CountOf(outCh, {i}) + CountOf(trips, {i})
                   + (IF i \in dropped THEN 1 ELSE 0)
        /\ CountOf(batchCh, Covering(i)) \in Nat /\ Cardinality(Holders(i)) \in Nat
        /\ CountOf(outCh, {i}) \in Nat /\ CountOf(trips, {i}) \in Nat
    BY <1>4 DEF PlacesSum
  <2> QED
    BY <1>4, <1>5, <2>1
<1>7. i \notin Report!Accounted
  BY <1>6, AccountedCounts
<1> QED
  BY <1>3, <1>7

LEMMA CollectReports == ASSUME IInv, Collect PROVE Reports
<1> DEFINE x == Head(outCh)
<1>1. TypeOK /\ BoundsInv
  BY DEF IInv
<1>2. /\ pc = "collect" /\ pc' = pc /\ outCh # <<>> /\ trips' = Append(trips, x)
      /\ UNCHANGED <<file, counters, dropped>>
  BY DEF Collect, workerVars
<1>3. /\ Len(outCh) \in Nat /\ Len(outCh) > 0 /\ x = outCh[1] /\ x \in 1 .. NumLines
  BY <1>1, <1>2, Tails DEF TypeOK
<1> HIDE DEF x
<1>4. x <= sent /\ RuleOf(x) = 0 /\ 1 \in 1 .. Len(outCh)
  BY <1>1, <1>3 DEF BoundsInv
<1>5. x \in 1 .. sent
  BY <1>1, <1>3, <1>4, Sizes
<1>6. x \in 1 .. Report!Wanted \ Report!Accounted
  BY <1>3, <1>4, <1>5, NotYetAccounted
<1>7. Report!Account(x)
  BY <1>2, <1>4, <1>6 DEF Report!Account, RuleOf
<1> QED
  BY <1>6, <1>7 DEF Reports, Report!Next

LEMMA DiscardReports == ASSUME IInv, pc # "panicked", NEW w \in Workers, Discard(w) PROVE Reports
<1> DEFINE x == cur[w]
<1>1. TypeOK /\ BoundsInv /\ WorkerInv
  BY DEF IInv
<1>2. /\ wpc[w] = "parse" /\ RuleOf(x) \in Rules /\ pc' = pc
      /\ counters' = [counters EXCEPT ![RuleOf(x)] = @ + 1]
      /\ dropped' = dropped \union {x} /\ UNCHANGED <<file, trips>>
  BY DEF Discard, Count
<1>3. pc = "collect"
  BY <1>1, <1>2, OpenWhileParsing DEF Started, TypeOK
<1>4. x \in 1 .. sent /\ x \in AtWorker(w)
  <2>1. x \in 0 .. NumLines + 1 /\ last[w] \in 0 .. NumLines /\ NumLines \in Nat /\ sent \in Nat
    BY <1>1, Sizes DEF TypeOK
  <2>2. 1 <= x /\ x <= last[w] /\ last[w] <= sent
    BY <1>1, <1>2 DEF BoundsInv
  <2> QED
    BY <1>2, <2>1, <2>2 DEF AtWorker
<1> HIDE DEF x
<1>5. x \in 1 .. Report!Wanted \ Report!Accounted
  BY <1>4, NotYetAccounted
<1>6. Report!Account(x)
  BY <1>2, <1>3, <1>5 DEF Report!Account, RuleOf, Rules
<1> QED
  BY <1>5, <1>6 DEF Reports, Report!Next

LEMMA CrashReports ==
  ASSUME IInv, pc # "panicked", NEW w \in Workers, CrashOnLine(w) PROVE Reports
<1>1. TypeOK /\ BoundsInv /\ WorkerInv
  BY DEF IInv
<1>2. /\ wpc[w] = "parse" /\ RuleOf(cur[w]) = -1 /\ pc' = "panicked"
      /\ UNCHANGED <<file, trips, dropped, counters>>
  BY DEF CrashOnLine, workerVars, Panic
<1>3. pc = "collect"
  BY <1>1, <1>2, OpenWhileParsing DEF Started, TypeOK
<1>4. cur[w] \in 1 .. sent /\ sent \in Nat /\ totalRead \in Nat /\ sent <= totalRead
  <2>1. /\ cur[w] \in 0 .. NumLines + 1 /\ last[w] \in 0 .. NumLines /\ NumLines \in Nat
        /\ sent \in Nat /\ totalRead \in Nat /\ sent <= totalRead
    BY <1>1, Sizes DEF TypeOK
  <2>2. 1 <= cur[w] /\ cur[w] <= last[w] /\ last[w] <= sent
    BY <1>1, <1>2 DEF BoundsInv
  <2> QED
    BY <2>1, <2>2
<1>5. cur[w] \in 1 .. Report!Wanted
  BY <1>1, <1>4, Sizes DEF BoundsInv
<1>6. Report!Crash
  BY <1>2, <1>3, <1>5 DEF Report!Crash, RuleOf
<1> QED
  BY <1>6 DEF Reports, Report!Next

LEMMA ReturnReports == ASSUME IInv, Return PROVE Reports
<1>1. TypeOK /\ BoundsInv
  BY DEF IInv
<1>2. /\ pc = "collect" /\ outCh = <<>> /\ outClosed /\ pc' = "returned"
      /\ UNCHANGED <<file, trips, dropped, counters, totalRead>>
  BY DEF Return, readerVars, workerVars
<1>3. /\ totalRead \in Nat /\ sent = totalRead
      /\ \A i \in 1 .. totalRead : CountOf(trips, {i}) = IF i \in dropped THEN 0 ELSE 1
  BY <1>2, OnlyInResult
<1>4. Report!Accounted = 1 .. totalRead
  <2>1. ASSUME NEW i \in 1 .. totalRead PROVE i \in Report!Accounted
    <3>1. i \in dropped \/ CountOf(trips, {i}) = 1
      BY <1>3
    <3>2. i \in Report!Accounted <=> CountOf(trips, {i}) # 0 \/ i \in dropped
      BY AccountedCounts
    <3> QED
      BY <3>1, <3>2
  <2>2. Report!Accounted \subseteq 1 .. totalRead
    BY <1>3, AccountedCounts
  <2> QED
    BY <2>1, <2>2
<1>5. totalRead \in 0 .. Report!Wanted
  BY <1>1, <1>3, Sizes DEF BoundsInv
<1>6. Report!Return
  BY <1>2, <1>4, <1>5 DEF Report!Return
<1> QED
  BY <1>6 DEF Reports, Report!Next

LEMMA FailReports == ASSUME IInv, Fail PROVE Reports
<1>1. TypeOK /\ ReaderInv
  BY DEF IInv
<1>2. pc = "start" /\ pc' = "failed" /\ UNCHANGED <<file, trips, dropped, counters>>
  BY DEF Fail, workerVars
<1>3. totalRead = 0
  BY <1>1, <1>2 DEF ReaderInv, Started
<1>4. sent = 0
  BY <1>1, <1>3, Sizes
<1>5. Report!Accounted = {}
  BY <1>4, AccountedCounts
<1>6. Report!Fail
  BY <1>2, <1>5 DEF Report!Fail
<1> QED
  BY <1>6 DEF Reports, Report!Next

(***************************************************************************)
(* The caller sees nothing of the other steps.                             *)
(***************************************************************************)
Unseen ==
  /\ UNCHANGED <<file, trips, dropped, counters>>
  /\ pc' = pc \/ (pc = "start" /\ pc' = "collect")
  /\ totalRead' = totalRead \/ rpc = "scan"

LEMMA OthersReport == ASSUME IInv, Unseen PROVE Reports
<1>1. ReaderInv
  BY DEF IInv
<1>2. ASSUME pc = "returned" PROVE rpc = "exit"
  BY <1>2, ClosedInOrder DEF IInv, WorkerInv, NoSendAfterClose
<1>3. UNCHANGED (Report!vars)
  BY <1>2 DEF Unseen, Report!vars
<1> QED
  BY <1>3 DEF Reports

(***************************************************************************)
(* Load accounts for each line once, in Trips or in the counters, and      *)
(* returns when the lines it has read are those accounted for              *)
(* (loader.go:85-202).                                                     *)
(***************************************************************************)
THEOREM LoadReports == Spec => ImplementsLoadReport
<1>1. Init => Report!Init
  BY DEF Init, Report!Init, Rules
<1>2. ASSUME IInv, [Next]_vars PROVE Reports
  <2>1. ASSUME Alive, CallerNext PROVE Reports
    <3>1. CASE Start
      <4>1. Unseen
        BY <3>1 DEF Start, Unseen
      <4> QED
        BY <1>2, <4>1, OthersReport
    <3> QED
      BY <1>2, <2>1, <3>1, CollectReports, ReturnReports, FailReports DEF CallerNext
  <2>2. ASSUME ReaderNext PROVE Reports
    <3>1. Unseen
      BY <2>2 DEF ReaderNext, ScanLine, StopScan, ScanFails, SendBatch, Flush, CloseBatchCh,
                  workerVars, Unseen
    <3> QED
      BY <1>2, <3>1, OthersReport
  <2>3. ASSUME Alive, NEW w \in Workers, WorkerNext(w) PROVE Reports
    <3>1. CASE TakeBatch(w) \/ EmitTrip(w) \/ ExitWorker(w)
      <4>1. Unseen
        BY <3>1 DEF TakeBatch, EmitTrip, ExitWorker, readerVars, Unseen
      <4> QED
        BY <1>2, <4>1, OthersReport
    <3> QED
      BY <1>2, <2>3, <3>1, DiscardReports, CrashReports DEF WorkerNext, Alive
  <2>4. ASSUME CloseOutCh \/ UNCHANGED vars PROVE Reports
    <3>1. Unseen
      BY <2>4 DEF CloseOutCh, vars, readerVars, workerVars, Unseen
    <3> QED
      BY <1>2, <3>1, OthersReport
  <2> QED
    BY <1>2, <2>1, <2>2, <2>3, <2>4 DEF Next, Terminated
<1> QED
  BY <1>1, <1>2, Invariance, PTL DEF Spec, ImplementsLoadReport, Report!Spec, Reports

================================================================================
