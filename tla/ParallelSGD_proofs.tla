-------------------------- MODULE ParallelSGD_proofs ---------------------------
(***************************************************************************)
(* Proofs about ParallelSGD: its safety invariants and that it implements  *)
(* GradientDescent (safety), for every number of rows, workers, epochs and *)
(* every batch size.                                                       *)
(***************************************************************************)
EXTENDS ParallelSGD, Partitions_proofs, FiniteSetTheorems, SequenceTheorems, TLAPS

--------------------------------------------------------------------------------
(***************************************************************************)
(* The inductive invariant.                                                *)
(***************************************************************************)

(***************************************************************************)
(* In the current iteration of the aggregator: the coordinator has sent    *)
(* theta to w; w has sent its last message; the terms of row r are in the  *)
(* channel; they are in the sum.                                           *)
(***************************************************************************)
Given(w)    == \/ pc = "broadcast" /\ w < next
               \/ pc = "await" /\ epochResultCh = <<>>
Finished(w) == \/ w \in doneBy
               \/ \E i \in 1 .. Len(gradCh) : gradCh[i].kind = "done" /\ gradCh[i].from = w
Queued(r)   == \E i \in 1 .. Len(gradCh) : r \in gradCh[i].rows
Summed(r)   == accumGrad[r] # <<>>

LastTheta == IF lossHistory = <<>> THEN Zero ELSE lossHistory[Len(lossHistory)]
StepFrom(t) == IF N = 0 THEN t ELSE Update(t, [r \in Rows |-> <<t>>], N)

(***************************************************************************)
(* How far the coordinator and the aggregator are from each other.         *)
(***************************************************************************)
CoordInv ==
  /\ pc = "broadcast" => /\ apc = "collect"
                         /\ iter = epoch
                         /\ epoch <= Epochs
                         /\ epochResultCh = <<>>
                         /\ closed = {}
                         /\ aliased \/ theta = aggTheta
  /\ pc = "await" => /\ next = 0
                     /\ epoch <= Epochs
                     /\ closed = {}
                     /\ IF epochResultCh = <<>>
                          THEN iter = epoch /\ apc # "exit"
                          ELSE /\ iter = epoch + 1
                               /\ epochResultCh = <<aggTheta>>
                               /\ apc = IF epoch = Epochs THEN "exit" ELSE "collect"
  /\ pc \in {"close", "returned"} => /\ apc = "exit"
                                     /\ epochResultCh = <<>>
                                     /\ epoch = Epochs + 1
                                     /\ ~aliased
                                     /\ theta = aggTheta

(***************************************************************************)
(* A worker that was given theta either has not received it, computes with *)
(* it, or has finished; the theta it has is the one to be updated.         *)
(***************************************************************************)
WorkerInv == \A w \in Workers :
  /\ Given(w) <=> paramCh[w] # <<>> \/ wpc[w] = "batch" \/ Finished(w)
  /\ paramCh[w] # <<>> => paramCh[w] = <<aggTheta>> /\ wpc[w] = "recv" /\ ~Finished(w)
  /\ wpc[w] = "batch" => wtheta[w] = aggTheta /\ ~Finished(w)
  /\ wpc[w] = "exit" => w \in closed

(***************************************************************************)
(* A row of a worker that computes is left, or its terms were sent; before *)
(* that none were sent, and after that all were.                           *)
(***************************************************************************)
RowInv == \A w \in Workers :
  /\ left[w] \subseteq PartitionOf(w)
  /\ \A r \in PartitionOf(w) :
       IF wpc[w] = "batch"
         THEN r \in left[w] <=> ~(Queued(r) \/ Summed(r))
         ELSE /\ r \notin left[w]
              /\ Finished(w) <=> Queued(r) \/ Summed(r)

(***************************************************************************)
(* A message is from a worker that was given theta, about its own rows;    *)
(* no row is in two messages; kindDone is the last of its worker.          *)
(***************************************************************************)
ChannelInv ==
  /\ \A i \in 1 .. Len(gradCh) :
       /\ wpc[gradCh[i].from] = "batch" \/ Finished(gradCh[i].from)
       /\ gradCh[i].from \notin doneBy
       /\ gradCh[i].rows \subseteq PartitionOf(gradCh[i].from)
       /\ gradCh[i].n = Cardinality(gradCh[i].rows)
       /\ gradCh[i].kind = "grad" => gradCh[i].theta = aggTheta
       /\ gradCh[i].kind = "done" => gradCh[i].rows = {}
  /\ \A i, j \in 1 .. Len(gradCh) : i < j =>
       /\ gradCh[i].rows \cap gradCh[j].rows = {}
       /\ gradCh[i].kind = "done" => gradCh[j].from # gradCh[i].from

(***************************************************************************)
(* What the aggregator has summed: at most one term of a row, at the theta *)
(* to be updated, and of no row whose terms still are in the channel.      *)
(***************************************************************************)
SumInv ==
  /\ \A r \in Rows : Summed(r) => ~Queued(r)
  /\ apc # "send" => \A r \in Rows : Summed(r) => accumGrad[r] = <<aggTheta>>
  /\ totalN = Cardinality({r \in Rows : Summed(r)})
  /\ doneCount = Cardinality(doneBy)
  /\ apc \in {"update", "send"} => doneBy = Workers

(***************************************************************************)
(* theta is one step ahead of the recorded history from the update of an   *)
(* epoch until the coordinator receives it.                                *)
(***************************************************************************)
LossInv ==
  /\ Len(lossHistory) = epoch - 1
  /\ aggTheta = IF apc = "send" \/ epochResultCh # <<>> THEN StepFrom(LastTheta) ELSE LastTheta

IInv == TypeOK /\ CoordInv /\ WorkerInv /\ RowInv /\ ChannelInv /\ SumInv /\ LossInv

--------------------------------------------------------------------------------
(***************************************************************************)
(* The partitions of the workers: within Rows, disjoint, covering Rows.    *)
(***************************************************************************)
LEMMA PartitionFacts ==
  /\ \A w \in Workers : PartitionOf(w) \subseteq Rows
  /\ \A v, w \in Workers : v # w => PartitionOf(v) \cap PartitionOf(w) = {}
  /\ \A r \in Rows : \E w \in Workers : r \in PartitionOf(w)
<1>1. N \in Nat /\ W \in Nat \ {0}
  BY SizesAssumption
<1>2. \A w \in Workers : PartitionOf(w) \subseteq Rows
  BY <1>1, PartitionsWithinRows DEF PartitionOf, Workers, Rows
<1>3. \A v, w \in Workers : v # w => PartitionOf(v) \cap PartitionOf(w) = {}
  BY <1>1, PartitionsDisjoint DEF PartitionOf, Workers
<1>4. \A r \in Rows : \E w \in Workers : r \in PartitionOf(w)
  BY <1>1, PartitionsCover DEF PartitionOf, Workers, Rows
<1> QED
  BY <1>2, <1>3, <1>4

LEMMA IntervalFrom0 ==
  ASSUME NEW b \in Nat
  PROVE  IsFiniteSet(0 .. b-1) /\ Cardinality(0 .. b-1) = b
<1> DEFINE c == b - 1
<1>1. c \in Int /\ b = c + 1 /\ c >= -1
  OBVIOUS
<1> HIDE DEF c
<1>2. \A x, y \in Int : /\ IsFiniteSet(x .. y)
                        /\ Cardinality(x .. y) = IF x > y THEN 0 ELSE y-x+1
  BY FS_Interval
<1>3. Cardinality(0 .. c) = b
  BY <1>1, <1>2
<1> QED
  BY <1>2, <1>3 DEF c

LEMMA FiniteFacts ==
  /\ IsFiniteSet(Workers) /\ Cardinality(Workers) = W
  /\ IsFiniteSet(Rows) /\ Cardinality(Rows) = N
  BY SizesAssumption, IntervalFrom0 DEF Workers, Rows

LEMMA InitIInv == Init => IInv
<1> SUFFICES ASSUME Init PROVE IInv
  OBVIOUS
<1> USE DEF Init
<1>1. TypeOK
  BY SizesAssumption, ThetaAssumption DEF TypeOK, Workers, NoTerms
<1>2. CoordInv
  BY SizesAssumption DEF CoordInv
<1>3. \A w \in Workers : ~Given(w) /\ ~Finished(w)
  BY DEF Given, Finished, Workers
<1>4. WorkerInv
  BY <1>3 DEF WorkerInv
<1>5. \A r \in Rows : ~Queued(r) /\ ~Summed(r)
  BY DEF Queued, Summed, NoTerms
<1>6. RowInv
  BY <1>3, <1>5, PartitionFacts DEF RowInv
<1>7. ChannelInv
  BY DEF ChannelInv
<1>8. SumInv
  <2>1. {r \in Rows : Summed(r)} = {}
    BY <1>5
  <2> QED
    BY <1>5, <2>1, FS_EmptySet DEF SumInv
<1>9. LossInv
  BY DEF LossInv, LastTheta
<1> QED
  BY <1>1, <1>2, <1>4, <1>6, <1>7, <1>8, <1>9 DEF IInv

LEMMA MessageFacts ==
  ASSUME TypeOK, NEW i \in 1 .. Len(gradCh)
  PROVE  /\ gradCh[i] \in MessageType
         /\ gradCh[i].kind \in {"grad", "done"}
         /\ gradCh[i].from \in Workers
         /\ gradCh[i].rows \subseteq Rows
         /\ gradCh[i].theta \in Theta
         /\ gradCh[i].n \in Nat
<1>1. gradCh[i] \in MessageType
  BY ElementOfSeq DEF TypeOK
<1> QED
  BY <1>1 DEF MessageType

(***************************************************************************)
(* What a step preserves because it leaves the variables it is about.      *)
(***************************************************************************)
LEMMA ChannelUnchanged ==
  ASSUME ChannelInv, UNCHANGED <<gradCh, wpc, doneBy, aggTheta>>
  PROVE  ChannelInv'
  BY DEF ChannelInv, Finished

LEMMA RowsUnchanged ==
  ASSUME RowInv, UNCHANGED <<gradCh, wpc, left, accumGrad, doneBy>>
  PROVE  RowInv'
  BY DEF RowInv, Finished, Queued, Summed

LEMMA SumUnchanged ==
  ASSUME SumInv, UNCHANGED <<gradCh, apc, aggTheta, accumGrad, totalN, doneCount, doneBy>>
  PROVE  SumInv'
  BY DEF SumInv, Queued, Summed

--------------------------------------------------------------------------------
(***************************************************************************)
(* The coordinator's steps.                                                *)
(***************************************************************************)

LEMMA BroadcastIInv == IInv /\ Broadcast => IInv'
<1> SUFFICES ASSUME IInv, Broadcast PROVE IInv'
  OBVIOUS
<1>0. TypeOK /\ CoordInv /\ WorkerInv /\ RowInv /\ ChannelInv /\ SumInv /\ LossInv
  BY DEF IInv
<1>1. /\ pc = "broadcast"
      /\ paramCh[next] = <<>>
      /\ paramCh' = [paramCh EXCEPT ![next] = <<aggTheta>>]
      /\ IF next = W - 1
           THEN next' = 0 /\ pc' = "await"
           ELSE next' = next + 1 /\ pc' = pc
      /\ UNCHANGED <<epoch, theta, aliased, lossHistory, closed, gradCh, epochResultCh,
                     workerVars, aggVars>>
  BY <1>0 DEF Broadcast, CoordInv, CoordTheta
<1>2. \A w \in Workers : Finished(w)' <=> Finished(w)
  BY <1>1 DEF Finished, aggVars
<1>3. TypeOK'
  <2>0. next \in 0 .. W-1 /\ W \in Nat
    BY <1>0, SizesAssumption DEF TypeOK, Workers
  <2>1. next' \in Workers
    BY <1>1, <2>0 DEF Workers
  <2>2. <<aggTheta>> \in Seq(Theta) /\ Len(<<aggTheta>>) = 1
    BY <1>0 DEF TypeOK
  <2>3. paramCh' \in [Workers -> Seq(Theta)] /\ \A w \in Workers : Len(paramCh'[w]) <= 1
    BY <1>0, <1>1, <2>2 DEF TypeOK
  <2> QED
    BY <1>0, <1>1, <2>1, <2>3 DEF TypeOK, workerVars, aggVars
<1>4. CoordInv'
  BY <1>0, <1>1 DEF CoordInv, workerVars, aggVars
<1>5. WorkerInv'
  <2> SUFFICES ASSUME NEW w \in Workers
               PROVE  (/\ Given(w) <=> paramCh[w] # <<>> \/ wpc[w] = "batch" \/ Finished(w)
                       /\ paramCh[w] # <<>> => paramCh[w] = <<aggTheta>> /\ wpc[w] = "recv" /\ ~Finished(w)
                       /\ wpc[w] = "batch" => wtheta[w] = aggTheta /\ ~Finished(w)
                       /\ wpc[w] = "exit" => w \in closed)'
    BY DEF WorkerInv
  <2>0. next \in 0 .. W-1 /\ w \in 0 .. W-1 /\ W \in Nat /\ epochResultCh' = <<>>
    BY <1>0, <1>1, SizesAssumption DEF CoordInv, TypeOK, Workers
  <2>1. Given(w)' <=> Given(w) \/ w = next
    BY <1>1, <2>0 DEF Given
  <2>2. CASE w = next
    <3>1. paramCh'[w] = <<aggTheta>>
      BY <1>0, <1>1, <2>2 DEF TypeOK
    <3>2. ~Given(w)
      BY <1>1, <2>0, <2>2 DEF Given
    <3>3. wpc[w] = "recv" /\ ~Finished(w)
      BY <1>0, <1>1, <3>2 DEF WorkerInv, CoordInv, TypeOK
    <3> QED
      BY <1>1, <1>2, <2>1, <2>2, <3>1, <3>3 DEF workerVars, aggVars
  <2>3. CASE w # next
    BY <1>0, <1>1, <1>2, <2>1, <2>3 DEF WorkerInv, TypeOK, workerVars, aggVars
  <2> QED
    BY <2>2, <2>3
<1>6. RowInv'
  BY <1>0, <1>1, RowsUnchanged DEF workerVars, aggVars
<1>7. ChannelInv'
  BY <1>0, <1>1, ChannelUnchanged DEF workerVars, aggVars
<1>8. SumInv'
  BY <1>0, <1>1, SumUnchanged DEF aggVars
<1>9. LossInv'
  BY <1>0, <1>1 DEF LossInv, LastTheta, aggVars, StepFrom
<1> QED
  BY <1>3, <1>4, <1>5, <1>6, <1>7, <1>8, <1>9 DEF IInv

LEMMA AwaitResultIInv == IInv /\ AwaitResult => IInv'
<1> SUFFICES ASSUME IInv, AwaitResult PROVE IInv'
  OBVIOUS
<1>0. TypeOK /\ CoordInv /\ WorkerInv /\ RowInv /\ ChannelInv /\ SumInv /\ LossInv
  BY DEF IInv
<1>1. /\ pc = "await"
      /\ epochResultCh = <<aggTheta>>
      /\ theta' = aggTheta
      /\ epochResultCh' = <<>>
      /\ aliased' = FALSE
      /\ lossHistory' = Append(lossHistory, aggTheta)
      /\ epoch' = epoch + 1
      /\ pc' = IF epoch = Epochs THEN "close" ELSE "broadcast"
      /\ UNCHANGED <<next, paramCh, closed, gradCh, workerVars, aggVars>>
  <2>1. pc = "await" /\ epochResultCh = <<aggTheta>>
    BY <1>0 DEF AwaitResult, CoordInv
  <2>2. Head(<<aggTheta>>) = aggTheta /\ Tail(<<aggTheta>>) = <<>>
    OBVIOUS
  <2> QED
    BY <2>1, <2>2 DEF AwaitResult
<1>2. \A w \in Workers : Finished(w)' <=> Finished(w)
  BY <1>1 DEF Finished, aggVars
<1>3. TypeOK'
  <2>1. epoch' \in 1 .. Epochs+1
    BY <1>0, <1>1, SizesAssumption DEF TypeOK, CoordInv
  <2>2. lossHistory' \in Seq(Theta)
    BY <1>0, <1>1 DEF TypeOK
  <2>3. epochResultCh' \in Seq(Theta) /\ Len(epochResultCh') <= 1
    BY <1>1
  <2> QED
    BY <1>0, <1>1, <2>1, <2>2, <2>3 DEF TypeOK, workerVars, aggVars
<1>4. CoordInv'
  <2>1. epoch \in Nat /\ Epochs \in Nat
    BY <1>0, SizesAssumption DEF TypeOK
  <2> QED
    BY <1>0, <1>1, <2>1 DEF CoordInv, workerVars, aggVars
<1>5. WorkerInv'
  <2>1. \A w \in Workers : ~Given(w) /\ ~Given(w)'
    BY <1>0, <1>1 DEF Given, CoordInv, Workers
  <2> QED
    BY <1>0, <1>1, <1>2, <2>1 DEF WorkerInv, workerVars, aggVars
<1>6. RowInv'
  BY <1>0, <1>1, RowsUnchanged DEF workerVars, aggVars
<1>7. ChannelInv'
  BY <1>0, <1>1, ChannelUnchanged DEF workerVars, aggVars
<1>8. SumInv'
  BY <1>0, <1>1, SumUnchanged DEF aggVars
<1>9. LossInv'
  <2>1. lossHistory \in Seq(Theta) /\ aggTheta \in Theta /\ epoch \in Nat
    BY <1>0 DEF TypeOK
  <2>2. /\ Len(lossHistory') = Len(lossHistory) + 1
        /\ lossHistory' # <<>>
        /\ lossHistory'[Len(lossHistory')] = aggTheta
    BY <1>1, <2>1
  <2>3. apc # "send"
    BY <1>0, <1>1 DEF CoordInv
  <2> QED
    BY <1>0, <1>1, <2>1, <2>2, <2>3 DEF LossInv, LastTheta, aggVars
<1> QED
  BY <1>3, <1>4, <1>5, <1>6, <1>7, <1>8, <1>9 DEF IInv

LEMMA CloseParamIInv == IInv /\ CloseParam => IInv'
<1> SUFFICES ASSUME IInv, CloseParam PROVE IInv'
  OBVIOUS
<1>0. TypeOK /\ CoordInv /\ WorkerInv /\ RowInv /\ ChannelInv /\ SumInv /\ LossInv
  BY DEF IInv
<1>1. /\ pc = "close"
      /\ pc' \in {"close", "returned"}
      /\ UNCHANGED <<epoch, theta, aliased, lossHistory, paramCh, gradCh, epochResultCh,
                     workerVars, aggVars>>
  BY DEF CloseParam
<1>2. \A w \in Workers : Finished(w)' <=> Finished(w)
  BY <1>1 DEF Finished, aggVars
<1>3. TypeOK'
  <2>0. next \in 0 .. W-1 /\ W \in Nat
    BY <1>0, SizesAssumption DEF TypeOK, Workers
  <2>1. next' \in Workers
    BY <2>0 DEF CloseParam, Workers
  <2>2. closed' \subseteq Workers
    BY <1>0 DEF TypeOK, CloseParam
  <2> QED
    BY <1>0, <1>1, <2>1, <2>2 DEF TypeOK, workerVars, aggVars
<1>4. CoordInv'
  BY <1>0, <1>1 DEF CoordInv, workerVars, aggVars
<1>5. WorkerInv'
  <2>1. \A w \in Workers : ~Given(w) /\ ~Given(w)'
    BY <1>1 DEF Given
  <2>2. closed \subseteq closed'
    BY DEF CloseParam
  <2> QED
    BY <1>0, <1>1, <1>2, <2>1, <2>2 DEF WorkerInv, workerVars, aggVars
<1>6. RowInv'
  BY <1>0, <1>1, RowsUnchanged DEF workerVars, aggVars
<1>7. ChannelInv'
  BY <1>0, <1>1, ChannelUnchanged DEF workerVars, aggVars
<1>8. SumInv'
  BY <1>0, <1>1, SumUnchanged DEF aggVars
<1>9. LossInv'
  BY <1>0, <1>1 DEF LossInv, LastTheta, aggVars, StepFrom
<1> QED
  BY <1>3, <1>4, <1>5, <1>6, <1>7, <1>8, <1>9 DEF IInv

--------------------------------------------------------------------------------
(***************************************************************************)
(* The steps of a worker.                                                  *)
(***************************************************************************)

LEMMA ReceiveParamIInv == \A w \in Workers : IInv /\ ReceiveParam(w) => IInv'
<1> SUFFICES ASSUME NEW w \in Workers, IInv, ReceiveParam(w) PROVE IInv'
  OBVIOUS
<1>0. TypeOK /\ CoordInv /\ WorkerInv /\ RowInv /\ ChannelInv /\ SumInv /\ LossInv
  BY DEF IInv
<1>1. /\ wpc[w] = "recv" /\ paramCh[w] = <<aggTheta>>
      /\ wtheta' = [wtheta EXCEPT ![w] = aggTheta]
      /\ paramCh' = [paramCh EXCEPT ![w] = <<>>]
      /\ left' = [left EXCEPT ![w] = PartitionOf(w)]
      /\ wpc' = [wpc EXCEPT ![w] = "batch"]
      /\ UNCHANGED <<coordVars, closed, gradCh, epochResultCh, aggVars>>
  <2>1. paramCh[w] = <<aggTheta>>
    BY <1>0 DEF ReceiveParam, WorkerInv
  <2>2. Head(<<aggTheta>>) = aggTheta /\ Tail(<<aggTheta>>) = <<>>
    OBVIOUS
  <2> QED
    BY <2>1, <2>2 DEF ReceiveParam
<1>2. ~Finished(w) /\ \A v \in Workers : Finished(v)' <=> Finished(v)
  BY <1>0, <1>1 DEF Finished, aggVars, WorkerInv
<1>3. TypeOK'
  <2>1. paramCh' \in [Workers -> Seq(Theta)] /\ \A v \in Workers : Len(paramCh'[v]) <= 1
    BY <1>0, <1>1 DEF TypeOK
  <2>2. left' \in [Workers -> SUBSET Rows]
    BY <1>0, <1>1, PartitionFacts DEF TypeOK
  <2>3. /\ wtheta' \in [Workers -> Theta]
        /\ wpc' \in [Workers -> {"recv", "batch", "exit"}]
    BY <1>0, <1>1 DEF TypeOK
  <2> QED
    BY <1>0, <1>1, <2>1, <2>2, <2>3 DEF TypeOK, coordVars, aggVars
<1>4. CoordInv'
  BY <1>0, <1>1 DEF CoordInv, coordVars, aggVars
<1>5. WorkerInv'
  <2>1. \A v \in Workers : Given(v)' <=> Given(v)
    BY <1>1 DEF Given, coordVars
  <2>2. /\ wpc \in [Workers -> {"recv", "batch", "exit"}]
        /\ DOMAIN paramCh = Workers
        /\ DOMAIN wtheta = Workers
    BY <1>0 DEF TypeOK
  <2> QED
    BY <1>0, <1>1, <1>2, <2>1, <2>2 DEF WorkerInv, aggVars
<1>6. RowInv'
  <2>1. DOMAIN wpc = Workers /\ DOMAIN left = Workers
    BY <1>0 DEF TypeOK
  <2>2. \A r : (Queued(r)' <=> Queued(r)) /\ (Summed(r)' <=> Summed(r))
    BY <1>1 DEF Queued, Summed, aggVars
  <2> QED
    BY <1>0, <1>1, <1>2, <2>1, <2>2 DEF RowInv
<1>7. ChannelInv'
  <2>1. DOMAIN wpc = Workers
    BY <1>0 DEF TypeOK
  <2>2. \A i \in 1 .. Len(gradCh) : gradCh[i].from \in Workers
    BY <1>0, MessageFacts
  <2>3. \A v \in Workers : wpc'[v] = "batch" \/ wpc'[v] = wpc[v]
    BY <1>1, <2>1
  <2> QED
    BY <1>0, <1>1, <1>2, <2>2, <2>3 DEF ChannelInv, aggVars
<1>8. SumInv'
  BY <1>0, <1>1, SumUnchanged DEF aggVars
<1>9. LossInv'
  BY <1>0, <1>1 DEF LossInv, LastTheta, aggVars, coordVars, StepFrom
<1> QED
  BY <1>3, <1>4, <1>5, <1>6, <1>7, <1>8, <1>9 DEF IInv

LEMMA ExitWorkerIInv == \A w \in Workers : IInv /\ ExitWorker(w) => IInv'
<1> SUFFICES ASSUME NEW w \in Workers, IInv, ExitWorker(w) PROVE IInv'
  OBVIOUS
<1>0. TypeOK /\ CoordInv /\ WorkerInv /\ RowInv /\ ChannelInv /\ SumInv /\ LossInv
  BY DEF IInv
<1>1. /\ wpc[w] = "recv" /\ paramCh[w] = <<>> /\ w \in closed
      /\ wpc' = [wpc EXCEPT ![w] = "exit"]
      /\ UNCHANGED <<coordVars, paramCh, closed, gradCh, epochResultCh, wtheta, left, aggVars>>
  BY DEF ExitWorker
<1>2. /\ \A v \in Workers : Finished(v)' <=> Finished(v)
      /\ \A r : (Queued(r)' <=> Queued(r)) /\ (Summed(r)' <=> Summed(r))
  BY <1>1 DEF Finished, Queued, Summed, aggVars
<1>3. DOMAIN wpc = Workers /\ \A v \in Workers : wpc'[v] = IF v = w THEN "exit" ELSE wpc[v]
  BY <1>0, <1>1 DEF TypeOK
<1>4. TypeOK'
  <2>1. wpc' \in [Workers -> {"recv", "batch", "exit"}]
    BY <1>0, <1>1 DEF TypeOK
  <2> QED
    BY <1>0, <1>1, <2>1 DEF TypeOK, coordVars, aggVars
<1>5. CoordInv'
  BY <1>0, <1>1 DEF CoordInv, coordVars, aggVars
<1>6. WorkerInv'
  <2>1. \A v \in Workers : Given(v)' <=> Given(v)
    BY <1>1 DEF Given, coordVars
  <2> QED
    BY <1>0, <1>1, <1>2, <1>3, <2>1 DEF WorkerInv, aggVars
<1>7. RowInv'
  BY <1>0, <1>1, <1>2, <1>3 DEF RowInv
<1>8. ChannelInv'
  <2>1. \A i \in 1 .. Len(gradCh) : gradCh[i].from \in Workers
    BY <1>0, MessageFacts
  <2> QED
    BY <1>0, <1>1, <1>2, <1>3, <2>1 DEF ChannelInv, aggVars
<1>9. SumInv'
  BY <1>0, <1>1, SumUnchanged DEF aggVars
<1>10. LossInv'
  BY <1>0, <1>1 DEF LossInv, LastTheta, aggVars, coordVars, StepFrom
<1> QED
  BY <1>4, <1>5, <1>6, <1>7, <1>8, <1>9, <1>10 DEF IInv

LEMMA SendGradIInv == \A w \in Workers : IInv /\ SendGrad(w) => IInv'
<1> SUFFICES ASSUME NEW w \in Workers, IInv, SendGrad(w) PROVE IInv'
  OBVIOUS
<1>0. TypeOK /\ CoordInv /\ WorkerInv /\ RowInv /\ ChannelInv /\ SumInv /\ LossInv
  BY DEF IInv
<1>1. PICK rows \in SUBSET left[w] :
        /\ gradCh' = Append(gradCh, GradMsg(w, rows, wtheta[w]))
        /\ left' = [left EXCEPT ![w] = @ \ rows]
  BY DEF SendGrad
<1>2. /\ wpc[w] = "batch" /\ wtheta[w] = aggTheta /\ ~Finished(w)
      /\ Len(gradCh) < GradPerWorker * W
      /\ UNCHANGED <<coordVars, paramCh, closed, epochResultCh, wpc, wtheta, aggVars>>
  BY <1>0 DEF SendGrad, GradChHasRoom, WorkerInv
<1> DEFINE m == GradMsg(w, rows, aggTheta)
<1>3. /\ m.kind = "grad" /\ m.from = w /\ m.rows = rows /\ m.theta = aggTheta
      /\ m.n = Cardinality(rows)
  BY DEF GradMsg
<1>4. rows \subseteq PartitionOf(w) /\ rows \subseteq Rows
  BY <1>0, PartitionFacts DEF RowInv
<1>5. m \in MessageType
  <2>1. Cardinality(rows) \in Nat
    BY <1>4, FiniteFacts, FS_Subset, FS_CardinalityType
  <2> QED
    BY <1>0, <1>4, <2>1 DEF TypeOK, MessageType, GradMsg
<1>6. /\ gradCh \in Seq(MessageType) /\ Len(gradCh) \in Nat
      /\ gradCh' \in Seq(MessageType)
      /\ Len(gradCh') = Len(gradCh) + 1
      /\ \A i \in 1 .. Len(gradCh) : gradCh'[i] = gradCh[i]
      /\ gradCh'[Len(gradCh) + 1] = m
  <2>1. gradCh \in Seq(MessageType) /\ Len(gradCh) \in Nat
    BY <1>0 DEF TypeOK
  <2>2. gradCh' = Append(gradCh, m)
    BY <1>1, <1>2
  <2> HIDE DEF m
  <2> QED
    BY <1>5, <2>1, <2>2
<1> HIDE DEF m
<1>7. \A v \in Workers : Finished(v)' <=> Finished(v)
  BY <1>2, <1>3, <1>6 DEF Finished, aggVars
<1>8. \A r : /\ Queued(r)' <=> Queued(r) \/ r \in rows
             /\ Summed(r)' <=> Summed(r)
  <2>1. \A r : Summed(r)' <=> Summed(r)
    BY <1>2 DEF Summed, aggVars
  <2>2. \A r : Queued(r)' <=> Queued(r) \/ r \in rows
    BY <1>3, <1>6 DEF Queued
  <2> QED
    BY <2>1, <2>2
<1>9. \A r \in rows : ~Queued(r) /\ ~Summed(r)
  BY <1>0, <1>2, <1>4 DEF RowInv
<1>10. DOMAIN left = Workers /\ DOMAIN wpc = Workers
  BY <1>0 DEF TypeOK
<1>11. TypeOK'
  <2>1. left' \in [Workers -> SUBSET Rows]
    BY <1>0, <1>1 DEF TypeOK
  <2>2. Len(gradCh') <= GradPerWorker * W
    BY <1>2, <1>6, SizesAssumption
  <2> QED
    BY <1>0, <1>2, <1>6, <2>1, <2>2 DEF TypeOK, coordVars, aggVars
<1>12. CoordInv'
  BY <1>0, <1>2 DEF CoordInv, coordVars, aggVars
<1>13. WorkerInv'
  <2>1. \A v \in Workers : Given(v)' <=> Given(v)
    BY <1>2 DEF Given, coordVars
  <2> QED
    BY <1>0, <1>2, <1>7, <2>1 DEF WorkerInv, aggVars
<1>14. RowInv'
  <2> SUFFICES ASSUME NEW v \in Workers
               PROVE  /\ left'[v] \subseteq PartitionOf(v)
                      /\ \A r \in PartitionOf(v) :
                           IF wpc[v] = "batch"
                             THEN r \in left'[v] <=> ~(Queued(r)' \/ Summed(r)')
                             ELSE /\ r \notin left'[v]
                                  /\ Finished(v) <=> Queued(r)' \/ Summed(r)'
    BY <1>2, <1>7 DEF RowInv
  <2>1. CASE v = w
    <3>1. left'[v] = left[v] \ rows
      BY <1>1, <1>10, <2>1
    <3> QED
      BY <1>0, <1>2, <1>8, <2>1, <3>1 DEF RowInv
  <2>2. CASE v # w
    <3>1. left'[v] = left[v]
      BY <1>1, <1>10, <2>2
    <3>2. \A r \in PartitionOf(v) : r \notin rows
      BY <1>4, <2>2, PartitionFacts
    <3> QED
      BY <1>0, <1>8, <3>1, <3>2 DEF RowInv
  <2> QED
    BY <2>1, <2>2
<1>15. ChannelInv'
  <2>1. w \notin doneBy
    BY <1>2 DEF Finished
  <2>2. \A i \in 1 .. Len(gradCh) : gradCh[i].from \in Workers
    BY <1>0, MessageFacts
  <2>3. \A i \in 1 .. Len(gradCh') : i \in 1 .. Len(gradCh) \/ i = Len(gradCh) + 1
    BY <1>6
  <2>4. \A i \in 1 .. Len(gradCh') :
          /\ gradCh'[i].from \in Workers
          /\ wpc[gradCh'[i].from] = "batch" \/ Finished(gradCh'[i].from)
          /\ gradCh'[i].from \notin doneBy
          /\ gradCh'[i].rows \subseteq PartitionOf(gradCh'[i].from)
          /\ gradCh'[i].n = Cardinality(gradCh'[i].rows)
          /\ gradCh'[i].kind = "grad" => gradCh'[i].theta = aggTheta
          /\ gradCh'[i].kind = "done" => gradCh'[i].rows = {}
    <3> SUFFICES ASSUME NEW i \in 1 .. Len(gradCh')
                 PROVE  /\ gradCh'[i].from \in Workers
                        /\ wpc[gradCh'[i].from] = "batch" \/ Finished(gradCh'[i].from)
                        /\ gradCh'[i].from \notin doneBy
                        /\ gradCh'[i].rows \subseteq PartitionOf(gradCh'[i].from)
                        /\ gradCh'[i].n = Cardinality(gradCh'[i].rows)
                        /\ gradCh'[i].kind = "grad" => gradCh'[i].theta = aggTheta
                        /\ gradCh'[i].kind = "done" => gradCh'[i].rows = {}
      OBVIOUS
    <3>1. CASE i \in 1 .. Len(gradCh)
      BY <1>0, <1>6, <2>2, <3>1 DEF ChannelInv
    <3>2. CASE i = Len(gradCh) + 1
      BY <1>2, <1>3, <1>4, <1>6, <2>1, <3>2
    <3> QED
      BY <2>3, <3>1, <3>2
  <2>5. \A i, j \in 1 .. Len(gradCh') : i < j =>
          /\ gradCh'[i].rows \cap gradCh'[j].rows = {}
          /\ gradCh'[i].kind = "done" => gradCh'[j].from # gradCh'[i].from
    <3> SUFFICES ASSUME NEW i \in 1 .. Len(gradCh'), NEW j \in 1 .. Len(gradCh'), i < j
                 PROVE  /\ gradCh'[i].rows \cap gradCh'[j].rows = {}
                        /\ gradCh'[i].kind = "done" => gradCh'[j].from # gradCh'[i].from
      OBVIOUS
    <3>1. i \in 1 .. Len(gradCh)
      BY <1>6
    <3>2. CASE j \in 1 .. Len(gradCh)
      BY <1>0, <1>6, <3>1, <3>2 DEF ChannelInv
    <3>3. CASE j = Len(gradCh) + 1
      <4>1. gradCh[i].rows \cap rows = {}
        BY <1>9, <3>1 DEF Queued
      <4>2. gradCh[i].kind = "done" => gradCh[i].from # w
        BY <1>2, <3>1 DEF Finished
      <4> QED
        BY <1>3, <1>6, <3>1, <3>3, <4>1, <4>2
    <3> QED
      BY <2>3, <3>2, <3>3
  <2> QED
    BY <1>2, <1>7, <2>4, <2>5 DEF ChannelInv, aggVars
<1>16. SumInv'
  BY <1>0, <1>2, <1>4, <1>8, <1>9 DEF SumInv, aggVars, Summed
<1>17. LossInv'
  BY <1>0, <1>2 DEF LossInv, LastTheta, aggVars, coordVars, StepFrom
<1> QED
  BY <1>11, <1>12, <1>13, <1>14, <1>15, <1>16, <1>17 DEF IInv

LEMMA SendDoneIInv == \A w \in Workers : IInv /\ SendDone(w) => IInv'
<1> SUFFICES ASSUME NEW w \in Workers, IInv, SendDone(w) PROVE IInv'
  OBVIOUS
<1>0. TypeOK /\ CoordInv /\ WorkerInv /\ RowInv /\ ChannelInv /\ SumInv /\ LossInv
  BY DEF IInv
<1> DEFINE m == DoneMsg(w)
<1>1. /\ gradCh' = Append(gradCh, m)
      /\ wpc' = [wpc EXCEPT ![w] = "recv"]
      /\ UNCHANGED <<coordVars, paramCh, closed, epochResultCh, wtheta, left, aggVars>>
  BY DEF SendDone
<1>2. /\ wpc[w] = "batch" /\ left[w] = {} /\ ~Finished(w)
      /\ Len(gradCh) < GradPerWorker * W
  BY <1>0 DEF SendDone, HasBatch, GradChHasRoom, WorkerInv
<1>3. m.kind = "done" /\ m.from = w /\ m.rows = {} /\ m.n = 0
  BY DEF DoneMsg
<1>4. m \in MessageType
  BY ThetaAssumption DEF MessageType, DoneMsg
<1> HIDE DEF m
<1>5. /\ gradCh \in Seq(MessageType) /\ Len(gradCh) \in Nat
      /\ gradCh' \in Seq(MessageType)
      /\ Len(gradCh') = Len(gradCh) + 1
      /\ \A i \in 1 .. Len(gradCh) : gradCh'[i] = gradCh[i]
      /\ gradCh'[Len(gradCh) + 1] = m
  <2>1. gradCh \in Seq(MessageType) /\ Len(gradCh) \in Nat
    BY <1>0 DEF TypeOK
  <2> QED
    BY <1>1, <1>4, <2>1
<1>6. \A v \in Workers : Finished(v)' <=> Finished(v) \/ v = w
  BY <1>1, <1>3, <1>5 DEF Finished, aggVars
<1>7. \A r : (Queued(r)' <=> Queued(r)) /\ (Summed(r)' <=> Summed(r))
  <2>1. \A r : Summed(r)' <=> Summed(r)
    BY <1>1 DEF Summed, aggVars
  <2>2. \A r : Queued(r)' <=> Queued(r)
    BY <1>3, <1>5 DEF Queued
  <2> QED
    BY <2>1, <2>2
<1>8. \A v \in Workers : wpc'[v] = IF v = w THEN "recv" ELSE wpc[v]
  BY <1>0, <1>1 DEF TypeOK
<1>9. TypeOK'
  <2>1. wpc' \in [Workers -> {"recv", "batch", "exit"}]
    BY <1>0, <1>1 DEF TypeOK
  <2>2. Len(gradCh') <= GradPerWorker * W
    BY <1>2, <1>5, SizesAssumption
  <2> QED
    BY <1>0, <1>1, <1>5, <2>1, <2>2 DEF TypeOK, coordVars, aggVars
<1>10. CoordInv'
  BY <1>0, <1>1 DEF CoordInv, coordVars, aggVars
<1>11. WorkerInv'
  <2>1. \A v \in Workers : Given(v)' <=> Given(v)
    BY <1>1 DEF Given, coordVars
  <2> QED
    BY <1>0, <1>1, <1>2, <1>6, <1>8, <2>1 DEF WorkerInv, aggVars
<1>12. RowInv'
  BY <1>0, <1>1, <1>2, <1>6, <1>7, <1>8 DEF RowInv
<1>13. ChannelInv'
  <2>1. w \notin doneBy
    BY <1>2 DEF Finished
  <2>2. \A i \in 1 .. Len(gradCh) : gradCh[i].from \in Workers
    BY <1>0, MessageFacts
  <2>3. \A i \in 1 .. Len(gradCh') : i \in 1 .. Len(gradCh) \/ i = Len(gradCh) + 1
    BY <1>5
  <2>4. \A i \in 1 .. Len(gradCh') :
          /\ gradCh'[i].from \in Workers
          /\ gradCh'[i].from = w \/ wpc[gradCh'[i].from] = "batch" \/ Finished(gradCh'[i].from)
          /\ gradCh'[i].from \notin doneBy
          /\ gradCh'[i].rows \subseteq PartitionOf(gradCh'[i].from)
          /\ gradCh'[i].n = Cardinality(gradCh'[i].rows)
          /\ gradCh'[i].kind = "grad" => gradCh'[i].theta = aggTheta
          /\ gradCh'[i].kind = "done" => gradCh'[i].rows = {}
    <3> SUFFICES ASSUME NEW i \in 1 .. Len(gradCh')
                 PROVE  /\ gradCh'[i].from \in Workers
                        /\ \/ gradCh'[i].from = w
                           \/ wpc[gradCh'[i].from] = "batch"
                           \/ Finished(gradCh'[i].from)
                        /\ gradCh'[i].from \notin doneBy
                        /\ gradCh'[i].rows \subseteq PartitionOf(gradCh'[i].from)
                        /\ gradCh'[i].n = Cardinality(gradCh'[i].rows)
                        /\ gradCh'[i].kind = "grad" => gradCh'[i].theta = aggTheta
                        /\ gradCh'[i].kind = "done" => gradCh'[i].rows = {}
      OBVIOUS
    <3>1. CASE i \in 1 .. Len(gradCh)
      BY <1>0, <1>5, <2>2, <3>1 DEF ChannelInv
    <3>2. CASE i = Len(gradCh) + 1
      BY <1>3, <1>5, <2>1, <3>2, FS_EmptySet
    <3> QED
      BY <2>3, <3>1, <3>2
  <2>5. \A i, j \in 1 .. Len(gradCh') : i < j =>
          /\ gradCh'[i].rows \cap gradCh'[j].rows = {}
          /\ gradCh'[i].kind = "done" => gradCh'[j].from # gradCh'[i].from
    <3> SUFFICES ASSUME NEW i \in 1 .. Len(gradCh'), NEW j \in 1 .. Len(gradCh'), i < j
                 PROVE  /\ gradCh'[i].rows \cap gradCh'[j].rows = {}
                        /\ gradCh'[i].kind = "done" => gradCh'[j].from # gradCh'[i].from
      OBVIOUS
    <3>1. i \in 1 .. Len(gradCh)
      BY <1>5
    <3>2. CASE j \in 1 .. Len(gradCh)
      BY <1>0, <1>5, <3>1, <3>2 DEF ChannelInv
    <3>3. CASE j = Len(gradCh) + 1
      <4>1. gradCh[i].kind = "done" => gradCh[i].from # w
        BY <1>2, <3>1 DEF Finished
      <4> QED
        BY <1>3, <1>5, <3>1, <3>3, <4>1
    <3> QED
      BY <2>3, <3>2, <3>3
  <2> QED
    BY <1>1, <1>6, <1>8, <2>4, <2>5 DEF ChannelInv, aggVars
<1>14. SumInv'
  BY <1>0, <1>1, <1>7 DEF SumInv, aggVars, Summed
<1>15. LossInv'
  BY <1>0, <1>1 DEF LossInv, LastTheta, aggVars, coordVars, StepFrom
<1> QED
  BY <1>9, <1>10, <1>11, <1>12, <1>13, <1>14, <1>15 DEF IInv

--------------------------------------------------------------------------------
(***************************************************************************)
(* The aggregator's steps.                                                 *)
(***************************************************************************)

(***************************************************************************)
(* The channel after its first message is received.                        *)
(***************************************************************************)
LEMMA ReceiveFacts ==
  ASSUME TypeOK, gradCh # <<>>, gradCh' = Tail(gradCh)
  PROVE  /\ Len(gradCh) \in Nat /\ Len(gradCh) > 0
         /\ Head(gradCh) = gradCh[1]
         /\ gradCh' \in Seq(MessageType)
         /\ Len(gradCh') = Len(gradCh) - 1
         /\ \A i \in 1 .. Len(gradCh') : i + 1 \in 1 .. Len(gradCh) /\ gradCh'[i] = gradCh[i + 1]
         /\ \A i \in 1 .. Len(gradCh) :
              i # 1 => i - 1 \in 1 .. Len(gradCh') /\ gradCh[i] = gradCh'[i - 1]
<1>1. gradCh \in Seq(MessageType)
  BY DEF TypeOK
<1>2. /\ gradCh' \in Seq(MessageType)
      /\ Len(gradCh') = Len(gradCh) - 1
      /\ \A i \in 1 .. Len(gradCh') : gradCh'[i] = gradCh[i + 1]
  BY <1>1, HeadTailProperties
<1>3. Len(gradCh) \in Nat /\ Len(gradCh) > 0 /\ Head(gradCh) = gradCh[1]
  BY <1>1
<1>4. \A i \in 1 .. Len(gradCh) :
        i # 1 => i - 1 \in 1 .. Len(gradCh') /\ gradCh[i] = gradCh'[i - 1]
  <2> SUFFICES ASSUME NEW i \in 1 .. Len(gradCh), i # 1
               PROVE  i - 1 \in 1 .. Len(gradCh') /\ gradCh[i] = gradCh'[i - 1]
    OBVIOUS
  <2>1. i - 1 \in 1 .. Len(gradCh') /\ (i - 1) + 1 = i
    BY <1>2, <1>3
  <2> QED
    BY <1>2, <2>1
<1> QED
  BY <1>2, <1>3, <1>4

(***************************************************************************)
(* Receiving a message preserves what ChannelInv says of the others, for   *)
(* the message's worker is done only if no other message is from it.       *)
(***************************************************************************)
LEMMA ReceiveChannelInv ==
  ASSUME TypeOK, ChannelInv, gradCh # <<>>, gradCh' = Tail(gradCh),
         UNCHANGED <<wpc, aggTheta>>,
         \A v \in Workers : Finished(v)' <=> Finished(v),
         doneBy' \subseteq doneBy \union {gradCh[1].from},
         gradCh[1].kind # "done" => doneBy' = doneBy
  PROVE  ChannelInv'
<1>1. \A i \in 1 .. Len(gradCh) : gradCh[i].from \in Workers
  BY MessageFacts
<1>2. \A i \in 1 .. Len(gradCh') :
        /\ wpc'[gradCh'[i].from] = "batch" \/ Finished(gradCh'[i].from)
        /\ gradCh'[i].from \in Workers
        /\ gradCh'[i].from \notin doneBy'
        /\ gradCh'[i].rows \subseteq PartitionOf(gradCh'[i].from)
        /\ gradCh'[i].n = Cardinality(gradCh'[i].rows)
        /\ gradCh'[i].kind = "grad" => gradCh'[i].theta = aggTheta
        /\ gradCh'[i].kind = "done" => gradCh'[i].rows = {}
  <2> SUFFICES ASSUME NEW i \in 1 .. Len(gradCh')
               PROVE  /\ wpc'[gradCh'[i].from] = "batch" \/ Finished(gradCh'[i].from)
                      /\ gradCh'[i].from \in Workers
                      /\ gradCh'[i].from \notin doneBy'
                      /\ gradCh'[i].rows \subseteq PartitionOf(gradCh'[i].from)
                      /\ gradCh'[i].n = Cardinality(gradCh'[i].rows)
                      /\ gradCh'[i].kind = "grad" => gradCh'[i].theta = aggTheta
                      /\ gradCh'[i].kind = "done" => gradCh'[i].rows = {}
    OBVIOUS
  <2>1. /\ i + 1 \in 1 .. Len(gradCh) /\ 1 \in 1 .. Len(gradCh) /\ 1 < i + 1
        /\ gradCh'[i] = gradCh[i + 1]
    BY ReceiveFacts
  <2>2. gradCh[1].kind = "done" => gradCh[i + 1].from # gradCh[1].from
    BY <2>1 DEF ChannelInv
  <2>3. gradCh[i + 1].from \notin doneBy'
    BY <2>1, <2>2 DEF ChannelInv
  <2> QED
    BY <1>1, <2>1, <2>3 DEF ChannelInv
<1>3. \A i, j \in 1 .. Len(gradCh') : i < j =>
        /\ gradCh'[i].rows \cap gradCh'[j].rows = {}
        /\ gradCh'[i].kind = "done" => gradCh'[j].from # gradCh'[i].from
  <2> SUFFICES ASSUME NEW i \in 1 .. Len(gradCh'), NEW j \in 1 .. Len(gradCh'), i < j
               PROVE  /\ gradCh'[i].rows \cap gradCh'[j].rows = {}
                      /\ gradCh'[i].kind = "done" => gradCh'[j].from # gradCh'[i].from
    OBVIOUS
  <2>1. /\ i + 1 \in 1 .. Len(gradCh) /\ gradCh'[i] = gradCh[i + 1]
        /\ j + 1 \in 1 .. Len(gradCh) /\ gradCh'[j] = gradCh[j + 1]
        /\ i + 1 < j + 1
    BY ReceiveFacts
  <2> QED
    BY <2>1 DEF ChannelInv
<1> QED
  BY <1>2, <1>3 DEF ChannelInv

LEMMA ReceiveGradIInv == IInv /\ ReceiveGrad => IInv'
<1> SUFFICES ASSUME IInv, ReceiveGrad PROVE IInv'
  OBVIOUS
<1>0. TypeOK /\ CoordInv /\ WorkerInv /\ RowInv /\ ChannelInv /\ SumInv /\ LossInv
  BY DEF IInv
<1> DEFINE m == gradCh[1]
<1>1. /\ apc = "collect" /\ gradCh # <<>> /\ gradCh' = Tail(gradCh)
      /\ m.kind = "grad"
      /\ accumGrad' = AddTerms(accumGrad, m)
      /\ totalN' = totalN + m.n
      /\ UNCHANGED <<coordVars, paramCh, closed, epochResultCh, workerVars,
                     apc, iter, aggTheta, doneCount, doneBy>>
  BY <1>0, ReceiveFacts DEF ReceiveGrad
<1>2. /\ Len(gradCh) \in Nat /\ 1 \in 1 .. Len(gradCh)
      /\ gradCh' \in Seq(MessageType) /\ Len(gradCh') = Len(gradCh) - 1
      /\ \A i \in 1 .. Len(gradCh') : i + 1 \in 1 .. Len(gradCh) /\ gradCh'[i] = gradCh[i + 1]
      /\ \A i \in 1 .. Len(gradCh) :
           i # 1 => i - 1 \in 1 .. Len(gradCh') /\ gradCh[i] = gradCh'[i - 1]
  BY <1>0, <1>1, ReceiveFacts
<1>3. /\ m.rows \subseteq Rows /\ m.theta = aggTheta /\ m.n = Cardinality(m.rows) /\ m.n \in Nat
  BY <1>0, <1>1, <1>2, MessageFacts DEF ChannelInv
<1>4. \A r \in m.rows : Queued(r) /\ ~Summed(r)
  BY <1>0, <1>2, <1>3 DEF Queued, SumInv
<1>5. \A v \in Workers : Finished(v)' <=> Finished(v)
  BY <1>1, <1>2 DEF Finished
<1>6. \A r : Queued(r)' <=> Queued(r) /\ r \notin m.rows
  <2>1. ASSUME NEW r, Queued(r)' PROVE Queued(r) /\ r \notin m.rows
    <3>1. PICK i \in 1 .. Len(gradCh') : r \in gradCh'[i].rows
      BY <2>1 DEF Queued
    <3>2. i + 1 \in 1 .. Len(gradCh) /\ r \in gradCh[i + 1].rows /\ 1 < i + 1
      BY <1>2, <3>1
    <3> QED
      BY <1>0, <1>2, <3>2 DEF Queued, ChannelInv
  <2>2. ASSUME NEW r, Queued(r), r \notin m.rows PROVE Queued(r)'
    BY <1>2, <2>2 DEF Queued
  <2> QED
    BY <2>1, <2>2
<1>7. \A r \in Rows : accumGrad'[r] = IF r \in m.rows THEN <<aggTheta>> ELSE accumGrad[r]
  <2> SUFFICES ASSUME NEW r \in Rows
               PROVE  accumGrad'[r] = IF r \in m.rows THEN <<aggTheta>> ELSE accumGrad[r]
    OBVIOUS
  <2>1. accumGrad'[r] = IF r \in m.rows THEN Append(accumGrad[r], aggTheta) ELSE accumGrad[r]
    BY <1>1, <1>3 DEF AddTerms
  <2>2. r \in m.rows => accumGrad[r] = <<>>
    BY <1>4 DEF Summed
  <2>3. Append(<<>>, aggTheta) = <<aggTheta>>
    OBVIOUS
  <2> QED
    BY <2>1, <2>2, <2>3
<1>8. \A r \in Rows : Summed(r)' <=> Summed(r) \/ r \in m.rows
  BY <1>7 DEF Summed
<1>9. TypeOK'
  <2>1. accumGrad' \in [Rows -> Seq(Theta)]
    <3>1. accumGrad' = [r \in Rows |-> accumGrad'[r]]
      BY <1>1 DEF AddTerms
    <3>2. <<aggTheta>> \in Seq(Theta) /\ \A r \in Rows : accumGrad[r] \in Seq(Theta)
      BY <1>0 DEF TypeOK
    <3>3. \A r \in Rows : accumGrad'[r] \in Seq(Theta)
      BY <1>7, <3>2
    <3> QED
      BY <3>1, <3>3
  <2>2. totalN' \in Nat
    BY <1>0, <1>1, <1>3 DEF TypeOK
  <2>3. Len(gradCh') <= GradPerWorker * W
    BY <1>0, <1>2, SizesAssumption, SMTT(30) DEF TypeOK
  <2> QED
    BY <1>0, <1>1, <1>2, <2>1, <2>2, <2>3 DEF TypeOK, coordVars, workerVars
<1>10. CoordInv'
  BY <1>0, <1>1 DEF CoordInv, coordVars
<1>11. WorkerInv'
  <2>1. \A v \in Workers : Given(v)' <=> Given(v)
    BY <1>1 DEF Given, coordVars
  <2> QED
    BY <1>0, <1>1, <1>5, <2>1 DEF WorkerInv, workerVars
<1>12. RowInv'
  <2>1. \A v \in Workers : PartitionOf(v) \subseteq Rows
    BY PartitionFacts
  <2>2. \A r \in Rows : Queued(r)' \/ Summed(r)' <=> Queued(r) \/ Summed(r)
    BY <1>4, <1>6, <1>8
  <2> QED
    BY <1>0, <1>1, <1>5, <2>1, <2>2 DEF RowInv, workerVars
<1>13. ChannelInv'
  BY <1>0, <1>1, <1>5, ReceiveChannelInv DEF workerVars
<1>14. SumInv'
  <2>1. \A r \in Rows : Summed(r)' => ~Queued(r)' /\ accumGrad'[r] = <<aggTheta>>
    BY <1>0, <1>1, <1>6, <1>7, <1>8 DEF SumInv, Summed
  <2>2. totalN' = Cardinality({r \in Rows : Summed(r)'})
    <3> DEFINE S == {r \in Rows : Summed(r)}
    <3>1. {r \in Rows : Summed(r)'} = S \union m.rows
      BY <1>3, <1>8
    <3>2. IsFiniteSet(S) /\ IsFiniteSet(m.rows)
      BY <1>3, FiniteFacts, FS_Subset
    <3>3. S \cap m.rows = {}
      BY <1>4
    <3>4. Cardinality(S) \in Nat /\ Cardinality(m.rows) \in Nat
      BY <3>2, FS_CardinalityType
    <3>5. Cardinality(S \union m.rows) = Cardinality(S) + Cardinality(m.rows) - 0
      BY <3>2, <3>3, FS_Union, FS_EmptySet
    <3>6. totalN = Cardinality(S)
      BY <1>0 DEF SumInv
    <3> HIDE DEF S
    <3>7. totalN' = Cardinality(S \union m.rows)
      BY <1>1, <1>3, <3>4, <3>5, <3>6
    <3> QED
      BY <3>1, <3>7
  <2> QED
    BY <1>0, <1>1, <2>1, <2>2 DEF SumInv
<1>15. LossInv'
  BY <1>0, <1>1 DEF LossInv, LastTheta, coordVars, StepFrom
<1> QED
  BY <1>9, <1>10, <1>11, <1>12, <1>13, <1>14, <1>15 DEF IInv

LEMMA ReceiveDoneIInv == IInv /\ ReceiveDone => IInv'
<1> SUFFICES ASSUME IInv, ReceiveDone PROVE IInv'
  OBVIOUS
<1>0. TypeOK /\ CoordInv /\ WorkerInv /\ RowInv /\ ChannelInv /\ SumInv /\ LossInv
  BY DEF IInv
<1> DEFINE m == gradCh[1]
<1>1. /\ apc = "collect" /\ doneCount < W /\ gradCh # <<>> /\ gradCh' = Tail(gradCh)
      /\ m.kind = "done"
      /\ doneCount' = doneCount + 1
      /\ doneBy' = doneBy \union {m.from}
      /\ UNCHANGED <<coordVars, paramCh, closed, epochResultCh, workerVars,
                     apc, iter, aggTheta, accumGrad, totalN>>
  BY <1>0, ReceiveFacts DEF ReceiveDone, Collecting
<1>2. /\ Len(gradCh) \in Nat /\ 1 \in 1 .. Len(gradCh)
      /\ gradCh' \in Seq(MessageType) /\ Len(gradCh') = Len(gradCh) - 1
      /\ \A i \in 1 .. Len(gradCh') : i + 1 \in 1 .. Len(gradCh) /\ gradCh'[i] = gradCh[i + 1]
      /\ \A i \in 1 .. Len(gradCh) :
           i # 1 => i - 1 \in 1 .. Len(gradCh') /\ gradCh[i] = gradCh'[i - 1]
  BY <1>0, <1>1, ReceiveFacts
<1>3. m.from \in Workers /\ m.rows = {} /\ m.from \notin doneBy
  BY <1>0, <1>1, <1>2, MessageFacts DEF ChannelInv
<1>4. \A v \in Workers : Finished(v)' <=> Finished(v)
  <2> SUFFICES ASSUME NEW v \in Workers PROVE Finished(v)' <=> Finished(v)
    OBVIOUS
  <2>1. ASSUME NEW i \in 1 .. Len(gradCh), gradCh[i].kind = "done", gradCh[i].from = v
        PROVE  Finished(v)'
    <3>1. CASE i = 1
      BY <1>1, <2>1, <3>1 DEF Finished
    <3>2. CASE i # 1
      BY <1>2, <2>1, <3>2 DEF Finished
    <3> QED
      BY <3>1, <3>2
  <2>2. v \in doneBy => Finished(v)'
    BY <1>1 DEF Finished
  <2>3. v \in doneBy' => Finished(v)
    BY <1>1, <1>2 DEF Finished
  <2>4. ASSUME NEW i \in 1 .. Len(gradCh'), gradCh'[i].kind = "done", gradCh'[i].from = v
        PROVE  Finished(v)
    BY <1>2, <2>4 DEF Finished
  <2> QED
    BY <2>1, <2>2, <2>3, <2>4 DEF Finished
<1>5. \A r : (Queued(r)' <=> Queued(r)) /\ (Summed(r)' <=> Summed(r))
  <2>1. \A r : Summed(r)' <=> Summed(r)
    BY <1>1 DEF Summed
  <2>2. \A r : Queued(r)' <=> Queued(r)
    BY <1>2, <1>3 DEF Queued
  <2> QED
    BY <2>1, <2>2
<1>6. TypeOK'
  <2>1. doneCount' \in 0 .. W
    <3>1. W \in Nat /\ doneCount \in 0 .. W /\ doneCount < W /\ doneCount' = doneCount + 1
      BY <1>0, <1>1, SizesAssumption DEF TypeOK
    <3> QED
      BY <3>1
  <2>2. doneBy' \subseteq Workers
    BY <1>0, <1>1, <1>3 DEF TypeOK
  <2>3. Len(gradCh') <= GradPerWorker * W
    BY <1>0, <1>2, SizesAssumption, SMTT(30) DEF TypeOK
  <2> QED
    BY <1>0, <1>1, <1>2, <2>1, <2>2, <2>3 DEF TypeOK, coordVars, workerVars
<1>7. CoordInv'
  BY <1>0, <1>1 DEF CoordInv, coordVars
<1>8. WorkerInv'
  <2>1. \A v \in Workers : Given(v)' <=> Given(v)
    BY <1>1 DEF Given, coordVars
  <2> QED
    BY <1>0, <1>1, <1>4, <2>1 DEF WorkerInv, workerVars
<1>9. RowInv'
  BY <1>0, <1>1, <1>4, <1>5 DEF RowInv, workerVars
<1>10. ChannelInv'
  BY <1>0, <1>1, <1>4, ReceiveChannelInv DEF workerVars
<1>11. SumInv'
  <2>1. IsFiniteSet(doneBy)
    BY <1>0, FiniteFacts, FS_Subset DEF TypeOK
  <2>2. Cardinality(doneBy') = Cardinality(doneBy) + 1
    BY <1>1, <1>3, <2>1, FS_AddElement
  <2> QED
    BY <1>0, <1>1, <1>5, <2>2 DEF SumInv, Summed
<1>12. LossInv'
  BY <1>0, <1>1 DEF LossInv, LastTheta, coordVars, StepFrom
<1> QED
  BY <1>6, <1>7, <1>8, <1>9, <1>10, <1>11, <1>12 DEF IInv

(***************************************************************************)
(* Once every worker is done, nothing of the epoch is on the way.          *)
(***************************************************************************)
LEMMA AllDoneFacts ==
  ASSUME IInv, doneBy = Workers, apc # "exit"
  PROVE  /\ pc = "await" /\ epochResultCh = <<>>
         /\ gradCh = <<>>
         /\ \A w \in Workers : wpc[w] = "recv" /\ paramCh[w] = <<>>
         /\ \A r \in Rows : Summed(r)
<1>0. TypeOK /\ CoordInv /\ WorkerInv /\ RowInv /\ ChannelInv /\ SumInv /\ LossInv
  BY DEF IInv
<1>1. \A w \in Workers : Finished(w)
  BY DEF Finished
<1>2. \A w \in Workers : Given(w) /\ paramCh[w] = <<>> /\ wpc[w] # "batch"
  BY <1>0, <1>1 DEF WorkerInv
<1>3. next \in 0 .. W-1 /\ next \in Workers
  BY <1>0 DEF TypeOK, Workers
<1>4. pc = "await" /\ epochResultCh = <<>>
  BY <1>2, <1>3, SizesAssumption DEF Given
<1>5. \A w \in Workers : wpc[w] = "recv"
  <2>1. closed = {}
    BY <1>0, <1>4 DEF CoordInv
  <2> QED
    BY <1>0, <1>2, <2>1 DEF TypeOK, WorkerInv
<1>6. gradCh = <<>>
  <2>1. \A i \in 1 .. Len(gradCh) : FALSE
    BY <1>0, MessageFacts DEF ChannelInv
  <2>2. gradCh \in Seq(MessageType)
    BY <1>0 DEF TypeOK
  <2> QED
    BY <2>1, <2>2, EmptySeq
<1>7. \A r \in Rows : Summed(r)
  <2>1. \A r \in Rows : ~Queued(r)
    BY <1>6 DEF Queued
  <2>2. \A r \in Rows : \E w \in Workers : r \in PartitionOf(w)
    BY PartitionFacts
  <2> QED
    BY <1>0, <1>1, <1>2, <2>1, <2>2 DEF RowInv
<1> QED
  BY <1>2, <1>4, <1>5, <1>6, <1>7

(***************************************************************************)
(* The update is along the full gradient.                                  *)
(***************************************************************************)
LEMMA UpdateFacts ==
  ASSUME IInv, apc = "update"
  PROVE  /\ accumGrad = [r \in Rows |-> <<aggTheta>>]
         /\ totalN = N
<1>0. TypeOK /\ SumInv
  BY DEF IInv
<1>1. \A r \in Rows : Summed(r)
  BY <1>0, AllDoneFacts DEF SumInv
<1>2. accumGrad = [r \in Rows |-> <<aggTheta>>]
  BY <1>0, <1>1 DEF SumInv, TypeOK
<1>3. {r \in Rows : Summed(r)} = Rows
  BY <1>1
<1> QED
  BY <1>0, <1>2, <1>3, FiniteFacts DEF SumInv

LEMMA StartUpdateIInv == IInv /\ StartUpdate => IInv'
<1> SUFFICES ASSUME IInv, StartUpdate PROVE IInv'
  OBVIOUS
<1>0. TypeOK /\ CoordInv /\ WorkerInv /\ RowInv /\ ChannelInv /\ SumInv /\ LossInv
  BY DEF IInv
<1>1. /\ apc = "collect" /\ apc' = "update"
      /\ UNCHANGED <<coordVars, paramCh, closed, gradCh, epochResultCh, workerVars,
                     iter, aggTheta, accumGrad, totalN, doneCount, doneBy>>
  BY DEF StartUpdate
<1>2. doneBy = Workers
  <2>1. doneCount = W
    BY <1>0, SizesAssumption DEF StartUpdate, Collecting, TypeOK
  <2> QED
    BY <1>0, <2>1, FiniteFacts, FS_Subset DEF SumInv, TypeOK
<1>3. pc = "await" /\ epochResultCh = <<>>
  BY <1>1, <1>2, AllDoneFacts
<1>4. \A w \in Workers : Finished(w)' <=> Finished(w)
  BY <1>1 DEF Finished
<1>5. TypeOK'
  BY <1>0, <1>1 DEF TypeOK, coordVars, workerVars
<1>6. CoordInv'
  BY <1>0, <1>1, <1>3 DEF CoordInv, coordVars
<1>7. WorkerInv'
  <2>1. \A v \in Workers : Given(v)' <=> Given(v)
    BY <1>1 DEF Given, coordVars
  <2> QED
    BY <1>0, <1>1, <1>4, <2>1 DEF WorkerInv, workerVars
<1>8. RowInv'
  BY <1>0, <1>1, RowsUnchanged DEF workerVars
<1>9. ChannelInv'
  BY <1>0, <1>1, ChannelUnchanged DEF workerVars
<1>10. SumInv'
  BY <1>0, <1>1, <1>2 DEF SumInv, Queued, Summed
<1>11. LossInv'
  BY <1>0, <1>1 DEF LossInv, LastTheta, coordVars, StepFrom
<1> QED
  BY <1>5, <1>6, <1>7, <1>8, <1>9, <1>10, <1>11 DEF IInv

LEMMA FinishUpdateIInv == IInv /\ FinishUpdate => IInv'
<1> SUFFICES ASSUME IInv, FinishUpdate PROVE IInv'
  OBVIOUS
<1>0. TypeOK /\ CoordInv /\ WorkerInv /\ RowInv /\ ChannelInv /\ SumInv /\ LossInv
  BY DEF IInv
<1>1. /\ apc = "update" /\ apc' = "send"
      /\ aggTheta' = IF totalN > 0 THEN Update(aggTheta, accumGrad, totalN) ELSE aggTheta
      /\ UNCHANGED <<coordVars, paramCh, closed, gradCh, epochResultCh, workerVars,
                     iter, accumGrad, totalN, doneCount, doneBy>>
  BY DEF FinishUpdate
<1>2. doneBy = Workers
  BY <1>0, <1>1 DEF SumInv
<1>3. /\ pc = "await" /\ epochResultCh = <<>> /\ gradCh = <<>>
      /\ \A w \in Workers : wpc[w] = "recv" /\ paramCh[w] = <<>>
  BY <1>1, <1>2, AllDoneFacts
<1>4. aggTheta' = StepFrom(aggTheta)
  <2>1. accumGrad = [r \in Rows |-> <<aggTheta>>] /\ totalN = N
    BY <1>1, UpdateFacts
  <2>2. N > 0 <=> N # 0
    BY SizesAssumption
  <2> QED
    BY <1>1, <2>1, <2>2 DEF StepFrom
<1>5. aggTheta' \in Theta
  BY <1>0, <1>4, ThetaAssumption DEF StepFrom, TypeOK
<1>6. \A w \in Workers : Finished(w)' <=> Finished(w)
  BY <1>1 DEF Finished
<1>7. TypeOK'
  BY <1>0, <1>1, <1>5 DEF TypeOK, coordVars, workerVars
<1>8. CoordInv'
  BY <1>0, <1>1, <1>3 DEF CoordInv, coordVars
<1>9. WorkerInv'
  <2>1. \A v \in Workers : Given(v)' <=> Given(v)
    BY <1>1 DEF Given, coordVars
  <2> QED
    BY <1>0, <1>1, <1>3, <1>6, <2>1 DEF WorkerInv, workerVars
<1>10. RowInv'
  BY <1>0, <1>1, RowsUnchanged DEF workerVars
<1>11. ChannelInv'
  BY <1>1, <1>3 DEF ChannelInv
<1>12. SumInv'
  BY <1>0, <1>1, <1>2 DEF SumInv, Queued, Summed
<1>13. LossInv'
  BY <1>0, <1>1, <1>3, <1>4 DEF LossInv, LastTheta, coordVars
<1> QED
  BY <1>7, <1>8, <1>9, <1>10, <1>11, <1>12, <1>13 DEF IInv

LEMMA SendResultIInv == IInv /\ SendResult => IInv'
<1> SUFFICES ASSUME IInv, SendResult PROVE IInv'
  OBVIOUS
<1>0. TypeOK /\ CoordInv /\ WorkerInv /\ RowInv /\ ChannelInv /\ SumInv /\ LossInv
  BY DEF IInv
<1>1. /\ apc = "send" /\ epochResultCh = <<>>
      /\ epochResultCh' = <<aggTheta>>
      /\ iter' = iter + 1
      /\ apc' = IF iter = Epochs THEN "exit" ELSE "collect"
      /\ accumGrad' = NoTerms /\ totalN' = 0 /\ doneCount' = 0 /\ doneBy' = {}
      /\ UNCHANGED <<coordVars, paramCh, closed, gradCh, workerVars, aggTheta>>
  BY DEF SendResult, ResetAccumulators, LastIteration
<1>2. /\ pc = "await" /\ gradCh = <<>>
      /\ \A w \in Workers : wpc[w] = "recv" /\ paramCh[w] = <<>>
  BY <1>0, <1>1, AllDoneFacts DEF SumInv
<1>3. iter = epoch /\ epoch <= Epochs /\ epoch \in Nat /\ Epochs \in Nat /\ epoch >= 1
  BY <1>0, <1>1, <1>2, SizesAssumption DEF CoordInv, TypeOK
<1>4. \A w \in Workers : ~Finished(w)' /\ ~Given(w)'
  BY <1>1, <1>2 DEF Finished, Given, coordVars
<1>5. \A r \in Rows : ~Queued(r)' /\ ~Summed(r)'
  BY <1>1, <1>2 DEF Queued, Summed, NoTerms
<1>6. TypeOK'
  <2>1. iter' \in 1 .. Epochs+1
    BY <1>1, <1>3
  <2>2. epochResultCh' \in Seq(Theta) /\ Len(epochResultCh') <= 1
    BY <1>0, <1>1 DEF TypeOK
  <2>3. accumGrad' \in [Rows -> Seq(Theta)]
    BY <1>1 DEF NoTerms
  <2>4. totalN' \in Nat /\ doneCount' \in 0 .. W /\ doneBy' \subseteq Workers
    BY <1>1, SizesAssumption
  <2>5. apc' \in {"collect", "update", "send", "exit"}
    BY <1>1
  <2> QED
    BY <1>0, <1>1, <2>1, <2>2, <2>3, <2>4, <2>5 DEF TypeOK, coordVars, workerVars
<1>7. CoordInv'
  BY <1>0, <1>1, <1>2, <1>3 DEF CoordInv, coordVars
<1>8. WorkerInv'
  BY <1>1, <1>2, <1>4 DEF WorkerInv, workerVars
<1>9. RowInv'
  <2>1. \A w \in Workers : PartitionOf(w) \subseteq Rows
    BY PartitionFacts
  <2> QED
    BY <1>0, <1>1, <1>2, <1>4, <1>5, <2>1 DEF RowInv, workerVars
<1>10. ChannelInv'
  BY <1>1, <1>2 DEF ChannelInv
<1>11. SumInv'
  <2>1. {r \in Rows : Summed(r)'} = {}
    BY <1>5
  <2> QED
    BY <1>1, <1>5, <2>1, FS_EmptySet DEF SumInv
<1>12. LossInv'
  BY <1>0, <1>1 DEF LossInv, LastTheta, coordVars, StepFrom
<1> QED
  BY <1>6, <1>7, <1>8, <1>9, <1>10, <1>11, <1>12 DEF IInv

--------------------------------------------------------------------------------
(***************************************************************************)
(* IInv is an invariant: it holds initially and every step preserves it.   *)
(***************************************************************************)
LEMMA StutterIInv == IInv /\ UNCHANGED vars => IInv'
<1> SUFFICES ASSUME IInv, UNCHANGED vars PROVE IInv'
  OBVIOUS
<1>0. TypeOK /\ CoordInv /\ WorkerInv /\ RowInv /\ ChannelInv /\ SumInv /\ LossInv
  BY DEF IInv
<1>1. UNCHANGED <<coordVars, paramCh, closed, gradCh, epochResultCh, workerVars, aggVars>>
  BY DEF vars
<1>2. TypeOK'
  BY <1>0, <1>1 DEF TypeOK, coordVars, workerVars, aggVars
<1>3. CoordInv'
  BY <1>0, <1>1 DEF CoordInv, coordVars, aggVars
<1>4. WorkerInv'
  BY <1>0, <1>1 DEF WorkerInv, Given, Finished, coordVars, workerVars, aggVars
<1>5. RowInv'
  BY <1>0, <1>1, RowsUnchanged DEF workerVars, aggVars
<1>6. ChannelInv'
  BY <1>0, <1>1, ChannelUnchanged DEF workerVars, aggVars
<1>7. SumInv'
  BY <1>0, <1>1, SumUnchanged DEF aggVars
<1>8. LossInv'
  BY <1>0, <1>1 DEF LossInv, LastTheta, StepFrom, coordVars, aggVars
<1> QED
  BY <1>2, <1>3, <1>4, <1>5, <1>6, <1>7, <1>8 DEF IInv

LEMMA NextIInv == IInv /\ [Next]_vars => IInv'
<1> SUFFICES ASSUME IInv, [Next]_vars PROVE IInv'
  OBVIOUS
<1>1. CASE CoordNext
  BY <1>1, BroadcastIInv, AwaitResultIInv, CloseParamIInv DEF CoordNext
<1>2. ASSUME NEW w \in Workers, WorkerNext(w) PROVE IInv'
  BY <1>2, ReceiveParamIInv, ExitWorkerIInv, SendGradIInv, SendDoneIInv DEF WorkerNext
<1>3. CASE AggNext
  BY <1>3, ReceiveGradIInv, ReceiveDoneIInv, StartUpdateIInv, FinishUpdateIInv,
     SendResultIInv DEF AggNext
<1>4. CASE UNCHANGED vars
  BY <1>4, StutterIInv
<1> QED
  BY <1>1, <1>2, <1>3, <1>4 DEF Next, Terminated

(***************************************************************************)
(* The counts, queues and sums of Train, its workers and its aggregator    *)
(* (sgd.go:72-330) agree as IInv says, in every reachable state.           *)
(***************************************************************************)
THEOREM InductiveInvariant == Spec => []IInv
  BY InitIInv, NextIInv, PTL DEF Spec

(***************************************************************************)
(* Type correctness.                                                       *)
(***************************************************************************)
THEOREM TypeCorrect == Spec => []TypeOK
<1>1. IInv => TypeOK
  BY DEF IInv
<1> QED
  BY <1>1, InductiveInvariant, PTL

(***************************************************************************)
(* The aggregator never overwrites theta while the coordinator may read    *)
(* the same array (sgd.go:62).                                             *)
(***************************************************************************)
THEOREM RaceFree == Spec => []NoThetaRace
<1>1. IInv => NoThetaRace
  BY DEF IInv, CoordInv, NoThetaRace
<1> QED
  BY <1>1, InductiveInvariant, PTL

(***************************************************************************)
(* When theta is updated, no worker still has anything of the epoch to     *)
(* compute or to send (the barrier of kindDone messages, sgd.go:252).      *)
(***************************************************************************)
THEOREM BarrierHolds == Spec => []EpochBarrier
<1>1. IInv => EpochBarrier
  <2> SUFFICES ASSUME IInv, apc \in {"update", "send"}
               PROVE  /\ gradCh = <<>>
                      /\ \A w \in Workers : wpc[w] = "recv" /\ paramCh[w] = <<>>
    BY DEF EpochBarrier
  <2>1. doneBy = Workers
    BY DEF IInv, SumInv
  <2> QED
    BY <2>1, AllDoneFacts
<1> QED
  BY <1>1, InductiveInvariant, PTL

(***************************************************************************)
(* Whatever the batches and the interleaving, an update is along the       *)
(* gradient of every row, each counted once, at the theta to be updated.   *)
(***************************************************************************)
THEOREM GradientIsFull == Spec => []FullGradientApplied
<1>1. IInv => FullGradientApplied
  BY UpdateFacts DEF FullGradientApplied
<1> QED
  BY <1>1, InductiveInvariant, PTL

(***************************************************************************)
(* kindDone is a worker's last message of the epoch (sgd.go:50).           *)
(***************************************************************************)
THEOREM DoneComesLast == Spec => []DoneIsLast
<1>1. IInv => DoneIsLast
  BY DEF IInv, ChannelInv, DoneIsLast
<1> QED
  BY <1>1, InductiveInvariant, PTL

(***************************************************************************)
(* The broadcast and the send of a result find their channels empty        *)
(* (sgd.go:123).                                                           *)
(***************************************************************************)
THEOREM NoBlockedBroadcast == Spec => []BroadcastNeverBlocks
<1>1. IInv => BroadcastNeverBlocks
  <2>1. ASSUME IInv, pc = "broadcast" PROVE paramCh[next] = <<>>
    <3>1. next \in Workers /\ next \in 0 .. W-1
      BY <2>1 DEF IInv, TypeOK, Workers
    <3>2. ~Given(next)
      BY <2>1, <3>1, SizesAssumption DEF Given
    <3> QED
      BY <2>1, <3>1, <3>2 DEF IInv, WorkerInv
  <2>2. ASSUME IInv, apc = "send" PROVE epochResultCh = <<>>
    <3>1. doneBy = Workers
      BY <2>2 DEF IInv, SumInv
    <3> QED
      BY <2>2, <3>1, AllDoneFacts
  <2> QED
    BY <2>1, <2>2 DEF BroadcastNeverBlocks
<1> QED
  BY <1>1, InductiveInvariant, PTL

--------------------------------------------------------------------------------
(***************************************************************************)
(* The refinement.  trajectory and result stand for what GradientDescent's *)
(* variables are mapped to.                                                *)
(***************************************************************************)
Trajectory == <<Zero>> \o lossHistory
Result     == IF pc = "returned" THEN <<CoordTheta>> ELSE <<>>

LEMMA TrajectoryFacts ==
  ASSUME TypeOK
  PROVE  /\ Trajectory \in Seq(Theta)
         /\ Len(Trajectory) = Len(lossHistory) + 1
         /\ Trajectory[Len(Trajectory)] = LastTheta
<1>1. <<Zero>> \in Seq(Theta) /\ Len(<<Zero>>) = 1 /\ <<Zero>>[1] = Zero
  BY ThetaAssumption
<1>2. lossHistory \in Seq(Theta) /\ Len(lossHistory) \in Nat
  BY DEF TypeOK
<1>3. /\ Trajectory \in Seq(Theta)
      /\ Len(Trajectory) = 1 + Len(lossHistory)
      /\ \A i \in 1 .. 1 + Len(lossHistory) :
           Trajectory[i] = IF i <= 1 THEN <<Zero>>[i] ELSE lossHistory[i - 1]
  BY <1>1, <1>2, ConcatProperties DEF Trajectory
<1>4. CASE lossHistory = <<>>
  BY <1>1, <1>2, <1>3, <1>4 DEF LastTheta
<1>5. CASE lossHistory # <<>>
  <2>1. Len(lossHistory) > 0
    BY <1>2, <1>5, EmptySeq
  <2>2. 1 + Len(lossHistory) \in 1 .. 1 + Len(lossHistory)
    BY <1>2
  <2>3. Trajectory[1 + Len(lossHistory)] = lossHistory[Len(lossHistory)]
    BY <1>2, <1>3, <2>1, <2>2
  <2> QED
    BY <1>2, <1>3, <1>5, <2>3 DEF LastTheta
<1> QED
  BY <1>2, <1>3, <1>4, <1>5

LEMMA RefinesInit == Init => GD!Init
<1> SUFFICES ASSUME Init PROVE GD!Init
  OBVIOUS
<1>1. <<Zero>> \o <<>> = <<Zero>>
  BY ThetaAssumption, ConcatEmptySeq
<1> QED
  BY <1>1 DEF Init, GD!Init

LEMMA AwaitResultIsEpoch == IInv /\ AwaitResult => GD!Epoch
<1> SUFFICES ASSUME IInv, AwaitResult PROVE GD!Epoch
  OBVIOUS
<1>0. TypeOK /\ CoordInv /\ LossInv
  BY DEF IInv
<1>1. /\ pc = "await" /\ epochResultCh = <<aggTheta>> /\ pc' # "returned"
      /\ lossHistory' = Append(lossHistory, aggTheta)
  <2>1. pc = "await" /\ epochResultCh = <<aggTheta>>
    BY <1>0 DEF AwaitResult, CoordInv
  <2>2. Head(<<aggTheta>>) = aggTheta
    OBVIOUS
  <2> QED
    BY <2>1, <2>2 DEF AwaitResult
<1>2. /\ Len(Trajectory) = epoch /\ epoch <= Epochs
      /\ Trajectory[Len(Trajectory)] = LastTheta
  BY <1>0, <1>1, TrajectoryFacts DEF LossInv, CoordInv, TypeOK
<1>3. <<Zero>> \o lossHistory' = Append(Trajectory, aggTheta)
  <2>1. /\ <<Zero>> \in Seq(Theta) /\ lossHistory \in Seq(Theta) /\ aggTheta \in Theta
    BY <1>0, ThetaAssumption DEF TypeOK
  <2> QED
    BY <1>1, <2>1 DEF Trajectory
<1>4. aggTheta = StepFrom(LastTheta)
  BY <1>0, <1>1 DEF LossInv
<1>5. StepFrom(LastTheta) = GD!Descend(LastTheta)
  BY DEF StepFrom, GD!Descend, GD!FullGradient, Rows
<1> QED
  BY <1>1, <1>2, <1>3, <1>4, <1>5 DEF GD!Epoch, GD!Current, Trajectory

LEMMA CloseParamIsReturn ==
  IInv /\ CloseParam => GD!Return \/ UNCHANGED <<Trajectory, Result>>
<1> SUFFICES ASSUME IInv, CloseParam PROVE GD!Return \/ UNCHANGED <<Trajectory, Result>>
  OBVIOUS
<1>0. TypeOK /\ CoordInv /\ LossInv
  BY DEF IInv
<1>1. pc = "close" /\ UNCHANGED <<lossHistory, theta, aliased, aggTheta>>
  BY DEF CloseParam, aggVars
<1>2. UNCHANGED Trajectory
  BY <1>1 DEF Trajectory
<1>3. CASE pc' = "returned"
  <2>1. /\ ~aliased' /\ theta' = aggTheta /\ epoch = Epochs + 1
        /\ apc # "send" /\ epochResultCh = <<>>
    BY <1>0, <1>1 DEF CoordInv
  <2>2. aggTheta = LastTheta /\ Len(lossHistory) = epoch - 1
    BY <1>0, <2>1 DEF LossInv
  <2>3. Len(Trajectory) = Epochs + 1 /\ Trajectory[Len(Trajectory)] = aggTheta
    BY <1>0, <2>1, <2>2, TrajectoryFacts, SizesAssumption DEF TypeOK
  <2> QED
    BY <1>1, <1>2, <1>3, <2>1, <2>3
       DEF GD!Return, GD!Current, Trajectory, CoordTheta
<1>4. CASE pc' # "returned"
  BY <1>1, <1>2, <1>4 DEF Result
<1> QED
  BY <1>3, <1>4

(***************************************************************************)
(* No other step shows in GradientDescent.                                 *)
(***************************************************************************)
LEMMA OthersStutter ==
  ASSUME IInv, UNCHANGED <<pc, theta, aliased, lossHistory>>
  PROVE  UNCHANGED <<Trajectory, Result>>
<1>1. pc = "returned" => ~aliased
  BY DEF IInv, CoordInv
<1> QED
  BY <1>1 DEF Trajectory, Result, CoordTheta

LEMMA RefinesNext == IInv /\ [Next]_vars => [GD!Next]_<<Trajectory, Result>>
<1> SUFFICES ASSUME IInv, [Next]_vars
             PROVE  GD!Next \/ UNCHANGED <<Trajectory, Result>>
  OBVIOUS
<1>1. CASE AwaitResult
  BY <1>1, AwaitResultIsEpoch DEF GD!Next
<1>2. CASE CloseParam
  BY <1>2, CloseParamIsReturn DEF GD!Next
<1>3. CASE Broadcast
  <2>1. pc = "broadcast" /\ pc' # "returned" /\ UNCHANGED lossHistory
    BY <1>3 DEF Broadcast
  <2> QED
    BY <2>1 DEF Trajectory, Result
<1>4. ASSUME NEW w \in Workers, WorkerNext(w)
      PROVE  UNCHANGED <<Trajectory, Result>>
  <2>1. UNCHANGED coordVars
    BY <1>4 DEF WorkerNext, ReceiveParam, ExitWorker, SendGrad, SendDone
  <2> QED
    BY <2>1, OthersStutter DEF coordVars
<1>5. CASE AggNext
  <2>1. UNCHANGED coordVars
    BY <1>5 DEF AggNext, ReceiveGrad, ReceiveDone, StartUpdate, FinishUpdate, SendResult
  <2> QED
    BY <2>1, OthersStutter DEF coordVars
<1>6. CASE UNCHANGED vars
  BY <1>6, OthersStutter DEF vars, coordVars
<1> QED
  BY <1>1, <1>2, <1>3, <1>4, <1>5, <1>6 DEF Next, CoordNext, Terminated

(***************************************************************************)
(* Local training takes only the steps of batch gradient descent: the      *)
(* recorded losses are those of its thetas, and the model has the last     *)
(* (Train, sgd.go:144-185).                                                *)
(***************************************************************************)
THEOREM RefinesGradientDescent == Spec => GD!Spec
<1>1. [GD!Next]_<<Trajectory, Result>> => [GD!Next]_(GD!gdVars)
  BY DEF GD!gdVars, Trajectory, Result
<1> QED
  BY <1>1, RefinesInit, RefinesNext, InductiveInvariant, PTL DEF Spec, GD!Spec

================================================================================
