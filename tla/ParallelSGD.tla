------------------------------ MODULE ParallelSGD ------------------------------
(***************************************************************************)
(* Local training (internal/model/sgd.go, Train): a coordinator, W worker  *)
(* goroutines and one aggregator joined by bounded channels.               *)
(*                                                                         *)
(*   coordinator --paramCh[w]--> worker w --gradCh--> aggregator           *)
(*        ^------------------ epochResultCh ---------------'               *)
(*                                                                         *)
(* A goroutine's step is one channel operation with the local computation  *)
(* before or after it.  The aggregator's in-place update of theta takes    *)
(* two steps, so that a read of the same array in between would show.      *)
(* The random order of a worker's rows is abstracted: a mini-batch of a    *)
(* shuffled partition is any subset of the rows the worker has left.       *)
(***************************************************************************)
EXTENDS Integers, Sequences, FiniteSets, Partitions

CONSTANTS
  N,             \* rows of X, the training matrix
  W,             \* opts.Workers
  BatchSize,     \* opts.BatchSize
  Epochs,        \* opts.Epochs
  GradPerWorker, \* capacity of gradCh per worker (4 in the code)
  Theta,         \* parameter vectors
  Zero,          \* the zero vector
  Update(_,_,_)  \* theta - lr * grad / n, the terms of grad kept apart

Workers == 0 .. W-1
Rows    == 0 .. N-1

(***************************************************************************)
(* setDefaults makes Workers, Epochs and BatchSize positive; N may be 0,   *)
(* when the split leaves the training set empty.                           *)
(***************************************************************************)
ASSUME SizesAssumption ==
  /\ N \in Nat
  /\ W \in Nat \ {0}
  /\ BatchSize \in Nat \ {0}
  /\ Epochs \in Nat \ {0}
  /\ GradPerWorker \in Nat \ {0}

ASSUME ThetaAssumption ==
  /\ Zero \in Theta
  /\ \A t \in Theta : Update(t, [r \in Rows |-> <<t>>], N) \in Theta

VARIABLES
  pc,            \* coordinator: "broadcast", "await", "close", "returned"
  epoch,         \* coordinator: the epoch of the loop, from 1
  next,          \* coordinator: the worker of its next send or close
  theta,         \* coordinator: the array its theta points to, once its own
  aliased,       \* its theta still is the array given to the aggregator
  lossHistory,   \* the theta each recorded MSE was computed from
  paramCh,       \* one channel of capacity 1 per worker
  closed,        \* workers whose paramCh is closed
  gradCh,        \* channel of capacity GradPerWorker * W
  epochResultCh, \* channel of capacity 1
  wpc,           \* worker: "recv", "batch", "exit"
  wtheta,        \* worker: the theta of its epoch
  left,          \* worker: rows of its partition not yet in a mini-batch
  apc,           \* aggregator: "collect", "update", "send", "exit"
  iter,          \* aggregator: its iteration, from 1
  aggTheta,      \* aggregator: its array of theta
  accumGrad,     \* aggregator: the terms summed so far, as in GradientDescent
  totalN,        \* aggregator: rows counted so far
  doneCount,     \* aggregator: kindDone messages received in this iteration
  doneBy         \* auxiliary: the workers that sent them

coordVars  == <<pc, epoch, next, theta, aliased, lossHistory>>
workerVars == <<wpc, wtheta, left>>
aggVars    == <<apc, iter, aggTheta, accumGrad, totalN, doneCount, doneBy>>
vars == <<coordVars, paramCh, closed, gradCh, epochResultCh, workerVars, aggVars>>

PartitionOf(w) == RowsOf(MakePartitions(N, W)[w])

NoTerms == [r \in Rows |-> <<>>]

(***************************************************************************)
(* What the coordinator reads through its variable theta.                  *)
(***************************************************************************)
CoordTheta == IF aliased THEN aggTheta ELSE theta

(***************************************************************************)
(* The field from is auxiliary: the aggregator never reads it to decide.   *)
(***************************************************************************)
GradMsg(w, rows, t) ==
  [kind |-> "grad", from |-> w, rows |-> rows, theta |-> t, n |-> Cardinality(rows)]
DoneMsg(w) ==
  [kind |-> "done", from |-> w, rows |-> {}, theta |-> Zero, n |-> 0]

Init ==
  /\ pc = "broadcast" /\ epoch = 1 /\ next = 0
  /\ theta = Zero /\ aliased = TRUE /\ lossHistory = <<>>
  /\ paramCh = [w \in Workers |-> <<>>] /\ closed = {}
  /\ gradCh = <<>> /\ epochResultCh = <<>>
  /\ wpc = [w \in Workers |-> "recv"]
  /\ wtheta = [w \in Workers |-> Zero]
  /\ left = [w \in Workers |-> {}]
  /\ apc = "collect" /\ iter = 1 /\ aggTheta = Zero
  /\ accumGrad = NoTerms /\ totalN = 0 /\ doneCount = 0 /\ doneBy = {}

--------------------------------------------------------------------------------
(***************************************************************************)
(* Coordinator.                                                            *)
(***************************************************************************)

(***************************************************************************)
(* Send a copy of theta to the next worker.                                *)
(***************************************************************************)
Broadcast ==
  /\ pc = "broadcast"
  /\ paramCh[next] = <<>>
  /\ paramCh' = [paramCh EXCEPT ![next] = <<CoordTheta>>]
  /\ IF next = W - 1
       THEN next' = 0 /\ pc' = "await"
       ELSE next' = next + 1 /\ UNCHANGED pc
  /\ UNCHANGED <<epoch, theta, aliased, lossHistory, closed, gradCh, epochResultCh,
                 workerVars, aggVars>>

(***************************************************************************)
(* Receive the new theta, record its MSE and go to the next epoch.         *)
(***************************************************************************)
AwaitResult ==
  /\ pc = "await"
  /\ epochResultCh # <<>>
  /\ theta' = Head(epochResultCh)
  /\ epochResultCh' = Tail(epochResultCh)
  /\ aliased' = FALSE
  /\ lossHistory' = Append(lossHistory, theta')
  /\ epoch' = epoch + 1
  /\ pc' = IF epoch = Epochs THEN "close" ELSE "broadcast"
  /\ UNCHANGED <<next, paramCh, closed, gradCh, workerVars, aggVars>>

(***************************************************************************)
(* Close the next worker's channel; after the last one the model is built  *)
(* from theta and returned.                                                *)
(***************************************************************************)
CloseParam ==
  /\ pc = "close"
  /\ closed' = closed \union {next}
  /\ IF next = W - 1
       THEN next' = 0 /\ pc' = "returned"
       ELSE next' = next + 1 /\ UNCHANGED pc
  /\ UNCHANGED <<epoch, theta, aliased, lossHistory, paramCh, gradCh, epochResultCh,
                 workerVars, aggVars>>

CoordNext == Broadcast \/ AwaitResult \/ CloseParam

--------------------------------------------------------------------------------
(***************************************************************************)
(* Worker w.                                                               *)
(***************************************************************************)

ReceiveParam(w) ==
  /\ wpc[w] = "recv"
  /\ paramCh[w] # <<>>
  /\ wtheta' = [wtheta EXCEPT ![w] = Head(paramCh[w])]
  /\ paramCh' = [paramCh EXCEPT ![w] = Tail(@)]
  /\ left' = [left EXCEPT ![w] = PartitionOf(w)]
  /\ wpc' = [wpc EXCEPT ![w] = "batch"]
  /\ UNCHANGED <<coordVars, closed, gradCh, epochResultCh, aggVars>>

(***************************************************************************)
(* The range over paramCh[w] ends when the channel is closed and drained.  *)
(***************************************************************************)
ExitWorker(w) ==
  /\ wpc[w] = "recv"
  /\ paramCh[w] = <<>>
  /\ w \in closed
  /\ wpc' = [wpc EXCEPT ![w] = "exit"]
  /\ UNCHANGED <<coordVars, paramCh, closed, gradCh, epochResultCh, wtheta, left, aggVars>>

(***************************************************************************)
(* The rows of the next mini-batch: BatchSize of them, or all that remain. *)
(***************************************************************************)
IsBatch(rows, remaining) ==
  /\ rows \subseteq remaining
  /\ Cardinality(rows) = IF Cardinality(remaining) < BatchSize
                           THEN Cardinality(remaining) ELSE BatchSize

(***************************************************************************)
(* The capacity of gradCh.  Fault: one message more fits.                  *)
(***************************************************************************)
GradChHasRoom_PlusOne == Len(gradCh) <= GradPerWorker * W
GradChHasRoom == Len(gradCh) < GradPerWorker * W

(***************************************************************************)
(* The condition of the mini-batch loop.  Fault: it drops the last batch.  *)
(***************************************************************************)
HasBatch_DropLast(w) == Cardinality(left[w]) > BatchSize
HasBatch(w) == left[w] # {}

SendGrad(w) ==
  /\ wpc[w] = "batch"
  /\ HasBatch(w)
  /\ GradChHasRoom
  /\ \E rows \in SUBSET left[w] :
       /\ IsBatch(rows, left[w])
       /\ gradCh' = Append(gradCh, GradMsg(w, rows, wtheta[w]))
       /\ left' = [left EXCEPT ![w] = @ \ rows]
  /\ UNCHANGED <<coordVars, paramCh, closed, epochResultCh, wpc, wtheta, aggVars>>

(***************************************************************************)
(* Fault: kindDone is sent before the last mini-batch.                     *)
(***************************************************************************)
SendDone_BeforeLastBatch(w) ==
  /\ wpc[w] = "batch"
  /\ Cardinality(left[w]) <= BatchSize
  /\ Len(gradCh) < GradPerWorker * W - 1
  /\ gradCh' = IF left[w] = {}
                 THEN Append(gradCh, DoneMsg(w))
                 ELSE Append(Append(gradCh, DoneMsg(w)), GradMsg(w, left[w], wtheta[w]))
  /\ left' = [left EXCEPT ![w] = {}]
  /\ wpc' = [wpc EXCEPT ![w] = "recv"]
  /\ UNCHANGED <<coordVars, paramCh, closed, epochResultCh, wtheta, aggVars>>

SendDone(w) ==
  /\ wpc[w] = "batch"
  /\ ~HasBatch(w)
  /\ GradChHasRoom
  /\ gradCh' = Append(gradCh, DoneMsg(w))
  /\ wpc' = [wpc EXCEPT ![w] = "recv"]
  /\ UNCHANGED <<coordVars, paramCh, closed, epochResultCh, wtheta, left, aggVars>>

WorkerNext(w) == ReceiveParam(w) \/ ExitWorker(w) \/ SendGrad(w) \/ SendDone(w)

--------------------------------------------------------------------------------
(***************************************************************************)
(* Aggregator.                                                             *)
(***************************************************************************)

(***************************************************************************)
(* The condition of the loop that reads gradCh.  Fault: it ends when one   *)
(* worker has not finished.                                                *)
(***************************************************************************)
Collecting_OneShort == doneCount < W - 1
Collecting == doneCount < W

AddTerms(grad, msg) ==
  [r \in Rows |-> IF r \in msg.rows THEN Append(grad[r], msg.theta) ELSE grad[r]]

ReceiveGrad ==
  /\ apc = "collect"
  /\ Collecting
  /\ gradCh # <<>>
  /\ Head(gradCh).kind = "grad"
  /\ gradCh' = Tail(gradCh)
  /\ accumGrad' = AddTerms(accumGrad, Head(gradCh))
  /\ totalN' = totalN + Head(gradCh).n
  /\ UNCHANGED <<coordVars, paramCh, closed, epochResultCh, workerVars,
                 apc, iter, aggTheta, doneCount, doneBy>>

ReceiveDone ==
  /\ apc = "collect"
  /\ Collecting
  /\ gradCh # <<>>
  /\ Head(gradCh).kind = "done"
  /\ gradCh' = Tail(gradCh)
  /\ doneCount' = doneCount + 1
  /\ doneBy' = doneBy \union {Head(gradCh).from}
  /\ UNCHANGED <<coordVars, paramCh, closed, epochResultCh, workerVars,
                 apc, iter, aggTheta, accumGrad, totalN>>

(***************************************************************************)
(* All W workers are done: begin to overwrite theta.                       *)
(***************************************************************************)
StartUpdate ==
  /\ apc = "collect"
  /\ ~Collecting
  /\ apc' = "update"
  /\ UNCHANGED <<coordVars, paramCh, closed, gradCh, epochResultCh, workerVars,
                 iter, aggTheta, accumGrad, totalN, doneCount, doneBy>>

FinishUpdate ==
  /\ apc = "update"
  /\ aggTheta' = IF totalN > 0 THEN Update(aggTheta, accumGrad, totalN) ELSE aggTheta
  /\ apc' = "send"
  /\ UNCHANGED <<coordVars, paramCh, closed, gradCh, epochResultCh, workerVars,
                 iter, accumGrad, totalN, doneCount, doneBy>>

(***************************************************************************)
(* An iteration starts with fresh accumulators.  Fault: totalN is kept.    *)
(***************************************************************************)
ResetAccumulators_KeepTotal ==
  accumGrad' = NoTerms /\ doneCount' = 0 /\ doneBy' = {} /\ UNCHANGED totalN
ResetAccumulators ==
  accumGrad' = NoTerms /\ totalN' = 0 /\ doneCount' = 0 /\ doneBy' = {}

(***************************************************************************)
(* Fault: the aggregator waits for an epoch that nobody will start.        *)
(***************************************************************************)
LastIteration_OneMore == iter = Epochs + 1
LastIteration == iter = Epochs

(***************************************************************************)
(* Send a copy of theta, then start the next iteration or end.             *)
(***************************************************************************)
SendResult ==
  /\ apc = "send"
  /\ epochResultCh = <<>>
  /\ epochResultCh' = <<aggTheta>>
  /\ iter' = iter + 1
  /\ apc' = IF LastIteration THEN "exit" ELSE "collect"
  /\ ResetAccumulators
  /\ UNCHANGED <<coordVars, paramCh, closed, gradCh, workerVars, aggTheta>>

AggNext == ReceiveGrad \/ ReceiveDone \/ StartUpdate \/ FinishUpdate \/ SendResult

--------------------------------------------------------------------------------

AllExited == pc = "returned" /\ apc = "exit" /\ \A w \in Workers : wpc[w] = "exit"

(***************************************************************************)
(* Every goroutine has ended: nothing is left to do.                       *)
(***************************************************************************)
Terminated == AllExited /\ UNCHANGED vars

Next == CoordNext \/ (\E w \in Workers : WorkerNext(w)) \/ AggNext \/ Terminated

Spec == Init /\ [][Next]_vars

(***************************************************************************)
(* The Go scheduler runs every goroutine that can run.                     *)
(***************************************************************************)
Fairness == /\ WF_vars(CoordNext)
            /\ \A w \in Workers : WF_vars(WorkerNext(w))
            /\ WF_vars(AggNext)

FairSpec == Spec /\ Fairness

--------------------------------------------------------------------------------
(***************************************************************************)
(* Properties.                                                             *)
(***************************************************************************)

MessageType ==
  [kind : {"grad", "done"}, from : Workers, rows : SUBSET Rows, theta : Theta, n : Nat]

(***************************************************************************)
(* Types of the variables, with the capacities of the channels.            *)
(***************************************************************************)
TypeOK ==
  /\ pc \in {"broadcast", "await", "close", "returned"}
  /\ epoch \in 1 .. Epochs+1
  /\ next \in Workers
  /\ theta \in Theta
  /\ aliased \in BOOLEAN
  /\ lossHistory \in Seq(Theta)
  /\ paramCh \in [Workers -> Seq(Theta)]
  /\ \A w \in Workers : Len(paramCh[w]) <= 1
  /\ closed \subseteq Workers
  /\ gradCh \in Seq(MessageType)
  /\ Len(gradCh) <= GradPerWorker * W
  /\ epochResultCh \in Seq(Theta)
  /\ Len(epochResultCh) <= 1
  /\ wpc \in [Workers -> {"recv", "batch", "exit"}]
  /\ wtheta \in [Workers -> Theta]
  /\ left \in [Workers -> SUBSET Rows]
  /\ apc \in {"collect", "update", "send", "exit"}
  /\ iter \in 1 .. Epochs+1
  /\ aggTheta \in Theta
  /\ accumGrad \in [Rows -> Seq(Theta)]
  /\ totalN \in Nat
  /\ doneCount \in 0 .. W
  /\ doneBy \subseteq Workers

(***************************************************************************)
(* In the first epoch the coordinator and the aggregator hold the same     *)
(* array: the aggregator must not write it while the coordinator may still *)
(* copy from it to a worker ("race-free", sgd.go:62).                      *)
(***************************************************************************)
NoThetaRace == ~(aliased /\ apc = "update" /\ pc = "broadcast")

(***************************************************************************)
(* The epoch barrier: when the aggregator overwrites theta, no worker      *)
(* still computes with it, waits to, or has a message on the way, so no    *)
(* gradient of one epoch is ever added to another's.                       *)
(***************************************************************************)
EpochBarrier ==
  apc \in {"update", "send"} =>
    /\ gradCh = <<>>
    /\ \A w \in Workers : wpc[w] = "recv" /\ paramCh[w] = <<>>

(***************************************************************************)
(* The update of an epoch is along the gradient of the whole training set: *)
(* each row is counted once, at the theta being updated, and totalN is the *)
(* number of rows, whatever the batches and the interleaving were.         *)
(***************************************************************************)
FullGradientApplied ==
  apc = "update" => /\ accumGrad = [r \in Rows |-> <<aggTheta>>]
                    /\ totalN = N

(***************************************************************************)
(* The kindDone of a worker is its last message of the epoch: no gradient  *)
(* of that worker follows it in the channel, nor is any still in the       *)
(* channel once it has been received (sgd.go:50-53).                       *)
(***************************************************************************)
DoneIsLast ==
  /\ \A i, j \in 1 .. Len(gradCh) :
       i < j /\ gradCh[i].kind = "done" => gradCh[j].from # gradCh[i].from
  /\ \A i \in 1 .. Len(gradCh) : gradCh[i].from \notin doneBy

(***************************************************************************)
(* The capacities are enough for these sends never to block: a paramCh is  *)
(* empty when its worker's turn in the broadcast comes ("buffered 1 evita  *)
(* bloqueo al broadcast", sgd.go:123), epochResultCh when a result is sent.*)
(***************************************************************************)
BroadcastNeverBlocks ==
  /\ pc = "broadcast" => paramCh[next] = <<>>
  /\ apc = "send" => epochResultCh = <<>>

(***************************************************************************)
(* Training is batch gradient descent, epoch by epoch, and the model has   *)
(* the theta of the last epoch.                                            *)
(***************************************************************************)
GD == INSTANCE GradientDescent WITH
        trajectory <- <<Zero>> \o lossHistory,
        result     <- IF pc = "returned" THEN <<CoordTheta>> ELSE <<>>

ImplementsGradientDescent == GD!FairSpec

(***************************************************************************)
(* Train returns, and leaves no goroutine behind: every worker and the     *)
(* aggregator end as well.                                                 *)
(***************************************************************************)
EveryGoroutineExits == <>[]AllExited

================================================================================
