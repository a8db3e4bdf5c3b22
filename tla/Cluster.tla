-------------------------------- MODULE Cluster --------------------------------
(***************************************************************************)
(* Distributed training (internal/cluster): the API process runs a         *)
(* TrainDistributed per POST /train, concurrently, each over its own TCP   *)
(* connections to the same list of nodes; a node serves one connection at  *)
(* a time, the others wait in its listen backlog.                          *)
(*                                                                         *)
(*   job j --DataInit, Param, Stop--> node n                               *)
(*         <----Ack, Gradient-------                                       *)
(*                                                                         *)
(* A connection is a pair of FIFO queues.  An epoch of a job has one       *)
(* goroutine per node, which sends theta and waits for the gradient, and   *)
(* the job's own loop, which adds the results up.  Nodes crash and are     *)
(* restarted, or hang with their connections open, the API process         *)
(* crashes, and the deadline of an epoch may pass before any of its        *)
(* results is taken.                                                       *)
(***************************************************************************)
EXTENDS Integers, Sequences, FiniteSets, Partitions

CONSTANTS
  NumJobs,       \* POST /train requests
  K,             \* nodes in c.Nodes, whose addresses are different
  N,             \* rows of the training matrix of every job
  Epochs,        \* opts.Epochs of every job
  Theta,         \* parameter vectors
  Zero,          \* the zero vector
  Update(_,_,_), \* theta - lr * gradTotal / totalN, the terms kept apart
  MaxFaults,     \* bound: crashes, hangs and expired deadlines in a behaviour
  NodesHang      \* whether hangs are among the faults

Jobs  == 1 .. NumJobs
Nodes == 0 .. K-1
Rows  == 0 .. N-1

ASSUME SizesAssumption ==
  /\ NumJobs \in Nat
  /\ K \in Nat \ {0}
  /\ N \in Nat
  /\ Epochs \in Nat \ {0}
  /\ MaxFaults \in Nat
  /\ NodesHang \in BOOLEAN

ASSUME ThetaAssumption ==
  /\ Zero \in Theta
  /\ \A t \in Theta : Update(t, [r \in Rows |-> <<t>>], N) \in Theta

Idle == 0        \* the job of a node that serves none

VARIABLES
  jpc,         \* job: "idle", "dial", "init", "ack", "epoch", "gather", "stop",
               \* "done" (a model was returned), "failed" (an error was)
  slot,        \* job: index in c.Nodes of the loops that dial and stop
  epoch,       \* job: the epoch of the loop, from 1
  theta,       \* job
  lossHistory, \* job: the theta each recorded MSE was computed from
  expired,     \* job: the deadline of its epoch has passed
  firstErr,    \* job: a result of its epoch was an error
  gradTotal,   \* job: the terms summed so far, as in GradientDescent
  totalN,      \* job: rows counted so far
  resultCh,    \* job: channel of capacity K
  gpc,         \* goroutine of a job for a node: "off", "send", "recv"
  link,        \* connection of a job and a node: "none", "open", "closed" (by the
               \* API process) or "broken" (the node is gone)
  toNode,      \* connection: what the node has still to read
  toCoord,     \* connection: what the job has still to read
  up,          \* node: its process exists
  hung,        \* node: its process does nothing
  backlog,     \* node: the jobs whose connections wait to be accepted
  serving,     \* node: the job whose connection it handles, or Idle
  held,        \* node: the rows of X and Y in handleConn
  faults       \* crashes, hangs and expired deadlines so far

jobVars  == <<jpc, slot, epoch, theta, lossHistory>>
sumVars  == <<expired, firstErr, gradTotal, totalN>>
connVars == <<link, toNode, toCoord>>
nodeVars == <<up, hung, backlog, serving, held>>
vars == <<jobVars, sumVars, resultCh, gpc, connVars, nodeVars, faults>>

NoTerms == [r \in Rows |-> <<>>]

(***************************************************************************)
(* The messages; the field epoch of a gradient is never read by a job.     *)
(***************************************************************************)
Msg(kind, rows, t, e) == [kind |-> kind, rows |-> rows, theta |-> t, epoch |-> e]
DataInit(rows)          == Msg("init", rows, Zero, 0)
ParamUpdate(t, e)       == Msg("param", {}, t, e)
Stop                    == Msg("stop", {}, Zero, 0)
Ack                     == Msg("ack", {}, Zero, 0)
GradientResult(rows, t, e) == Msg("gradient", rows, t, e)
Err                     == Msg("error", {}, Zero, 0)

Init ==
  /\ jpc = [j \in Jobs |-> "idle"]
  /\ slot = [j \in Jobs |-> 0]
  /\ epoch = [j \in Jobs |-> 1]
  /\ theta = [j \in Jobs |-> Zero]
  /\ lossHistory = [j \in Jobs |-> <<>>]
  /\ expired = [j \in Jobs |-> FALSE]
  /\ firstErr = [j \in Jobs |-> FALSE]
  /\ gradTotal = [j \in Jobs |-> NoTerms]
  /\ totalN = [j \in Jobs |-> 0]
  /\ resultCh = [j \in Jobs |-> <<>>]
  /\ gpc = [j \in Jobs |-> [n \in Nodes |-> "off"]]
  /\ link = [j \in Jobs |-> [n \in Nodes |-> "none"]]
  /\ toNode = [j \in Jobs |-> [n \in Nodes |-> <<>>]]
  /\ toCoord = [j \in Jobs |-> [n \in Nodes |-> <<>>]]
  /\ up = [n \in Nodes |-> TRUE]
  /\ hung = [n \in Nodes |-> FALSE]
  /\ backlog = [n \in Nodes |-> <<>>]
  /\ serving = [n \in Nodes |-> Idle]
  /\ held = [n \in Nodes |-> {}]
  /\ faults = 0

--------------------------------------------------------------------------------
(***************************************************************************)
(* Job j: dial the nodes and give each its partition.                      *)
(***************************************************************************)

(***************************************************************************)
(* The i-th node of a job: there is one list of addresses, in the same     *)
(* order for every job.  Fault: each job starts with another node.         *)
(***************************************************************************)
NodeAt_Rotated(j, i) == (i + j) % K
NodeAt(j, i) == i

Current(j) == NodeAt(j, slot[j])

(***************************************************************************)
(* The early returns of TrainDistributed: none closes a connection.        *)
(***************************************************************************)
Fail(j) == /\ jpc' = [jpc EXCEPT ![j] = "failed"]
           /\ UNCHANGED <<slot, epoch, theta, lossHistory>>

Send(queue, j, n, msg) == [queue EXCEPT ![j][n] = Append(@, msg)]
Receive(queue, j, n)   == [queue EXCEPT ![j][n] = Tail(@)]

StartJob(j) ==
  /\ jpc[j] = "idle"
  /\ jpc' = [jpc EXCEPT ![j] = "dial"]
  /\ UNCHANGED <<slot, epoch, theta, lossHistory, sumVars, resultCh, gpc, connVars, nodeVars,
                 faults>>

(***************************************************************************)
(* The kernel of the node completes the connection, whether or not the     *)
(* process accepts it.                                                     *)
(***************************************************************************)
Dial(j) ==
  /\ jpc[j] = "dial"
  /\ up[Current(j)]
  /\ link' = [link EXCEPT ![j][Current(j)] = "open"]
  /\ backlog' = [backlog EXCEPT ![Current(j)] = Append(@, j)]
  /\ jpc' = [jpc EXCEPT ![j] = "init"]
  /\ UNCHANGED <<slot, epoch, theta, lossHistory, sumVars, resultCh, gpc, toNode, toCoord,
                 up, hung, serving, held, faults>>

SendInit(j) ==
  /\ jpc[j] = "init"
  /\ toNode' = IF link[j][Current(j)] = "open"
                 THEN Send(toNode, j, Current(j), DataInit(RowsOf(MakePartitions(N, K)[slot[j]])))
                 ELSE toNode
  /\ jpc' = [jpc EXCEPT ![j] = "ack"]
  /\ UNCHANGED <<slot, epoch, theta, lossHistory, sumVars, resultCh, gpc, link, toCoord,
                 nodeVars, faults>>

(***************************************************************************)
(* The wait for the Ack has no deadline.                                   *)
(***************************************************************************)
RecvAck(j) ==
  /\ jpc[j] = "ack"
  /\ toCoord[j][Current(j)] # <<>>
  /\ Head(toCoord[j][Current(j)]) = Ack
  /\ toCoord' = Receive(toCoord, j, Current(j))
  /\ IF slot[j] = K - 1
       THEN /\ jpc' = [jpc EXCEPT ![j] = "epoch"]
            /\ slot' = [slot EXCEPT ![j] = 0]
       ELSE /\ jpc' = [jpc EXCEPT ![j] = "dial"]
            /\ slot' = [slot EXCEPT ![j] = @ + 1]
  /\ UNCHANGED <<epoch, theta, lossHistory, sumVars, resultCh, gpc, link, toNode, nodeVars,
                 faults>>

(***************************************************************************)
(* A refused connection; a write to a connection whose node is gone, which *)
(* fails or is lost; and a read from it.                                   *)
(***************************************************************************)
FailSetup(j) ==
  /\ \/ jpc[j] = "dial" /\ ~up[Current(j)]
     \/ jpc[j] = "init" /\ link[j][Current(j)] = "broken"
     \/ jpc[j] = "ack" /\ toCoord[j][Current(j)] = <<>> /\ link[j][Current(j)] = "broken"
  /\ Fail(j)
  /\ UNCHANGED <<sumVars, resultCh, gpc, connVars, nodeVars, faults>>

DialNext(j) == Dial(j) \/ SendInit(j) \/ RecvAck(j) \/ FailSetup(j)

--------------------------------------------------------------------------------
(***************************************************************************)
(* Job j: an epoch.                                                        *)
(***************************************************************************)

StartEpoch(j) ==
  /\ jpc[j] = "epoch"
  /\ jpc' = [jpc EXCEPT ![j] = "gather"]
  /\ expired' = [expired EXCEPT ![j] = FALSE]
  /\ firstErr' = [firstErr EXCEPT ![j] = FALSE]
  /\ gradTotal' = [gradTotal EXCEPT ![j] = NoTerms]
  /\ totalN' = [totalN EXCEPT ![j] = 0]
  /\ resultCh' = [resultCh EXCEPT ![j] = <<>>]
  /\ gpc' = [gpc EXCEPT ![j] = [n \in Nodes |-> "send"]]
  /\ UNCHANGED <<slot, epoch, theta, lossHistory, connVars, nodeVars, faults>>

(***************************************************************************)
(* The goroutine for node n puts its result and ends.                      *)
(***************************************************************************)
Deliver(j, n, res) ==
  /\ Len(resultCh[j]) < K
  /\ resultCh' = [resultCh EXCEPT ![j] = Append(@, res)]
  /\ gpc' = [gpc EXCEPT ![j][n] = "off"]

(***************************************************************************)
(* theta[j], which does not change while a goroutine runs, stands for the  *)
(* copy thetaCopy of the epoch.                                            *)
(***************************************************************************)
GoSend(j, n) ==
  /\ gpc[j][n] = "send"
  /\ toNode' = IF link[j][n] = "open"
                 THEN Send(toNode, j, n, ParamUpdate(theta[j], epoch[j])) ELSE toNode
  /\ gpc' = [gpc EXCEPT ![j][n] = "recv"]
  /\ UNCHANGED <<jobVars, sumVars, resultCh, link, toCoord, nodeVars, faults>>

GoRecv(j, n) ==
  /\ gpc[j][n] = "recv"
  /\ toCoord[j][n] # <<>>
  /\ toCoord' = Receive(toCoord, j, n)
  /\ Deliver(j, n, Head(toCoord[j][n]))
  /\ UNCHANGED <<jobVars, sumVars, link, toNode, nodeVars, faults>>

GoFails(j, n) ==
  /\ \/ gpc[j][n] = "send"
     \/ gpc[j][n] = "recv" /\ toCoord[j][n] = <<>>
  /\ link[j][n] = "broken"
  /\ Deliver(j, n, Err)
  /\ UNCHANGED <<jobVars, sumVars, connVars, nodeVars, faults>>

GoNext(j, n) == GoSend(j, n) \/ GoRecv(j, n) \/ GoFails(j, n)

(***************************************************************************)
(* The deadline of the context passes.  Nothing waits for it: the loop     *)
(* looks at it only when it has taken a result.                            *)
(***************************************************************************)
Expire(j) ==
  /\ jpc[j] = "gather"
  /\ ~expired[j]
  /\ faults < MaxFaults
  /\ expired' = [expired EXCEPT ![j] = TRUE]
  /\ faults' = faults + 1
  /\ UNCHANGED <<jobVars, firstErr, gradTotal, totalN, resultCh, gpc, connVars, nodeVars>>

AddTerms(grad, res) ==
  [r \in Rows |-> IF r \in res.rows THEN Append(grad[r], res.theta) ELSE grad[r]]

TakeResult(j) ==
  /\ jpc[j] = "gather"
  /\ ~expired[j]
  /\ resultCh[j] # <<>>
  /\ resultCh' = [resultCh EXCEPT ![j] = Tail(@)]
  /\ LET res == Head(resultCh[j])
     IN  IF res.kind = "gradient"
           THEN /\ gradTotal' = [gradTotal EXCEPT ![j] = AddTerms(@, res)]
                /\ totalN' = [totalN EXCEPT ![j] = @ + Cardinality(res.rows)]
                /\ UNCHANGED firstErr
           ELSE /\ firstErr' = [firstErr EXCEPT ![j] = TRUE]
                /\ UNCHANGED <<gradTotal, totalN>>
  /\ UNCHANGED <<jobVars, expired, gpc, connVars, nodeVars, faults>>

(***************************************************************************)
(* The other goroutines of the epoch are left to themselves.               *)
(***************************************************************************)
TimeOut(j) ==
  /\ jpc[j] = "gather"
  /\ expired[j]
  /\ resultCh[j] # <<>>
  /\ resultCh' = [resultCh EXCEPT ![j] = Tail(@)]
  /\ Fail(j)
  /\ UNCHANGED <<sumVars, gpc, connVars, nodeVars, faults>>

(***************************************************************************)
(* resultCh is closed, when all goroutines have ended, and drained.        *)
(* Fault: the first result closes it.                                      *)
(***************************************************************************)
Gathered_First(j) == resultCh[j] = <<>> /\ \E n \in Nodes : gpc[j][n] = "off"
Gathered(j) == resultCh[j] = <<>> /\ \A n \in Nodes : gpc[j][n] = "off"

(***************************************************************************)
(* Fault: the errors of an epoch are only logged.                          *)
(***************************************************************************)
EpochFailed_Ignored(j) == FALSE
EpochFailed(j) == firstErr[j]

FailEpoch(j) ==
  /\ jpc[j] = "gather"
  /\ Gathered(j)
  /\ EpochFailed(j)
  /\ Fail(j)
  /\ UNCHANGED <<sumVars, resultCh, gpc, connVars, nodeVars, faults>>

(***************************************************************************)
(* Fault: the loop makes an epoch more.                                    *)
(***************************************************************************)
LastEpoch_OneMore(j) == epoch[j] = Epochs + 1
LastEpoch(j) == epoch[j] = Epochs

EndEpoch(j) ==
  /\ jpc[j] = "gather"
  /\ Gathered(j)
  /\ ~EpochFailed(j)
  /\ theta' = [theta EXCEPT ![j] = IF totalN[j] > 0 THEN Update(@, gradTotal[j], totalN[j]) ELSE @]
  /\ lossHistory' = [lossHistory EXCEPT ![j] = Append(@, theta'[j])]
  /\ epoch' = [epoch EXCEPT ![j] = @ + 1]
  /\ jpc' = [jpc EXCEPT ![j] = IF LastEpoch(j) THEN "stop" ELSE "epoch"]
  /\ UNCHANGED <<slot, sumVars, resultCh, gpc, connVars, nodeVars, faults>>

EpochNext(j) == StartEpoch(j) \/ TakeResult(j) \/ TimeOut(j) \/ FailEpoch(j) \/ EndEpoch(j)

--------------------------------------------------------------------------------
(***************************************************************************)
(* The end of job j.                                                       *)
(***************************************************************************)

Close(j, n) == link' = [link EXCEPT ![j][n] = "closed"]

StopNode(j) ==
  /\ jpc[j] = "stop"
  /\ toNode' = IF link[j][Current(j)] = "open" THEN Send(toNode, j, Current(j), Stop) ELSE toNode
  /\ Close(j, Current(j))
  /\ IF slot[j] = K - 1
       THEN jpc' = [jpc EXCEPT ![j] = "done"] /\ UNCHANGED slot
       ELSE slot' = [slot EXCEPT ![j] = @ + 1] /\ UNCHANGED jpc
  /\ UNCHANGED <<epoch, theta, lossHistory, sumVars, resultCh, gpc, toCoord, nodeVars, faults>>

(***************************************************************************)
(* The garbage collector of Go finds a connection that a failed job left   *)
(* open, and that no goroutine holds, and its finalizer closes it.         *)
(***************************************************************************)
Finalize(j, n) ==
  /\ jpc[j] = "failed"
  /\ gpc[j][n] = "off"
  /\ link[j][n] = "open"
  /\ Close(j, n)
  /\ UNCHANGED <<jobVars, sumVars, resultCh, gpc, toNode, toCoord, nodeVars, faults>>

Running(j) == jpc[j] \notin {"idle", "done", "failed"}

(***************************************************************************)
(* The API process dies, with its jobs and their goroutines; the kernel    *)
(* closes the connections, and what nodes had still to read may be lost.   *)
(***************************************************************************)
CrashAPI ==
  /\ faults < MaxFaults
  /\ \E j \in Jobs : Running(j)
  /\ faults' = faults + 1
  /\ jpc' = [j \in Jobs |-> IF Running(j) THEN "failed" ELSE jpc[j]]
  /\ gpc' = [j \in Jobs |-> [n \in Nodes |-> "off"]]
  /\ link' = [j \in Jobs |-> [n \in Nodes |->
                IF link[j][n] = "open" THEN "closed" ELSE link[j][n]]]
  /\ \E lost \in BOOLEAN :
       toNode' = [j \in Jobs |-> [n \in Nodes |->
                    IF lost /\ link[j][n] = "open" THEN <<>> ELSE toNode[j][n]]]
  /\ UNCHANGED <<slot, epoch, theta, lossHistory, sumVars, resultCh, toCoord, nodeVars>>

--------------------------------------------------------------------------------
(***************************************************************************)
(* Node n.                                                                 *)
(***************************************************************************)

Accept(n) ==
  /\ up[n]
  /\ serving[n] = Idle
  /\ backlog[n] # <<>>
  /\ serving' = [serving EXCEPT ![n] = Head(backlog[n])]
  /\ backlog' = [backlog EXCEPT ![n] = Tail(@)]
  /\ held' = [held EXCEPT ![n] = {}]
  /\ UNCHANGED <<jobVars, sumVars, resultCh, gpc, connVars, up, hung, faults>>

(***************************************************************************)
(* Node n, handling the connection of job j, reads a message of a kind.    *)
(***************************************************************************)
Reads(n, j, kind) ==
  /\ serving[n] = j
  /\ toNode[j][n] # <<>>
  /\ Head(toNode[j][n]).kind = kind
  /\ toNode' = Receive(toNode, j, n)

Reply(j, n, msg) == toCoord' = IF link[j][n] = "open" THEN Send(toCoord, j, n, msg) ELSE toCoord

HandleInit(n) == \E j \in Jobs :
  /\ Reads(n, j, "init")
  /\ held' = [held EXCEPT ![n] = Head(toNode[j][n]).rows]
  /\ Reply(j, n, Ack)
  /\ UNCHANGED <<jobVars, sumVars, resultCh, gpc, link, up, hung, backlog, serving, faults>>

(***************************************************************************)
(* The gradient sum is over the rows held, at the theta received.          *)
(***************************************************************************)
HandleParam(n) == \E j \in Jobs :
  /\ Reads(n, j, "param")
  /\ LET msg == Head(toNode[j][n])
     IN  Reply(j, n, GradientResult(held[n], msg.theta, msg.epoch))
  /\ UNCHANGED <<jobVars, sumVars, resultCh, gpc, link, nodeVars, faults>>

(***************************************************************************)
(* handleConn returns; ServeListener goes on to the next connection.       *)
(***************************************************************************)
Leave(n) == /\ serving' = [serving EXCEPT ![n] = Idle]
            /\ held' = [held EXCEPT ![n] = {}]
            /\ UNCHANGED <<up, hung, backlog>>

HandleStop(n) == \E j \in Jobs :
  /\ Reads(n, j, "stop")
  /\ Leave(n)
  /\ UNCHANGED <<jobVars, sumVars, resultCh, gpc, link, toCoord, faults>>

(***************************************************************************)
(* The other side is gone: the node reads the end of the stream, or its    *)
(* answer fails (or is lost, above).  Fault: the error is only logged.     *)
(***************************************************************************)
GiveUp_Continue(n) == \E j \in Jobs :
  /\ serving[n] = j
  /\ toNode[j][n] = <<>>
  /\ link[j][n] # "open"
  /\ UNCHANGED vars
GiveUp(n) == \E j \in Jobs :
  /\ link[j][n] # "open"
  /\ \/ serving[n] = j /\ toNode[j][n] = <<>> /\ UNCHANGED toNode
     \/ Reads(n, j, "init")
     \/ Reads(n, j, "param")
  /\ Leave(n)
  /\ UNCHANGED <<jobVars, sumVars, resultCh, gpc, link, toCoord, faults>>

NodeNext(n) ==
  /\ ~hung[n]
  /\ Accept(n) \/ HandleInit(n) \/ HandleParam(n) \/ HandleStop(n) \/ GiveUp(n)

(***************************************************************************)
(* The process of node n is stopped, or its machine swaps: it reads and    *)
(* writes nothing more, and no connection breaks.                          *)
(***************************************************************************)
Hang(n) ==
  /\ NodesHang
  /\ up[n] /\ ~hung[n]
  /\ faults < MaxFaults
  /\ faults' = faults + 1
  /\ hung' = [hung EXCEPT ![n] = TRUE]
  /\ UNCHANGED <<jobVars, sumVars, resultCh, gpc, connVars, up, backlog, serving, held>>

(***************************************************************************)
(* The process of node n dies: its connections break, and what the jobs    *)
(* had still to read from them may be lost.                                *)
(***************************************************************************)
CrashNode(n) ==
  /\ up[n]
  /\ faults < MaxFaults
  /\ faults' = faults + 1
  /\ up' = [up EXCEPT ![n] = FALSE]
  /\ hung' = [hung EXCEPT ![n] = FALSE]
  /\ backlog' = [backlog EXCEPT ![n] = <<>>]
  /\ serving' = [serving EXCEPT ![n] = Idle]
  /\ held' = [held EXCEPT ![n] = {}]
  /\ link' = [j \in Jobs |-> [link[j] EXCEPT ![n] = IF @ = "open" THEN "broken" ELSE @]]
  /\ toNode' = [j \in Jobs |-> [toNode[j] EXCEPT ![n] = <<>>]]
  /\ \E lost \in BOOLEAN :
       toCoord' = [j \in Jobs |-> [toCoord[j] EXCEPT ![n] = IF lost THEN <<>> ELSE @]]
  /\ UNCHANGED <<jobVars, sumVars, resultCh, gpc>>

(***************************************************************************)
(* The containers are restarted (docker-compose.yml: unless-stopped).      *)
(***************************************************************************)
RestartNode(n) ==
  /\ ~up[n]
  /\ up' = [up EXCEPT ![n] = TRUE]
  /\ UNCHANGED <<jobVars, sumVars, resultCh, gpc, connVars, hung, backlog, serving, held,
                 faults>>

--------------------------------------------------------------------------------

JobNext(j) == DialNext(j) \/ EpochNext(j) \/ StopNode(j)

Ended(j) == jpc[j] \in {"done", "failed"}

(***************************************************************************)
(* All jobs have ended and the nodes wait for others.                      *)
(***************************************************************************)
Quiet == /\ \A j \in Jobs : Ended(j)
         /\ \A n \in Nodes : up[n] /\ ~hung[n] /\ serving[n] = Idle /\ backlog[n] = <<>>
         /\ UNCHANGED vars

Next == \/ \E j \in Jobs : StartJob(j) \/ JobNext(j) \/ Expire(j)
        \/ \E j \in Jobs, n \in Nodes : GoNext(j, n) \/ Finalize(j, n)
        \/ \E n \in Nodes : NodeNext(n) \/ Hang(n) \/ CrashNode(n) \/ RestartNode(n)
        \/ CrashAPI
        \/ Quiet

Spec == Init /\ [][Next]_vars

(***************************************************************************)
(* The schedulers run what can run, the network delivers, a crashed node   *)
(* is restarted, and the runtime collects garbage (every two minutes at    *)
(* least); nothing is assumed of requests, crashes and deadlines.          *)
(***************************************************************************)
Fairness == /\ \A j \in Jobs : WF_vars(JobNext(j))
            /\ \A j \in Jobs, n \in Nodes : WF_vars(GoNext(j, n)) /\ WF_vars(Finalize(j, n))
            /\ \A n \in Nodes : WF_vars(NodeNext(n)) /\ WF_vars(RestartNode(n))

FairSpec == Spec /\ Fairness

--------------------------------------------------------------------------------
(***************************************************************************)
(* Properties.                                                             *)
(***************************************************************************)

MsgType == [kind : {"init", "param", "stop", "ack", "gradient", "error"},
            rows : SUBSET Rows, theta : Theta, epoch : 0 .. Epochs]

(***************************************************************************)
(* Types of the variables.                                                 *)
(***************************************************************************)
TypeOK ==
  /\ jpc \in [Jobs -> {"idle", "dial", "init", "ack", "epoch", "gather", "stop",
                       "done", "failed"}]
  /\ slot \in [Jobs -> Nodes]
  /\ epoch \in [Jobs -> 1 .. Epochs+1]
  /\ theta \in [Jobs -> Theta]
  /\ lossHistory \in [Jobs -> Seq(Theta)]
  /\ expired \in [Jobs -> BOOLEAN]
  /\ firstErr \in [Jobs -> BOOLEAN]
  /\ gradTotal \in [Jobs -> [Rows -> Seq(Theta)]]
  /\ totalN \in [Jobs -> Nat]
  /\ resultCh \in [Jobs -> Seq(MsgType)]
  /\ gpc \in [Jobs -> [Nodes -> {"off", "send", "recv"}]]
  /\ link \in [Jobs -> [Nodes -> {"none", "open", "closed", "broken"}]]
  /\ toNode \in [Jobs -> [Nodes -> Seq(MsgType)]]
  /\ toCoord \in [Jobs -> [Nodes -> Seq(MsgType)]]
  /\ up \in [Nodes -> BOOLEAN]
  /\ hung \in [Nodes -> BOOLEAN]
  /\ backlog \in [Nodes -> Seq(Jobs)]
  /\ serving \in [Nodes -> Jobs \union {Idle}]
  /\ held \in [Nodes -> SUBSET Rows]
  /\ faults \in 0 .. MaxFaults

(***************************************************************************)
(* No answer of one epoch is taken for another's, though a job never looks *)
(* at the epoch of a GradientResult: what waits for a job, or in its       *)
(* resultCh, was computed at the theta of its present epoch.               *)
(***************************************************************************)
AnswersAreCurrent ==
  \A j \in Jobs :
    /\ \A i \in 1 .. Len(resultCh[j]) :
         resultCh[j][i].kind = "gradient" =>
           resultCh[j][i].theta = theta[j] /\ resultCh[j][i].epoch = epoch[j]
    /\ \A n \in Nodes : \A i \in 1 .. Len(toCoord[j][n]) :
         toCoord[j][n][i].kind = "gradient" =>
           /\ gpc[j][n] = "recv" \/ jpc[j] = "failed"
           /\ toCoord[j][n][i].theta = theta[j]
           /\ toCoord[j][n][i].epoch = epoch[j]

(***************************************************************************)
(* Whatever crashes, a job that returns a model has run batch gradient     *)
(* descent over all the rows: a step of theta is never along the gradient  *)
(* of the surviving nodes only.                                            *)
(***************************************************************************)
GD(j) == INSTANCE GradientDescent WITH
           trajectory <- <<Zero>> \o lossHistory[j],
           result     <- IF jpc[j] = "done" THEN <<theta[j]>> ELSE <<>>

JobsImplementGradientDescent ==
  /\ \A j \in Jobs : GD(j)!Init
  /\ [][\A j \in Jobs : [GD(j)!Next]_(GD(j)!gdVars)]_vars

(***************************************************************************)
(* A job that is started ends, with a model or with an error: jobs that    *)
(* wait for each other's nodes do not wait for ever, and nor does one      *)
(* behind the connections that a failed job has left.                      *)
(***************************************************************************)
EveryJobEnds == \A j \in Jobs : Running(j) ~> Ended(j)

(***************************************************************************)
(* A node comes back from every connection, whatever happened to its job.  *)
(***************************************************************************)
NodesAreFreed == \A n \in Nodes, j \in Jobs : (serving[n] = j /\ Ended(j)) ~> serving[n] # j

(***************************************************************************)
(* The end of a job is announced to its nodes ("KindStop // coordinator -> *)
(* node: end of job", protocol.go:17): no job that has ended still holds   *)
(* an open connection.                                                     *)
(***************************************************************************)
EndedJobsHoldNoNode == \A j \in Jobs : Ended(j) => \A n \in Nodes : link[j][n] # "open"

(***************************************************************************)
(* An epoch has 60 seconds and then fails ("epoch %d timeout",             *)
(* coordinator.go:102 and 154): a job does not stay in an epoch whose      *)
(* deadline has passed.                                                    *)
(***************************************************************************)
EpochDeadlineHolds ==
  \A j \in Jobs : (jpc[j] = "gather" /\ expired[j]) ~> jpc[j] # "gather"

================================================================================
