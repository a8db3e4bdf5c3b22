-------------------------------- MODULE Cluster_proofs --------------------------------
(***************************************************************************)
(* Proofs about Cluster: its safety invariants and that every job          *)
(* implements GradientDescent (safety), for any numbers of jobs, nodes,    *)
(* rows and epochs, and any crashes, hangs and expired deadlines.          *)
(***************************************************************************)
EXTENDS Cluster, Partitions_proofs, FiniteSetTheorems, SeqFacts, TLAPS

--------------------------------------------------------------------------------
(***************************************************************************)
(* The inductive invariant.                                                *)
(***************************************************************************)

PartOf(n) == RowsOf(MakePartitions(N, K)[n])

Param(j)     == ParamUpdate(theta[j], epoch[j])
Answer(j, n) == GradientResult(PartOf(n), theta[j], epoch[j])

(***************************************************************************)
(* At most one question or its answer is on the connection.                *)
(***************************************************************************)
Exchange(j, n, question, answer) ==
  \/ toNode[j][n] = <<question>> /\ toCoord[j][n] = <<>>
  \/ toNode[j][n] = <<>> /\ toCoord[j][n] = <<answer>>
  \/ toNode[j][n] = <<>> /\ toCoord[j][n] = <<>>

Stopped(j, n) == jpc[j] = "done" \/ (jpc[j] = "stop" /\ n < slot[j])

QueueInv(j, n) ==
  IF gpc[j][n] = "recv" THEN Exchange(j, n, Param(j), Answer(j, n))
  ELSE IF jpc[j] = "ack" /\ n = slot[j] THEN Exchange(j, n, DataInit(PartOf(n)), Ack)
  ELSE /\ toCoord[j][n] = <<>>
       /\ toNode[j][n] = <<>> \/ (Stopped(j, n) /\ toNode[j][n] = <<Stop>>)

(***************************************************************************)
(* Node n has the rows job j gave it.                                      *)
(***************************************************************************)
Served(j, n) == \/ jpc[j] \in {"dial", "init", "ack"} /\ n < slot[j]
                \/ jpc[j] = "ack" /\ n = slot[j] /\ toNode[j][n] = <<>>
                \/ jpc[j] \in {"epoch", "gather"}

ServedInv(j, n) == link[j][n] = "open" /\ Served(j, n) => serving[n] = j /\ held[n] = PartOf(n)

IsCurrent(j, msg) ==
  msg.kind \in {"param", "gradient"} => msg.theta = theta[j] /\ msg.epoch = epoch[j]

LateInv(j, n) ==
  /\ \A i \in 1 .. Len(toNode[j][n]) : IsCurrent(j, toNode[j][n][i])
  /\ \A i \in 1 .. Len(toCoord[j][n]) : IsCurrent(j, toCoord[j][n][i])

ConnInv(j, n) ==
  /\ jpc[j] = "idle" => slot[j] = 0
  /\ link[j][n] = "broken" => toNode[j][n] = <<>>
  /\ gpc[j][n] # "off" => jpc[j] \in {"gather", "failed"} /\ epoch[j] <= Epochs
  /\ IF jpc[j] = "failed" THEN LateInv(j, n) ELSE QueueInv(j, n) /\ ServedInv(j, n)

ResultInv(j) == \A i \in 1 .. Len(resultCh[j]) : IsCurrent(j, resultCh[j][i])

LastTheta(j) == IF lossHistory[j] = <<>> THEN Zero ELSE lossHistory[j][Len(lossHistory[j])]

HistoryInv(j) ==
  /\ Len(lossHistory[j]) = epoch[j] - 1
  /\ theta[j] = LastTheta(j)
  /\ jpc[j] \in {"stop", "done"} => epoch[j] = Epochs + 1
  /\ jpc[j] \notin {"stop", "done", "failed"} => epoch[j] <= Epochs

Queued(j, r) == \E i \in 1 .. Len(resultCh[j]) : r \in resultCh[j][i].rows
Summed(j, r) == gradTotal[j][r] # <<>>
Failing(j)   == firstErr[j] \/ \E i \in 1 .. Len(resultCh[j]) : resultCh[j][i].kind # "gradient"

SumInv(j) ==
  jpc[j] = "gather" =>
    /\ \A i \in 1 .. Len(resultCh[j]) :
         \/ resultCh[j][i] = Err
         \/ \E n \in Nodes : resultCh[j][i] = Answer(j, n)
    /\ \A i, k \in 1 .. Len(resultCh[j]) : i < k => resultCh[j][i].rows \cap resultCh[j][k].rows = {}
    /\ \A r \in Rows : Summed(j, r) => gradTotal[j][r] = <<theta[j]>> /\ ~Queued(j, r)
    /\ totalN[j] = Cardinality({r \in Rows : Summed(j, r)})
    /\ \A n \in Nodes : \A r \in PartOf(n) :
         IF gpc[j][n] = "off" THEN Queued(j, r) \/ Summed(j, r) \/ Failing(j)
                              ELSE ~(Queued(j, r) \/ Summed(j, r))

SumsOf(j) == HistoryInv(j) /\ ResultInv(j) /\ SumInv(j)

IInv == /\ TypeOK
        /\ \A j \in Jobs : SumsOf(j)
        /\ \A j \in Jobs, n \in Nodes : ConnInv(j, n)

--------------------------------------------------------------------------------
(***************************************************************************)
(* The partitions of the nodes: within Rows, disjoint, covering Rows.      *)
(***************************************************************************)
LEMMA PartitionFacts ==
  /\ \A n \in Nodes : PartOf(n) \subseteq Rows
  /\ \A m, n \in Nodes : m # n => PartOf(m) \cap PartOf(n) = {}
  /\ \A r \in Rows : \E n \in Nodes : r \in PartOf(n)
<1>1. N \in Nat /\ K \in Nat \ {0}
  BY SizesAssumption
<1>2. \A n \in Nodes : PartOf(n) \subseteq Rows
  BY <1>1, PartitionsWithinRows DEF PartOf, Nodes, Rows
<1>3. \A m, n \in Nodes : m # n => PartOf(m) \cap PartOf(n) = {}
  BY <1>1, PartitionsDisjoint DEF PartOf, Nodes
<1>4. \A r \in Rows : \E n \in Nodes : r \in PartOf(n)
  BY <1>1, PartitionsCover DEF PartOf, Nodes, Rows
<1> QED
  BY <1>2, <1>3, <1>4

LEMMA RowsAreFinite == IsFiniteSet(Rows) /\ Cardinality(Rows) = N
<1>1. N \in Nat /\ 0 \in Int /\ N - 1 \in Int
  BY SizesAssumption
<1>2. IsFiniteSet(0 .. N-1) /\ Cardinality(0 .. N-1) = IF 0 > N-1 THEN 0 ELSE N-1-0+1
  BY <1>1, FS_Interval
<1> QED
  BY <1>1, <1>2 DEF Rows

(***************************************************************************)
(* The messages have their types.                                          *)
(***************************************************************************)
LEMMA MessageTypes ==
  ASSUME TypeOK, NEW j \in Jobs, NEW n \in Nodes
  PROVE  /\ Zero \in Theta
         /\ PartOf(n) \in SUBSET Rows
         /\ DataInit(PartOf(n)) \in MsgType /\ Ack \in MsgType /\ Stop \in MsgType
         /\ Err \in MsgType
         /\ epoch[j] <= Epochs => Param(j) \in MsgType
<1>1. Zero \in Theta /\ 0 \in 0 .. Epochs /\ Epochs \in Nat
  BY ThetaAssumption, SizesAssumption
<1>2. PartOf(n) \in SUBSET Rows /\ {} \in SUBSET Rows
  BY PartitionFacts
<1>3. theta[j] \in Theta /\ epoch[j] \in 1 .. Epochs+1
  BY DEF TypeOK
<1> QED
  BY <1>1, <1>2, <1>3
  DEF MsgType, Msg, DataInit, Ack, Stop, Err, Param, ParamUpdate

(***************************************************************************)
(* What a step preserves because it leaves the variables it is about:      *)
(* the sums of job k, and the connection of job k with node m.             *)
(***************************************************************************)
SameSums(k) ==
  /\ jpc'[k] = jpc[k] /\ epoch'[k] = epoch[k] /\ theta'[k] = theta[k]
  /\ lossHistory'[k] = lossHistory[k] /\ firstErr'[k] = firstErr[k]
  /\ gradTotal'[k] = gradTotal[k] /\ totalN'[k] = totalN[k] /\ resultCh'[k] = resultCh[k]
  /\ \A m \in Nodes : gpc'[k][m] = "off" <=> gpc[k][m] = "off"

SameConn(k, m) ==
  /\ jpc'[k] = jpc[k] /\ slot'[k] = slot[k] /\ epoch'[k] = epoch[k] /\ theta'[k] = theta[k]
  /\ gpc'[k][m] = gpc[k][m] /\ link'[k][m] = link[k][m]
  /\ toNode'[k][m] = toNode[k][m] /\ toCoord'[k][m] = toCoord[k][m]
  /\ serving'[m] = serving[m] /\ held'[m] = held[m]

LEMMA SumsPreserved ==
  ASSUME NEW k \in Jobs, SumsOf(k), SameSums(k)
  PROVE  SumsOf(k)'
<1> USE DEF SameSums
<1>1. HistoryInv(k)'
  BY DEF SumsOf, HistoryInv, LastTheta
<1>2. ResultInv(k)'
  BY DEF SumsOf, ResultInv, IsCurrent
<1>3. \A r \in Rows : /\ Queued(k, r)' <=> Queued(k, r)
                      /\ Summed(k, r)' <=> Summed(k, r)
  BY DEF Queued, Summed
<1>4. Failing(k)' <=> Failing(k)
  BY DEF Failing
<1>5. \A n \in Nodes : Answer(k, n)' = Answer(k, n)
  BY DEF Answer, PartOf, GradientResult, Msg
<1>6. {r \in Rows : Summed(k, r)}' = {r \in Rows : Summed(k, r)}
  BY <1>3
<1>7. \A n \in Nodes : PartOf(n) \subseteq Rows
  BY PartitionFacts
<1>8. SumInv(k)'
  BY <1>3, <1>4, <1>5, <1>6, <1>7 DEF SumsOf, SumInv
<1> QED
  BY <1>1, <1>2, <1>8 DEF SumsOf

LEMMA ConnPreserved ==
  ASSUME NEW k \in Jobs, NEW m \in Nodes, ConnInv(k, m), SameConn(k, m)
  PROVE  ConnInv(k, m)'
<1> USE DEF SameConn
<1>1. LateInv(k, m)' <=> LateInv(k, m)
  BY DEF LateInv, IsCurrent
<1>2. Answer(k, m)' = Answer(k, m) /\ Param(k)' = Param(k)
  BY DEF Answer, Param, PartOf, GradientResult, ParamUpdate, Msg
<1>3. QueueInv(k, m)' <=> QueueInv(k, m)
  BY <1>2 DEF QueueInv, Exchange, Stopped, PartOf
<1>4. ServedInv(k, m)' <=> ServedInv(k, m)
  BY DEF ServedInv, Served, PartOf
<1> QED
  BY <1>1, <1>3, <1>4 DEF ConnInv

(***************************************************************************)
(* A step that only one job, or only one connection, takes part in.        *)
(***************************************************************************)
LEMMA OneJob ==
  ASSUME IInv, NEW j \in Jobs, TypeOK', SumsOf(j)', \A n \in Nodes : ConnInv(j, n)',
         \A k \in Jobs \ {j} : SameSums(k) /\ \A m \in Nodes : SameConn(k, m)
  PROVE  IInv'
<1>1. \A k \in Jobs \ {j} : SumsOf(k)' /\ \A m \in Nodes : ConnInv(k, m)'
  BY SumsPreserved, ConnPreserved DEF IInv
<1> QED
  BY <1>1 DEF IInv

LEMMA OneConn ==
  ASSUME IInv, NEW j \in Jobs, NEW n \in Nodes, TypeOK', SumsOf(j)', ConnInv(j, n)',
         \A k \in Jobs \ {j} : SameSums(k) /\ \A m \in Nodes : SameConn(k, m),
         \A m \in Nodes \ {n} : SameConn(j, m)
  PROVE  IInv'
<1>1. \A m \in Nodes : ConnInv(j, m)'
  BY ConnPreserved DEF IInv
<1> QED
  BY <1>1, OneJob

(***************************************************************************)
(* What is on the connection of a job that goes on is of its epoch.        *)
(***************************************************************************)
LEMMA QueueIsLate ==
  ASSUME NEW j \in Jobs, NEW n \in Nodes, QueueInv(j, n)
  PROVE  LateInv(j, n)
<1>1. /\ IsCurrent(j, Param(j)) /\ IsCurrent(j, Answer(j, n))
      /\ IsCurrent(j, DataInit(PartOf(n))) /\ IsCurrent(j, Ack) /\ IsCurrent(j, Stop)
  BY DEF IsCurrent, Param, Answer, DataInit, Ack, Stop, ParamUpdate, GradientResult, Msg
<1>2. \A x : /\ \A i \in 1 .. Len(<<x>>) : <<x>>[i] = x
             /\ \A i \in 1 .. Len(<<>>) : FALSE
  OBVIOUS
<1> QED
  BY <1>1, <1>2 DEF QueueInv, Exchange, LateInv

LEMMA ConnIsLate ==
  ASSUME NEW j \in Jobs, NEW n \in Nodes, ConnInv(j, n)
  PROVE  LateInv(j, n)
  BY QueueIsLate DEF ConnInv

--------------------------------------------------------------------------------

LEMMA InitIInv == Init => IInv
<1> SUFFICES ASSUME Init PROVE IInv
  OBVIOUS
<1> USE DEF Init
<1>1. TypeOK
  <2>1. 0 \in Nodes /\ 0 \in 0 .. MaxFaults /\ 1 \in 1 .. Epochs+1
    BY SizesAssumption DEF Nodes
  <2> QED
    BY <2>1, ThetaAssumption DEF TypeOK, NoTerms
<1>2. ASSUME NEW j \in Jobs PROVE SumsOf(j)
  BY SizesAssumption DEF SumsOf, HistoryInv, ResultInv, SumInv, LastTheta
<1>3. ASSUME NEW j \in Jobs, NEW n \in Nodes PROVE ConnInv(j, n)
  BY DEF ConnInv, QueueInv, ServedInv, Served
<1> QED
  BY <1>1, <1>2, <1>3 DEF IInv

--------------------------------------------------------------------------------
(***************************************************************************)
(* A job that dials.                                                       *)
(***************************************************************************)

LEMMA StartJobIInv == ASSUME IInv, NEW j \in Jobs, StartJob(j) PROVE IInv'
<1> USE DEF StartJob, sumVars, connVars, nodeVars
<1>0. TypeOK /\ SumsOf(j) /\ \A n \in Nodes : ConnInv(j, n)
  BY DEF IInv
<1>1. TypeOK'
  BY <1>0 DEF TypeOK
<1>2. jpc'[j] = "dial" /\ \A k \in Jobs \ {j} : jpc'[k] = jpc[k]
  BY <1>0 DEF TypeOK
<1>3. SumsOf(j)'
  BY <1>0, <1>2 DEF SumsOf, HistoryInv, ResultInv, SumInv, LastTheta, IsCurrent
<1>4. ASSUME NEW n \in Nodes PROVE ConnInv(j, n)'
  <2>1. ~(n < 0)
    BY SizesAssumption DEF Nodes
  <2> QED
    BY <1>0, <1>2, <2>1 DEF ConnInv, QueueInv, ServedInv, Served, Stopped
<1>5. \A k \in Jobs \ {j} : SameSums(k) /\ \A m \in Nodes : SameConn(k, m)
  BY <1>2 DEF SameSums, SameConn
<1> QED
  BY <1>1, <1>3, <1>4, <1>5, OneJob

LEMMA DialIInv == ASSUME IInv, NEW j \in Jobs, Dial(j) PROVE IInv'
<1> USE DEF Dial, Current, NodeAt, sumVars
<1>0. TypeOK /\ SumsOf(j) /\ \A n \in Nodes : ConnInv(j, n)
  BY DEF IInv
<1>1. slot[j] \in Nodes
  BY <1>0 DEF TypeOK
<1>2. TypeOK'
  <2>1. backlog' \in [Nodes -> Seq(Jobs)]
    BY <1>0, <1>1 DEF TypeOK
  <2> QED
    BY <1>0, <2>1 DEF TypeOK
<1>3. jpc'[j] = "init" /\ \A k \in Jobs \ {j} : jpc'[k] = jpc[k]
  BY <1>0 DEF TypeOK
<1>4. /\ link'[j][slot[j]] = "open"
      /\ \A k \in Jobs, m \in Nodes : k # j \/ m # slot[j] => link'[k][m] = link[k][m]
  BY <1>0, <1>1 DEF TypeOK
<1>5. SumsOf(j)'
  BY <1>0, <1>3 DEF SumsOf, HistoryInv, ResultInv, SumInv, LastTheta, IsCurrent
<1>6. ASSUME NEW n \in Nodes PROVE ConnInv(j, n)'
  <2>1. n < slot[j] => n # slot[j]
    BY <1>1, SizesAssumption DEF Nodes
  <2> QED
    BY <1>0, <1>3, <1>4, <2>1 DEF ConnInv, QueueInv, ServedInv, Served, Stopped, PartOf
<1>7. \A k \in Jobs \ {j} : SameSums(k) /\ \A m \in Nodes : SameConn(k, m)
  BY <1>3, <1>4 DEF SameSums, SameConn
<1> QED
  BY <1>2, <1>5, <1>6, <1>7, OneJob

(***************************************************************************)
(* A message is put on, or taken from, the connection of j and n.          *)
(***************************************************************************)
LEMMA Sending ==
  ASSUME NEW j \in Jobs, NEW n \in Nodes, NEW msg \in MsgType,
         NEW queue \in [Jobs -> [Nodes -> Seq(MsgType)]]
  PROVE  /\ Send(queue, j, n, msg) \in [Jobs -> [Nodes -> Seq(MsgType)]]
         /\ Send(queue, j, n, msg)[j][n] = Append(queue[j][n], msg)
         /\ \A k \in Jobs, m \in Nodes :
              k # j \/ m # n => Send(queue, j, n, msg)[k][m] = queue[k][m]
<1>1. Append(queue[j][n], msg) \in Seq(MsgType)
  OBVIOUS
<1> QED
  BY <1>1 DEF Send

LEMMA Receiving ==
  ASSUME NEW j \in Jobs, NEW n \in Nodes,
         NEW queue \in [Jobs -> [Nodes -> Seq(MsgType)]], queue[j][n] # <<>>
  PROVE  /\ Receive(queue, j, n) \in [Jobs -> [Nodes -> Seq(MsgType)]]
         /\ Receive(queue, j, n)[j][n] = Tail(queue[j][n])
         /\ \A k \in Jobs, m \in Nodes :
              k # j \/ m # n => Receive(queue, j, n)[k][m] = queue[k][m]
         /\ Head(queue[j][n]) \in MsgType
<1>1. Tail(queue[j][n]) \in Seq(MsgType) /\ Head(queue[j][n]) \in MsgType
  OBVIOUS
<1> QED
  BY <1>1 DEF Receive

LEMMA SendingIf ==
  ASSUME NEW j \in Jobs, NEW n \in Nodes, NEW msg \in MsgType, TypeOK,
         toNode' = IF link[j][n] = "open" THEN Send(toNode, j, n, msg) ELSE toNode
  PROVE  /\ toNode' \in [Jobs -> [Nodes -> Seq(MsgType)]]
         /\ toNode'[j][n] = IF link[j][n] = "open" THEN Append(toNode[j][n], msg)
                                                   ELSE toNode[j][n]
         /\ \A k \in Jobs, m \in Nodes : k # j \/ m # n => toNode'[k][m] = toNode[k][m]
<1>0. toNode \in [Jobs -> [Nodes -> Seq(MsgType)]]
  BY DEF TypeOK
<1>1. CASE link[j][n] = "open"
  BY <1>0, <1>1, Sending
<1>2. CASE link[j][n] # "open"
  BY <1>0, <1>2
<1> QED
  BY <1>1, <1>2

LEMMA SendInitIInv == ASSUME IInv, NEW j \in Jobs, SendInit(j) PROVE IInv'
<1> DEFINE s == slot[j]
<1>0. TypeOK /\ SumsOf(j) /\ \A n \in Nodes : ConnInv(j, n)
  BY DEF IInv
<1>1. s \in Nodes
  BY <1>0 DEF TypeOK
<1>2. /\ jpc[j] = "init"
      /\ jpc' = [jpc EXCEPT ![j] = "ack"]
      /\ toNode' = IF link[j][s] = "open" THEN Send(toNode, j, s, DataInit(PartOf(s))) ELSE toNode
      /\ UNCHANGED <<slot, epoch, theta, lossHistory, sumVars, resultCh, gpc, link, toCoord,
                     nodeVars, faults>>
  BY DEF SendInit, Current, NodeAt, PartOf
<1>3. jpc'[j] = "ack" /\ \A k \in Jobs \ {j} : jpc'[k] = jpc[k]
  BY <1>0, <1>2 DEF TypeOK
<1>4. toNode \in [Jobs -> [Nodes -> Seq(MsgType)]] /\ DataInit(PartOf(s)) \in MsgType
  BY <1>0, <1>1, MessageTypes DEF TypeOK
<1>5. /\ toNode' \in [Jobs -> [Nodes -> Seq(MsgType)]]
      /\ \A k \in Jobs, m \in Nodes : k # j \/ m # s => toNode'[k][m] = toNode[k][m]
      /\ toNode'[j][s] = IF link[j][s] = "open" THEN Append(toNode[j][s], DataInit(PartOf(s)))
                                                ELSE toNode[j][s]
  BY <1>0, <1>1, <1>2, <1>4, SendingIf
<1>6. TypeOK'
  BY <1>0, <1>2, <1>5 DEF TypeOK, sumVars, nodeVars
<1>7. SumsOf(j)'
  BY <1>0, <1>2, <1>3 DEF SumsOf, HistoryInv, ResultInv, SumInv, LastTheta, IsCurrent, sumVars
<1>8. ASSUME NEW n \in Nodes PROVE ConnInv(j, n)'
  <2>1. CASE n = s
    <3>1. toNode[j][n] = <<>> /\ toCoord[j][n] = <<>> /\ gpc[j][n] = "off"
      BY <1>0, <1>2 DEF ConnInv, QueueInv, Stopped
    <3>2. toNode'[j][n] = IF link[j][n] = "open" THEN <<DataInit(PartOf(n))>> ELSE <<>>
      BY <1>5, <2>1, <3>1, Singleton
    <3>3. <<DataInit(PartOf(n))>> # <<>> /\ ~(n < n)
      BY <1>1, SizesAssumption DEF Nodes
    <3> QED
      BY <1>0, <1>2, <1>3, <2>1, <3>1, <3>2, <3>3
      DEF ConnInv, QueueInv, Exchange, ServedInv, Served, PartOf, DataInit, Msg
  <2>2. CASE n # s
    <3>1. toNode'[j][n] = toNode[j][n]
      BY <1>5, <2>2
    <3> QED
      BY <1>0, <1>2, <1>3, <2>2, <3>1
      DEF ConnInv, QueueInv, ServedInv, Served, Stopped, PartOf, nodeVars
  <2> QED
    BY <2>1, <2>2
<1>9. \A k \in Jobs \ {j} : SameSums(k) /\ \A m \in Nodes : SameConn(k, m)
  BY <1>2, <1>3, <1>5 DEF SameSums, SameConn, sumVars, nodeVars
<1> QED
  BY <1>6, <1>7, <1>8, <1>9, OneJob

LEMMA RecvAckIInv == ASSUME IInv, NEW j \in Jobs, RecvAck(j) PROVE IInv'
<1> DEFINE s == slot[j]
           last == s = K - 1
<1>0. TypeOK /\ SumsOf(j) /\ \A n \in Nodes : ConnInv(j, n)
  BY DEF IInv
<1>1. s \in Nodes /\ K \in Nat \ {0} /\ (s # K - 1 => s + 1 \in Nodes) /\ 0 \in Nodes
  <2>1. s \in Nodes /\ K \in Nat \ {0}
    BY <1>0, SizesAssumption DEF TypeOK
  <2> HIDE DEF s
  <2> QED
    BY <2>1 DEF Nodes
<1>2. /\ jpc[j] = "ack" /\ toCoord[j][s] # <<>>
      /\ toCoord' = Receive(toCoord, j, s)
      /\ jpc' = [jpc EXCEPT ![j] = IF last THEN "epoch" ELSE "dial"]
      /\ slot' = [slot EXCEPT ![j] = IF last THEN 0 ELSE s + 1]
      /\ UNCHANGED <<epoch, theta, lossHistory, sumVars, resultCh, gpc, link, toNode,
                     nodeVars, faults>>
  BY DEF RecvAck, Current, NodeAt
<1>3. /\ toCoord' \in [Jobs -> [Nodes -> Seq(MsgType)]]
      /\ \A k \in Jobs, m \in Nodes : k # j \/ m # s => toCoord'[k][m] = toCoord[k][m]
      /\ toCoord'[j][s] = Tail(toCoord[j][s])
  <2>1. toCoord \in [Jobs -> [Nodes -> Seq(MsgType)]]
    BY <1>0 DEF TypeOK
  <2> QED
    BY <1>1, <1>2, <2>1, Receiving
<1>4. /\ jpc'[j] = IF last THEN "epoch" ELSE "dial"
      /\ slot'[j] = IF last THEN 0 ELSE s + 1
      /\ \A k \in Jobs \ {j} : jpc'[k] = jpc[k] /\ slot'[k] = slot[k]
  BY <1>0, <1>2 DEF TypeOK
<1>5. TypeOK'
  BY <1>0, <1>1, <1>2, <1>3 DEF TypeOK, sumVars, nodeVars
<1>6. SumsOf(j)'
  BY <1>0, <1>2, <1>4 DEF SumsOf, HistoryInv, ResultInv, SumInv, LastTheta, IsCurrent, sumVars
<1>7. toNode[j][s] = <<>> /\ toCoord'[j][s] = <<>>
  <2>1. gpc[j][s] = "off" /\ QueueInv(j, s)
    BY <1>0, <1>1, <1>2 DEF ConnInv
  <2>2. toNode[j][s] = <<>> /\ toCoord[j][s] = <<Ack>>
    BY <1>2, <2>1 DEF QueueInv, Exchange
  <2> QED
    BY <1>3, <2>2, Singleton
<1>8. ASSUME NEW n \in Nodes PROVE ConnInv(j, n)'
  <2>1. toNode[j][n] = <<>> /\ toCoord'[j][n] = <<>> /\ gpc[j][n] = "off"
    BY <1>0, <1>2, <1>3, <1>7 DEF ConnInv, QueueInv, Stopped
  <2>2. n < s \/ n = s => Served(j, n)
    BY <1>2, <2>1 DEF Served
  <2>3. IF last THEN n < s \/ n = s ELSE n < s + 1 <=> n < s \/ n = s
    BY <1>1 DEF Nodes
  <2>4. Served(j, n)' => Served(j, n)
    BY <1>4, <2>2, <2>3 DEF Served
  <2>5. ServedInv(j, n)'
    BY <1>0, <1>2, <2>4 DEF ConnInv, ServedInv, PartOf, nodeVars
  <2>6. QueueInv(j, n)'
    BY <1>2, <1>4, <2>1 DEF QueueInv
  <2> QED
    BY <1>0, <1>2, <1>4, <2>1, <2>5, <2>6 DEF ConnInv
<1>9. \A k \in Jobs \ {j} : SameSums(k) /\ \A m \in Nodes : SameConn(k, m)
  BY <1>2, <1>3, <1>4 DEF SameSums, SameConn, sumVars, nodeVars
<1> QED
  BY <1>5, <1>6, <1>8, <1>9, OneJob

(***************************************************************************)
(* A job that fails keeps only that what is on its connections is of its   *)
(* epoch.                                                                  *)
(***************************************************************************)
LEMMA FailIInv ==
  ASSUME IInv, NEW j \in Jobs, Fail(j), jpc[j] # "failed",
         resultCh' = resultCh \/ (resultCh[j] # <<>> /\
                                  resultCh' = [resultCh EXCEPT ![j] = Tail(@)]),
         UNCHANGED <<sumVars, gpc, connVars, nodeVars, faults>>
  PROVE  IInv'
<1> USE DEF Fail, sumVars, connVars, nodeVars
<1>0. TypeOK /\ SumsOf(j) /\ \A n \in Nodes : ConnInv(j, n)
  BY DEF IInv
<1>1. jpc'[j] = "failed" /\ \A k \in Jobs \ {j} : jpc'[k] = jpc[k]
  BY <1>0 DEF TypeOK
<1>2. /\ resultCh' \in [Jobs -> Seq(MsgType)]
      /\ \A k \in Jobs \ {j} : resultCh'[k] = resultCh[k]
      /\ ResultInv(j)'
  <2>0. resultCh \in [Jobs -> Seq(MsgType)] /\ ResultInv(j)
    BY <1>0 DEF TypeOK, SumsOf
  <2>1. CASE resultCh' = resultCh
    BY <2>0, <2>1 DEF ResultInv, IsCurrent
  <2>2. CASE resultCh[j] # <<>> /\ resultCh' = [resultCh EXCEPT ![j] = Tail(@)]
    <3>1. resultCh'[j] = Tail(resultCh[j])
      BY <2>0, <2>2
    <3>2. /\ Tail(resultCh[j]) \in Seq(MsgType)
          /\ Len(Tail(resultCh[j])) = Len(resultCh[j]) - 1
          /\ \A i \in 1 .. Len(resultCh[j]) - 1 :
               i + 1 \in 1 .. Len(resultCh[j]) /\ Tail(resultCh[j])[i] = resultCh[j][i + 1]
      BY <2>0, <2>2, Tails
    <3>3. ASSUME NEW i \in 1 .. Len(resultCh'[j]) PROVE IsCurrent(j, resultCh[j][i])'
      <4>1. /\ i + 1 \in 1 .. Len(resultCh[j])
            /\ resultCh'[j][i] = resultCh[j][i + 1]
        BY <3>1, <3>2
      <4> QED
        BY <2>0, <4>1 DEF ResultInv, IsCurrent
    <3> QED
      BY <2>0, <2>2, <3>1, <3>2, <3>3 DEF ResultInv
  <2> QED
    BY <2>1, <2>2
<1>3. TypeOK'
  BY <1>0, <1>2 DEF TypeOK
<1>4. epoch[j] <= Epochs + 1
  BY <1>0, SizesAssumption DEF TypeOK
<1>5. SumsOf(j)'
  BY <1>0, <1>1, <1>2 DEF SumsOf, HistoryInv, SumInv, LastTheta
<1>6. ASSUME NEW n \in Nodes PROVE ConnInv(j, n)'
  <2>1. LateInv(j, n)
    BY <1>0, ConnIsLate
  <2> QED
    BY <1>0, <1>1, <2>1 DEF ConnInv, LateInv, IsCurrent
<1>7. \A k \in Jobs \ {j} : SameSums(k) /\ \A m \in Nodes : SameConn(k, m)
  BY <1>1, <1>2 DEF SameSums, SameConn
<1> QED
  BY <1>3, <1>5, <1>6, <1>7, OneJob

LEMMA FailureIInv ==
  ASSUME IInv, NEW j \in Jobs, FailSetup(j) \/ TimeOut(j) \/ FailEpoch(j)
  PROVE  IInv'
<1>1. Fail(j) /\ UNCHANGED <<sumVars, gpc, connVars, nodeVars, faults>>
  BY DEF FailSetup, TimeOut, FailEpoch
<1>2. jpc[j] # "failed"
  BY DEF FailSetup, TimeOut, FailEpoch
<1>3. resultCh' = resultCh \/ (resultCh[j] # <<>> /\ resultCh' = [resultCh EXCEPT ![j] = Tail(@)])
  BY DEF FailSetup, TimeOut, FailEpoch
<1> QED
  BY <1>1, <1>2, <1>3, FailIInv

--------------------------------------------------------------------------------
(***************************************************************************)
(* An epoch of a job.                                                      *)
(***************************************************************************)

LEMMA StartEpochIInv == ASSUME IInv, NEW j \in Jobs, StartEpoch(j) PROVE IInv'
<1> USE DEF StartEpoch, connVars, nodeVars
<1>0. TypeOK /\ SumsOf(j) /\ \A n \in Nodes : ConnInv(j, n)
  BY DEF IInv
<1>1. TypeOK'
  BY <1>0 DEF TypeOK, NoTerms
<1>2. /\ jpc'[j] = "gather" /\ expired'[j] = FALSE /\ firstErr'[j] = FALSE
      /\ gradTotal'[j] = NoTerms /\ totalN'[j] = 0 /\ resultCh'[j] = <<>>
      /\ \A n \in Nodes : gpc'[j][n] = "send"
  BY <1>0 DEF TypeOK
<1>3. \A k \in Jobs \ {j} : SameSums(k) /\ \A m \in Nodes : SameConn(k, m)
  BY <1>0 DEF TypeOK, SameSums, SameConn
<1>4. SumsOf(j)'
  <2>1. \A r \in Rows : ~Queued(j, r)' /\ ~Summed(j, r)'
    BY <1>2 DEF Queued, Summed, NoTerms
  <2>2. {r \in Rows : Summed(j, r)'} = {} /\ Cardinality({}) = 0
    BY <2>1, FS_EmptySet
  <2>3. SumInv(j)'
    <3>1. \A i \in 1 .. Len(resultCh'[j]) : FALSE
      BY <1>2
    <3>2. totalN'[j] = Cardinality({r \in Rows : Summed(j, r)'})
      BY <1>2, <2>2
    <3>3. \A n \in Nodes : \A r \in PartOf(n) :
            gpc'[j][n] # "off" /\ ~(Queued(j, r)' \/ Summed(j, r)')
      BY <1>2, <2>1, PartitionFacts
    <3> QED
      BY <2>1, <3>1, <3>2, <3>3 DEF SumInv, PartOf
  <2>4. ResultInv(j)'
    BY <1>2 DEF ResultInv
  <2>5. HistoryInv(j)'
    BY <1>0, <1>2 DEF SumsOf, HistoryInv, LastTheta
  <2> QED
    BY <2>3, <2>4, <2>5 DEF SumsOf
<1>5. ASSUME NEW n \in Nodes PROVE ConnInv(j, n)'
  <2>1. gpc[j][n] = "off" /\ epoch[j] <= Epochs
    BY <1>0 DEF ConnInv, SumsOf, HistoryInv
  <2>2. toNode[j][n] = <<>> /\ toCoord[j][n] = <<>>
    BY <1>0, <2>1 DEF ConnInv, QueueInv, Stopped
  <2>3. ServedInv(j, n)'
    BY <1>0, <1>2 DEF ConnInv, ServedInv, Served, PartOf
  <2> QED
    BY <1>2, <2>1, <2>2, <2>3 DEF ConnInv, QueueInv
<1> QED
  BY <1>1, <1>3, <1>4, <1>5, OneJob

LEMMA ExpireIInv == ASSUME IInv, NEW j \in Jobs, Expire(j) PROVE IInv'
<1> USE DEF Expire, jobVars, connVars, nodeVars
<1>0. TypeOK /\ SumsOf(j) /\ \A n \in Nodes : ConnInv(j, n)
  BY DEF IInv
<1>1. TypeOK'
  <2>1. faults' \in 0 .. MaxFaults
    BY <1>0, SizesAssumption DEF TypeOK
  <2> QED
    BY <1>0, <2>1 DEF TypeOK
<1>2. \A k \in Jobs : SameSums(k) /\ \A m \in Nodes : SameConn(k, m)
  BY <1>0 DEF SameSums, SameConn
<1> QED
  BY <1>0, <1>1, <1>2, SumsPreserved, ConnPreserved, OneJob

LEMMA GoSendIInv == ASSUME IInv, NEW j \in Jobs, NEW n \in Nodes, GoSend(j, n) PROVE IInv'
<1>0. TypeOK /\ SumsOf(j) /\ ConnInv(j, n)
  BY DEF IInv
<1>1. /\ gpc[j][n] = "send"
      /\ toNode' = IF link[j][n] = "open" THEN Send(toNode, j, n, Param(j)) ELSE toNode
      /\ gpc' = [gpc EXCEPT ![j][n] = "recv"]
      /\ UNCHANGED <<jobVars, sumVars, resultCh, link, toCoord, nodeVars, faults>>
  BY DEF GoSend, Param
<1>2. jpc[j] \in {"gather", "failed"} /\ epoch[j] <= Epochs
  BY <1>0, <1>1 DEF ConnInv
<1>3. Param(j) \in MsgType
  BY <1>0, <1>2, MessageTypes
<1>4. /\ toNode' \in [Jobs -> [Nodes -> Seq(MsgType)]]
      /\ toNode'[j][n] = IF link[j][n] = "open" THEN Append(toNode[j][n], Param(j))
                                                ELSE toNode[j][n]
      /\ \A k \in Jobs, m \in Nodes : k # j \/ m # n => toNode'[k][m] = toNode[k][m]
  BY <1>0, <1>1, <1>3, SendingIf
<1>5. /\ gpc' \in [Jobs -> [Nodes -> {"off", "send", "recv"}]]
      /\ gpc'[j][n] = "recv"
      /\ \A k \in Jobs, m \in Nodes : k # j \/ m # n => gpc'[k][m] = gpc[k][m]
  BY <1>0, <1>1 DEF TypeOK
<1>6. TypeOK'
  BY <1>0, <1>1, <1>4, <1>5 DEF TypeOK, jobVars, sumVars, nodeVars
<1>7. \A k \in Jobs : SameSums(k)
  BY <1>1, <1>5 DEF SameSums, jobVars, sumVars
<1>8. \A k \in Jobs, m \in Nodes : k # j \/ m # n => SameConn(k, m)
  BY <1>1, <1>4, <1>5 DEF SameConn, jobVars, sumVars, nodeVars
<1>9. Param(j)' = Param(j) /\ Answer(j, n)' = Answer(j, n)
  BY <1>1 DEF Param, Answer, PartOf, ParamUpdate, GradientResult, Msg, jobVars
<1>10. ConnInv(j, n)'
  <2>1. /\ jpc'[j] = jpc[j] /\ slot' = slot /\ epoch'[j] = epoch[j] /\ theta'[j] = theta[j]
        /\ link'[j][n] = link[j][n] /\ toCoord'[j][n] = toCoord[j][n]
        /\ serving'[n] = serving[n] /\ held'[n] = held[n]
    BY <1>1 DEF jobVars, nodeVars
  <2>2. link[j][n] = "broken" => toNode'[j][n] = <<>>
    BY <1>0, <1>4 DEF ConnInv
  <2>3. CASE jpc[j] = "gather"
    <3>1. toNode[j][n] = <<>> /\ toCoord[j][n] = <<>>
      BY <1>0, <1>1, <2>3 DEF ConnInv, QueueInv, Stopped
    <3>2. toNode'[j][n] = <<Param(j)>> \/ toNode'[j][n] = <<>>
      BY <1>4, <3>1, Singleton
    <3>3. QueueInv(j, n)'
      BY <1>5, <1>9, <2>1, <3>1, <3>2 DEF QueueInv, Exchange
    <3>4. ServedInv(j, n)'
      BY <1>0, <2>1, <2>3 DEF ConnInv, ServedInv, Served, PartOf
    <3> QED
      BY <1>2, <2>1, <2>2, <2>3, <3>3, <3>4 DEF ConnInv
  <2>4. CASE jpc[j] = "failed"
    <3>1. toNode[j][n] \in Seq(MsgType) /\ IsCurrent(j, Param(j)) /\ LateInv(j, n)
      BY <1>0, <2>4 DEF TypeOK, IsCurrent, Param, ParamUpdate, Msg, ConnInv
    <3>2. \A i \in 1 .. Len(toNode'[j][n]) : IsCurrent(j, toNode'[j][n][i])
      BY <1>3, <1>4, <3>1, Appends DEF LateInv
    <3>3. LateInv(j, n)'
      BY <2>1, <3>1, <3>2 DEF LateInv, IsCurrent
    <3> QED
      BY <1>2, <2>1, <2>2, <2>4, <3>3 DEF ConnInv
  <2> QED
    BY <1>2, <2>3, <2>4
<1> QED
  BY <1>0, <1>6, <1>7, <1>8, <1>10, SumsPreserved, OneConn

(***************************************************************************)
(* A goroutine of an epoch puts the answer of its node, or an error, on    *)
(* the channel: what is in it or summed remains counted once.              *)
(***************************************************************************)
LEMMA DeliverSums ==
  ASSUME IInv, NEW j \in Jobs, NEW n \in Nodes, NEW res \in MsgType, Deliver(j, n, res),
         gpc[j][n] # "off", IsCurrent(j, res),
         jpc[j] = "gather" => res = Answer(j, n) \/ res = Err,
         UNCHANGED <<jobVars, sumVars>>
  PROVE  /\ resultCh' \in [Jobs -> Seq(MsgType)]
         /\ gpc' \in [Jobs -> [Nodes -> {"off", "send", "recv"}]]
         /\ gpc'[j][n] = "off"
         /\ \A k \in Jobs, m \in Nodes : k # j \/ m # n => gpc'[k][m] = gpc[k][m]
         /\ \A k \in Jobs \ {j} : resultCh'[k] = resultCh[k]
         /\ SumsOf(j)'
<1> USE DEF jobVars, sumVars
<1>0. TypeOK /\ SumsOf(j)
  BY DEF IInv
<1>1. /\ gpc' \in [Jobs -> [Nodes -> {"off", "send", "recv"}]]
      /\ gpc'[j][n] = "off"
      /\ \A k \in Jobs, m \in Nodes : k # j \/ m # n => gpc'[k][m] = gpc[k][m]
  BY <1>0 DEF TypeOK, Deliver
<1> DEFINE old == resultCh[j]
           new == resultCh'[j]
           last == Len(old) + 1
<1>2. /\ resultCh' \in [Jobs -> Seq(MsgType)]
      /\ \A k \in Jobs \ {j} : resultCh'[k] = resultCh[k]
      /\ new = Append(old, res)
  BY <1>0 DEF TypeOK, Deliver
<1>3. /\ old \in Seq(MsgType) /\ Len(new) = last /\ Len(old) \in Nat
      /\ new[last] = res
      /\ \A i \in 1 .. Len(old) : new[i] = old[i]
  BY <1>0, <1>2, Appends DEF TypeOK
<1>4. /\ \A i \in 1 .. Len(new) : i \in 1 .. Len(old) \/ i = last
      /\ \A i \in 1 .. Len(old) : i \in 1 .. Len(new) /\ i < last
      /\ last \in 1 .. Len(new)
  <2> HIDE DEF old, new
  <2> QED
    BY <1>3
<1> HIDE DEF old, new, last
<1>5. HistoryInv(j)'
  BY <1>0 DEF SumsOf, HistoryInv, LastTheta
<1>6. ResultInv(j)'
  <2>1. \A i \in 1 .. Len(new) : IsCurrent(j, new[i])
    BY <1>0, <1>3, <1>4 DEF SumsOf, ResultInv, old
  <2> QED
    BY <2>1 DEF ResultInv, IsCurrent, new
<1>7. ASSUME NEW r \in Rows PROVE Queued(j, r)' <=> Queued(j, r) \/ r \in res.rows
  BY <1>3, <1>4 DEF Queued, old, new
<1>8. Failing(j)' <=> Failing(j) \/ res.kind # "gradient"
  BY <1>3, <1>4 DEF Failing, old, new
<1>9. \A r \in Rows : Summed(j, r)' <=> Summed(j, r)
  BY DEF Summed
<1>10. ASSUME jpc[j] = "gather" PROVE SumInv(j)'
  <2>0. SumInv(j)
    BY <1>0 DEF SumsOf
  <2>1. /\ res = Answer(j, n) \/ res = Err
        /\ Answer(j, n).rows = PartOf(n) /\ Answer(j, n).kind = "gradient"
        /\ Err.rows = {} /\ Err.kind = "error"
    BY <1>10 DEF Answer, GradientResult, Err, Msg
  <2>2. \A r \in PartOf(n) : r \in Rows /\ ~Queued(j, r) /\ ~Summed(j, r)
    BY <1>10, <2>0, PartitionFacts DEF SumInv
  <2>3. \A r \in res.rows : r \in PartOf(n)
    BY <2>1
  <2>4. ASSUME NEW i \in 1 .. Len(new)
        PROVE  new[i] = Err \/ \E m \in Nodes : new[i] = Answer(j, m)
    BY <1>3, <1>4, <1>10, <2>0, <2>1 DEF SumInv, old
  <2>5. ASSUME NEW i \in 1 .. Len(new), NEW k \in 1 .. Len(new), i < k
        PROVE  new[i].rows \cap new[k].rows = {}
    <3>1. i \in 1 .. Len(old)
      BY <1>3, <1>4, <2>5 DEF last
    <3>2. CASE k \in 1 .. Len(old)
      BY <1>3, <1>10, <2>0, <2>5, <3>1, <3>2 DEF SumInv, old
    <3>3. CASE k = last
      <4>1. \A r \in old[i].rows : r \in Rows => Queued(j, r)
        BY <3>1 DEF Queued, old
      <4> QED
        BY <1>3, <2>2, <2>3, <3>1, <3>3, <4>1
    <3> QED
      BY <1>4, <3>2, <3>3
  <2>6. ASSUME NEW r \in Rows, Summed(j, r)
        PROVE  gradTotal'[j][r] = <<theta'[j]>> /\ ~Queued(j, r)'
    BY <1>7, <1>10, <2>0, <2>2, <2>3, <2>6 DEF SumInv
  <2>7. totalN'[j] = Cardinality({r \in Rows : Summed(j, r)'})
    <3>1. {r \in Rows : Summed(j, r)'} = {r \in Rows : Summed(j, r)}
      BY <1>9
    <3> QED
      BY <1>10, <2>0, <3>1 DEF SumInv
  <2>8. ASSUME NEW m \in Nodes, NEW r \in PartOf(m)
        PROVE  IF gpc'[j][m] = "off" THEN Queued(j, r)' \/ Summed(j, r)' \/ Failing(j)'
                                     ELSE ~(Queued(j, r)' \/ Summed(j, r)')
    <3>1. r \in Rows
      BY PartitionFacts
    <3>2. CASE m = n
      BY <1>1, <1>7, <1>8, <2>1, <3>1, <3>2
    <3>3. CASE m # n
      <4>1. r \notin res.rows
        BY <2>3, <3>3, PartitionFacts
      <4>2. gpc'[j][m] = gpc[j][m]
        BY <1>1, <3>3
      <4> QED
        BY <1>7, <1>8, <1>9, <1>10, <2>0, <3>1, <4>1, <4>2 DEF SumInv
    <3> QED
      BY <3>2, <3>3
  <2>9. \A m \in Nodes : Answer(j, m)' = Answer(j, m) /\ PartOf(m)' = PartOf(m)
    BY DEF Answer, GradientResult, Msg, PartOf
  <2> QED
    BY <1>9, <2>4, <2>5, <2>6, <2>7, <2>8, <2>9 DEF SumInv, new
<1>11. SumInv(j)'
  BY <1>10 DEF SumInv
<1> QED
  BY <1>1, <1>2, <1>5, <1>6, <1>11 DEF SumsOf

LEMMA GoRecvIInv == ASSUME IInv, NEW j \in Jobs, NEW n \in Nodes, GoRecv(j, n) PROVE IInv'
<1> DEFINE res == Head(toCoord[j][n])
<1>0. TypeOK /\ ConnInv(j, n) /\ LateInv(j, n)
  BY ConnIsLate DEF IInv
<1>1. /\ gpc[j][n] = "recv" /\ toCoord[j][n] # <<>>
      /\ toCoord' = Receive(toCoord, j, n)
      /\ Deliver(j, n, res)
      /\ UNCHANGED <<jobVars, sumVars, link, toNode, nodeVars, faults>>
  BY DEF GoRecv
<1>2. /\ toCoord' \in [Jobs -> [Nodes -> Seq(MsgType)]]
      /\ toCoord'[j][n] = Tail(toCoord[j][n])
      /\ \A k \in Jobs, m \in Nodes : k # j \/ m # n => toCoord'[k][m] = toCoord[k][m]
      /\ res \in MsgType
  <2>1. toCoord \in [Jobs -> [Nodes -> Seq(MsgType)]]
    BY <1>0 DEF TypeOK
  <2> QED
    BY <1>1, <2>1, Receiving
<1>3. /\ toCoord[j][n] \in Seq(MsgType) /\ res = toCoord[j][n][1]
      /\ Len(toCoord[j][n]) \in Nat /\ Len(toCoord[j][n]) > 0
      /\ Len(toCoord'[j][n]) = Len(toCoord[j][n]) - 1
      /\ \A i \in 1 .. Len(toCoord[j][n]) - 1 :
           i + 1 \in 1 .. Len(toCoord[j][n]) /\ toCoord'[j][n][i] = toCoord[j][n][i + 1]
  <2>1. toCoord[j][n] \in Seq(MsgType)
    BY <1>0 DEF TypeOK
  <2> QED
    BY <1>1, <1>2, <2>1, Tails
<1>4. IsCurrent(j, res)
  BY <1>0, <1>3 DEF LateInv
<1>5. jpc[j] \in {"gather", "failed"} /\ epoch[j] <= Epochs
  BY <1>0, <1>1 DEF ConnInv
<1>6. ASSUME jpc[j] = "gather"
      PROVE  toNode[j][n] = <<>> /\ toCoord[j][n] = <<Answer(j, n)>>
  BY <1>0, <1>1, <1>6 DEF ConnInv, QueueInv, Exchange
<1>7. jpc[j] = "gather" => res = Answer(j, n)
  BY <1>6, Singleton
<1> HIDE DEF res
<1>8. /\ resultCh' \in [Jobs -> Seq(MsgType)]
      /\ gpc' \in [Jobs -> [Nodes -> {"off", "send", "recv"}]]
      /\ gpc'[j][n] = "off"
      /\ \A k \in Jobs, m \in Nodes : k # j \/ m # n => gpc'[k][m] = gpc[k][m]
      /\ \A k \in Jobs \ {j} : resultCh'[k] = resultCh[k]
      /\ SumsOf(j)'
  BY <1>1, <1>2, <1>4, <1>7, DeliverSums
<1>9. TypeOK'
  BY <1>0, <1>1, <1>2, <1>8 DEF TypeOK, jobVars, sumVars, nodeVars
<1>10. \A k \in Jobs \ {j} : SameSums(k)
  BY <1>1, <1>8 DEF SameSums, jobVars, sumVars
<1>11. \A k \in Jobs, m \in Nodes : k # j \/ m # n => SameConn(k, m)
  BY <1>1, <1>2, <1>8 DEF SameConn, jobVars, sumVars, nodeVars
<1>12. ConnInv(j, n)'
  <2>1. /\ jpc' = jpc /\ slot' = slot /\ epoch' = epoch /\ theta' = theta
        /\ link' = link /\ toNode' = toNode /\ serving' = serving /\ held' = held
    BY <1>1 DEF jobVars, nodeVars
  <2>2. CASE jpc[j] = "gather"
    <3>1. toNode[j][n] = <<>> /\ toCoord'[j][n] = <<>>
      BY <1>2, <1>6, <2>2, Singleton
    <3>2. ServedInv(j, n)'
      BY <1>0, <2>1, <2>2 DEF ConnInv, ServedInv, Served, PartOf
    <3>3. QueueInv(j, n)'
      BY <1>8, <2>1, <2>2, <3>1 DEF QueueInv
    <3> QED
      BY <1>0, <1>8, <2>1, <2>2, <3>2, <3>3 DEF ConnInv
  <2>3. CASE jpc[j] = "failed"
    <3>1. \A i \in 1 .. Len(toCoord'[j][n]) : IsCurrent(j, toCoord'[j][n][i])
      BY <1>0, <1>3 DEF LateInv
    <3>2. LateInv(j, n)'
      BY <1>0, <2>1, <3>1 DEF LateInv, IsCurrent
    <3> QED
      BY <1>0, <1>8, <2>1, <2>3, <3>2 DEF ConnInv
  <2> QED
    BY <1>5, <2>2, <2>3
<1> QED
  BY <1>8, <1>9, <1>10, <1>11, <1>12, OneConn

LEMMA GoFailsIInv == ASSUME IInv, NEW j \in Jobs, NEW n \in Nodes, GoFails(j, n) PROVE IInv'
<1>0. TypeOK /\ ConnInv(j, n) /\ LateInv(j, n)
  BY ConnIsLate DEF IInv
<1>1. /\ gpc[j][n] # "off" /\ (gpc[j][n] = "recv" => toCoord[j][n] = <<>>)
      /\ link[j][n] = "broken"
      /\ Deliver(j, n, Err)
      /\ UNCHANGED <<jobVars, sumVars, connVars, nodeVars, faults>>
  BY DEF GoFails
<1>2. Err \in MsgType /\ IsCurrent(j, Err)
  BY <1>0, MessageTypes DEF IsCurrent, Err, Msg
<1>3. jpc[j] \in {"gather", "failed"} /\ epoch[j] <= Epochs /\ toNode[j][n] = <<>>
  BY <1>0, <1>1 DEF ConnInv
<1>4. /\ resultCh' \in [Jobs -> Seq(MsgType)]
      /\ gpc' \in [Jobs -> [Nodes -> {"off", "send", "recv"}]]
      /\ gpc'[j][n] = "off"
      /\ \A k \in Jobs, m \in Nodes : k # j \/ m # n => gpc'[k][m] = gpc[k][m]
      /\ \A k \in Jobs \ {j} : resultCh'[k] = resultCh[k]
      /\ SumsOf(j)'
  BY <1>1, <1>2, DeliverSums
<1>5. TypeOK'
  BY <1>0, <1>1, <1>4 DEF TypeOK, jobVars, sumVars, connVars, nodeVars
<1>6. \A k \in Jobs \ {j} : SameSums(k)
  BY <1>1, <1>4 DEF SameSums, jobVars, sumVars
<1>7. \A k \in Jobs, m \in Nodes : k # j \/ m # n => SameConn(k, m)
  BY <1>1, <1>4 DEF SameConn, jobVars, connVars, nodeVars
<1>8. ConnInv(j, n)'
  <2>1. /\ jpc' = jpc /\ slot' = slot /\ epoch' = epoch /\ theta' = theta /\ link' = link
        /\ toNode' = toNode /\ toCoord' = toCoord /\ serving' = serving /\ held' = held
    BY <1>1 DEF jobVars, connVars, nodeVars
  <2>2. CASE jpc[j] = "gather"
    <3>1. toCoord[j][n] = <<>>
      BY <1>0, <1>1, <2>2 DEF ConnInv, QueueInv
    <3>2. QueueInv(j, n)'
      BY <1>3, <1>4, <2>1, <2>2, <3>1 DEF QueueInv
    <3>3. ServedInv(j, n)'
      BY <1>1, <2>1 DEF ServedInv
    <3> QED
      BY <1>0, <1>4, <2>1, <2>2, <3>2, <3>3 DEF ConnInv
  <2>3. CASE jpc[j] = "failed"
    <3>1. LateInv(j, n)'
      BY <1>0, <2>1 DEF LateInv, IsCurrent
    <3> QED
      BY <1>0, <1>4, <2>1, <2>3, <3>1 DEF ConnInv
  <2> QED
    BY <1>3, <2>2, <2>3
<1> QED
  BY <1>4, <1>5, <1>6, <1>7, <1>8, OneConn

(***************************************************************************)
(* The job adds a result up.                                               *)
(***************************************************************************)
LEMMA TakeResultIInv == ASSUME IInv, NEW j \in Jobs, TakeResult(j) PROVE IInv'
<1> DEFINE old  == resultCh[j]
           new  == resultCh'[j]
           res  == Head(old)
           good == res.kind = "gradient"
<1>0. TypeOK /\ SumsOf(j) /\ \A n \in Nodes : ConnInv(j, n)
  BY DEF IInv
<1>1. /\ jpc[j] = "gather" /\ old # <<>>
      /\ resultCh' = [resultCh EXCEPT ![j] = Tail(@)]
      /\ good => /\ gradTotal' = [gradTotal EXCEPT ![j] = AddTerms(@, res)]
                 /\ totalN' = [totalN EXCEPT ![j] = @ + Cardinality(res.rows)]
                 /\ UNCHANGED firstErr
      /\ ~good => /\ firstErr' = [firstErr EXCEPT ![j] = TRUE]
                  /\ UNCHANGED <<gradTotal, totalN>>
      /\ UNCHANGED <<jobVars, expired, gpc, connVars, nodeVars, faults>>
  BY DEF TakeResult
<1>2. UNCHANGED <<jpc, slot, epoch, theta, lossHistory, expired, gpc, link, toNode, toCoord,
                  up, hung, backlog, serving, held, faults>>
  BY <1>1 DEF jobVars, connVars, nodeVars
<1>3. /\ old \in Seq(MsgType) /\ Len(old) \in Nat /\ Len(old) > 0
      /\ res = old[1] /\ res \in MsgType
      /\ Len(Tail(old)) = Len(old) - 1 /\ Tail(old) \in Seq(MsgType)
      /\ \A i \in 1 .. Len(old) - 1 : i + 1 \in 1 .. Len(old) /\ Tail(old)[i] = old[i + 1]
  BY <1>0, <1>1, Tails DEF TypeOK
<1>4. /\ new = Tail(old) /\ resultCh' \in [Jobs -> Seq(MsgType)]
      /\ \A k \in Jobs \ {j} : resultCh'[k] = resultCh[k]
  BY <1>0, <1>1, <1>3 DEF TypeOK
<1>5. /\ \A i \in 1 .. Len(new) : i + 1 \in 1 .. Len(old) /\ new[i] = old[i + 1] /\ 1 < i + 1
      /\ \A i \in 1 .. Len(old) : i = 1 \/ (i - 1 \in 1 .. Len(new) /\ new[i - 1] = old[i])
      /\ 1 \in 1 .. Len(old)
  <2> HIDE DEF old, new
  <2> QED
    BY <1>3, <1>4
<1>6. SumInv(j)
  BY <1>0 DEF SumsOf
<1>7. /\ res = Err \/ \E n \in Nodes : res = Answer(j, n)
      /\ res.rows \in SUBSET Rows /\ res.theta \in Theta
  <2>1. res.rows \in SUBSET Rows /\ res.theta \in Theta
    BY <1>3 DEF MsgType
  <2> QED
    BY <1>1, <1>3, <1>5, <1>6, <2>1 DEF SumInv
<1>8. /\ ~good => res = Err /\ res.rows = {}
      /\ good => res.theta = theta[j]
      /\ Err.kind # "gradient"
  <2> HIDE DEF old, res
  <2>1. CASE res = Err
    BY <2>1 DEF Err, Msg
  <2>2. ASSUME NEW n \in Nodes, res = Answer(j, n) PROVE good /\ res.theta = theta[j]
    BY <2>2 DEF Answer, GradientResult, Msg
  <2>3. Err.kind = "error"
    BY DEF Err, Msg
  <2> QED
    BY <1>7, <2>1, <2>2, <2>3
<1> HIDE DEF old, new, res, good
<1>9. /\ IsFiniteSet(Rows) /\ IsFiniteSet(res.rows) /\ Cardinality(res.rows) \in Nat
  BY <1>7, RowsAreFinite, FS_Subset, FS_CardinalityType
<1>10. ASSUME NEW r \in Rows
       PROVE  /\ Queued(j, r) <=> Queued(j, r)' \/ r \in res.rows
              /\ r \in res.rows => ~Queued(j, r)'
  <2>1. Queued(j, r)' => Queued(j, r)
    BY <1>5 DEF Queued, old, new
  <2>2. r \in res.rows => Queued(j, r)
    BY <1>3, <1>5 DEF Queued, old
  <2>3. Queued(j, r) => Queued(j, r)' \/ r \in res.rows
    BY <1>3, <1>5 DEF Queued, old, new
  <2>4. ASSUME r \in res.rows, NEW i \in 1 .. Len(new), r \in new[i].rows PROVE FALSE
    <3>1. /\ i + 1 \in 1 .. Len(old) /\ new[i] = old[i + 1] /\ 1 < i + 1
          /\ 1 \in 1 .. Len(old) /\ res = old[1]
      BY <1>3, <1>5
    <3>2. old[1].rows \cap old[i + 1].rows = {}
      BY <1>1, <1>6, <3>1 DEF SumInv, old
    <3> QED
      BY <2>4, <3>1, <3>2
  <2> QED
    BY <2>1, <2>2, <2>3, <2>4 DEF Queued, new
<1>11. ASSUME NEW r \in Rows
       PROVE  /\ gradTotal'[j] \in [Rows -> Seq(Theta)]
              /\ good /\ r \in res.rows => gradTotal'[j][r] = <<theta[j]>>
              /\ ~good \/ r \notin res.rows => gradTotal'[j][r] = gradTotal[j][r]
              /\ Summed(j, r)' <=> Summed(j, r) \/ r \in res.rows
              /\ r \in res.rows => ~Summed(j, r)
  <2>1. gradTotal[j] \in [Rows -> Seq(Theta)] /\ gradTotal \in [Jobs -> [Rows -> Seq(Theta)]]
    BY <1>0 DEF TypeOK
  <2>2. r \in res.rows => ~Summed(j, r)
    BY <1>1, <1>6, <1>10 DEF SumInv
  <2>3. CASE good
    <3>1. gradTotal'[j] = AddTerms(gradTotal[j], res)
      BY <1>1, <2>1, <2>3
    <3>2. gradTotal'[j] \in [Rows -> Seq(Theta)]
      BY <1>7, <2>1, <3>1 DEF AddTerms
    <3>3. /\ r \in res.rows => gradTotal'[j][r] = Append(gradTotal[j][r], res.theta)
          /\ r \notin res.rows => gradTotal'[j][r] = gradTotal[j][r]
      BY <3>1 DEF AddTerms
    <3>4. r \in res.rows => gradTotal'[j][r] = <<theta[j]>> /\ <<theta[j]>> # <<>>
      BY <1>8, <2>2, <2>3, <3>3, Singleton DEF Summed
    <3> QED
      BY <2>2, <2>3, <3>2, <3>3, <3>4 DEF Summed
  <2>4. CASE ~good
    BY <1>1, <1>8, <2>1, <2>4 DEF Summed
  <2> QED
    BY <2>3, <2>4
<1>12. /\ gradTotal' \in [Jobs -> [Rows -> Seq(Theta)]]
       /\ \A k \in Jobs \ {j} : /\ gradTotal'[k] = gradTotal[k] /\ totalN'[k] = totalN[k]
                                 /\ firstErr'[k] = firstErr[k]
       /\ totalN' \in [Jobs -> Nat] /\ firstErr' \in [Jobs -> BOOLEAN]
  <2>1. AddTerms(gradTotal[j], res) \in [Rows -> Seq(Theta)]
    BY <1>0, <1>7 DEF AddTerms, TypeOK
  <2>2. gradTotal \in [Jobs -> [Rows -> Seq(Theta)]] /\ totalN \in [Jobs -> Nat]
        /\ firstErr \in [Jobs -> BOOLEAN]
    BY <1>0 DEF TypeOK
  <2>3. CASE good
    <3>1. totalN[j] + Cardinality(res.rows) \in Nat
      BY <1>9, <2>2
    <3> QED
      BY <1>1, <2>1, <2>2, <2>3, <3>1
  <2>4. CASE ~good
    BY <1>1, <2>2, <2>4
  <2> QED
    BY <2>3, <2>4
<1>13. TypeOK'
  BY <1>0, <1>2, <1>4, <1>12 DEF TypeOK
<1>14. \A k \in Jobs \ {j} : SameSums(k)
  BY <1>2, <1>4, <1>12 DEF SameSums
<1>15. \A k \in Jobs, m \in Nodes : SameConn(k, m)
  BY <1>2 DEF SameConn
<1>16. HistoryInv(j)'
  BY <1>0, <1>2 DEF SumsOf, HistoryInv, LastTheta
<1>17. ResultInv(j)'
  <2>1. \A i \in 1 .. Len(new) : IsCurrent(j, new[i])
    BY <1>0, <1>5 DEF SumsOf, ResultInv, old
  <2> QED
    BY <1>2, <2>1 DEF ResultInv, IsCurrent, new
<1>18. Failing(j)' <=> Failing(j)
  <2>1. CASE good
    <3>1. firstErr'[j] = firstErr[j]
      BY <1>1, <2>1
    <3>2. (\E i \in 1 .. Len(new) : new[i].kind # "gradient")
            <=> (\E i \in 1 .. Len(old) : old[i].kind # "gradient")
      <4>1. good /\ res = old[1]
        BY <1>3, <2>1, Zenon
      <4> HIDE DEF old, new, res
      <4>2. \A i \in 1 .. Len(old) : old[i].kind # "gradient" =>
              i - 1 \in 1 .. Len(new) /\ new[i - 1].kind # "gradient"
        BY <1>5, <4>1 DEF good
      <4>3. \A i \in 1 .. Len(new) : new[i].kind # "gradient" =>
              i + 1 \in 1 .. Len(old) /\ old[i + 1].kind # "gradient"
        BY <1>5
      <4> QED
        BY <4>2, <4>3
    <3> QED
      BY <3>1, <3>2 DEF Failing, old, new
  <2>2. CASE ~good
    <3>1. firstErr'[j] = TRUE
      BY <1>0, <1>1, <2>2 DEF TypeOK
    <3>2. Failing(j)
      BY <1>3, <1>5, <2>2 DEF Failing, old, good
    <3> QED
      BY <3>1, <3>2 DEF Failing
  <2> QED
    BY <2>1, <2>2
<1>19. SumInv(j)'
  <2>1. ASSUME NEW i \in 1 .. Len(new)
        PROVE  new[i] = Err \/ \E m \in Nodes : new[i] = Answer(j, m)
    BY <1>1, <1>5, <1>6 DEF SumInv, old
  <2>2. ASSUME NEW i \in 1 .. Len(new), NEW k \in 1 .. Len(new), i < k
        PROVE  new[i].rows \cap new[k].rows = {}
    <3>1. i + 1 \in 1 .. Len(old) /\ k + 1 \in 1 .. Len(old) /\ i + 1 < k + 1
      BY <1>5, <2>2
    <3>2. old[i + 1].rows \cap old[k + 1].rows = {}
      BY <1>1, <1>6, <3>1 DEF SumInv, old
    <3> QED
      BY <1>5, <3>2
  <2>3. ASSUME NEW r \in Rows, Summed(j, r)'
        PROVE  gradTotal'[j][r] = <<theta'[j]>> /\ ~Queued(j, r)'
    <3>1. theta'[j] = theta[j] /\ (r \in res.rows => good)
      BY <1>2, <1>8
    <3> QED
      BY <1>1, <1>6, <1>10, <1>11, <2>3, <3>1 DEF SumInv
  <2>4. totalN'[j] = Cardinality({r \in Rows : Summed(j, r)'})
    <3> DEFINE S == {r \in Rows : Summed(j, r)}
               T == {r \in Rows : Summed(j, r)'}
    <3>1. totalN[j] = Cardinality(S) /\ totalN[j] \in Nat
      BY <1>0, <1>1, <1>6 DEF SumInv, TypeOK
    <3>2. T = S \cup res.rows /\ S \cap res.rows = {}
      BY <1>7, <1>11
    <3>3. IsFiniteSet(S)
      BY <1>9, FS_Subset
    <3>4. Cardinality(T) = Cardinality(S) + Cardinality(res.rows)
      <4>1. Cardinality(S \cup res.rows)
              = Cardinality(S) + Cardinality(res.rows) - Cardinality(S \cap res.rows)
        BY <1>9, <3>3, FS_Union
      <4>2. Cardinality(S \cap res.rows) = 0 /\ Cardinality(S) \in Nat
        BY <3>1, <3>2, FS_EmptySet
      <4> HIDE DEF S, T
      <4> QED
        BY <1>9, <3>2, <4>1, <4>2
    <3> HIDE DEF S, T
    <3>5. CASE good
      BY <1>0, <1>1, <3>1, <3>4, <3>5 DEF TypeOK, T
    <3>6. CASE ~good
      <4>1. Cardinality(res.rows) = 0 /\ totalN'[j] = totalN[j]
        BY <1>1, <1>8, <3>6, FS_EmptySet
      <4> QED
        BY <3>1, <3>4, <4>1 DEF T
    <3> QED
      BY <3>5, <3>6
  <2>5. ASSUME NEW m \in Nodes, NEW r \in PartOf(m)
        PROVE  IF gpc'[j][m] = "off" THEN Queued(j, r)' \/ Summed(j, r)' \/ Failing(j)'
                                     ELSE ~(Queued(j, r)' \/ Summed(j, r)')
    <3>1. r \in Rows
      BY PartitionFacts
    <3> QED
      BY <1>1, <1>2, <1>6, <1>10, <1>11, <1>18, <3>1 DEF SumInv
  <2>6. \A m \in Nodes : Answer(j, m)' = Answer(j, m) /\ PartOf(m)' = PartOf(m)
    BY <1>2 DEF Answer, GradientResult, Msg, PartOf
  <2> QED
    BY <2>1, <2>2, <2>3, <2>4, <2>5, <2>6 DEF SumInv, new
<1>20. SumsOf(j)' /\ \A n \in Nodes : ConnInv(j, n)'
  BY <1>0, <1>15, <1>16, <1>17, <1>19, ConnPreserved DEF SumsOf
<1> QED
  BY <1>13, <1>14, <1>15, <1>20, OneJob

(***************************************************************************)
(* At the end of an epoch without an error the sum is the full gradient at *)
(* the theta the epoch began with.                                         *)
(***************************************************************************)
LEMMA GatheredSum ==
  ASSUME IInv, NEW j \in Jobs, jpc[j] = "gather", Gathered(j), ~EpochFailed(j)
  PROVE  gradTotal[j] = [r \in Rows |-> <<theta[j]>>] /\ totalN[j] = N
<1>0. TypeOK /\ SumInv(j)
  BY DEF IInv, SumsOf
<1>1. resultCh[j] = <<>> /\ \A n \in Nodes : gpc[j][n] = "off"
  BY DEF Gathered
<1>2. \A r \in Rows : ~Queued(j, r)
  BY <1>1 DEF Queued
<1>3. ~Failing(j)
  BY <1>1 DEF Failing, EpochFailed
<1>4. ASSUME NEW r \in Rows PROVE Summed(j, r) /\ gradTotal[j][r] = <<theta[j]>>
  <2>1. PICK n \in Nodes : r \in PartOf(n)
    BY PartitionFacts
  <2>2. Summed(j, r)
    BY <1>0, <1>1, <1>2, <1>3, <2>1 DEF SumInv
  <2> QED
    BY <1>0, <2>2 DEF SumInv
<1>5. {r \in Rows : Summed(j, r)} = Rows
  BY <1>4
<1>6. totalN[j] = N
  BY <1>0, <1>5, RowsAreFinite DEF SumInv
<1>7. gradTotal[j] \in [Rows -> Seq(Theta)]
  BY <1>0 DEF TypeOK
<1> QED
  BY <1>4, <1>6, <1>7

LEMMA EndEpochIInv == ASSUME IInv, NEW j \in Jobs, EndEpoch(j) PROVE IInv'
<1> DEFINE t == IF totalN[j] > 0 THEN Update(theta[j], gradTotal[j], totalN[j]) ELSE theta[j]
<1>0. TypeOK /\ SumsOf(j) /\ \A n \in Nodes : ConnInv(j, n)
  BY DEF IInv
<1>1. /\ jpc[j] = "gather" /\ Gathered(j) /\ ~EpochFailed(j)
      /\ theta' = [theta EXCEPT ![j] = t]
      /\ lossHistory' = [lossHistory EXCEPT ![j] = Append(@, theta'[j])]
      /\ epoch' = [epoch EXCEPT ![j] = @ + 1]
      /\ jpc' = [jpc EXCEPT ![j] = IF epoch[j] = Epochs THEN "stop" ELSE "epoch"]
      /\ UNCHANGED <<slot, sumVars, resultCh, gpc, connVars, nodeVars, faults>>
  BY DEF EndEpoch, LastEpoch
<1>2. t \in Theta
  <2>1. gradTotal[j] = [r \in Rows |-> <<theta[j]>>] /\ totalN[j] = N /\ theta[j] \in Theta
    BY <1>0, <1>1, GatheredSum DEF TypeOK
  <2> QED
    BY <2>1, ThetaAssumption
<1> HIDE DEF t
<1>3. /\ epoch[j] \in 1 .. Epochs /\ Epochs \in Nat
      /\ epoch[j] + 1 \in 1 .. Epochs + 1
  BY <1>0, <1>1, SizesAssumption DEF TypeOK, SumsOf, HistoryInv
<1>4. /\ theta'[j] = t /\ epoch'[j] = epoch[j] + 1
      /\ jpc'[j] = IF epoch[j] = Epochs THEN "stop" ELSE "epoch"
      /\ lossHistory'[j] = Append(lossHistory[j], t)
      /\ lossHistory[j] \in Seq(Theta)
      /\ \A k \in Jobs \ {j} : /\ theta'[k] = theta[k] /\ epoch'[k] = epoch[k]
                               /\ jpc'[k] = jpc[k] /\ lossHistory'[k] = lossHistory[k]
  BY <1>0, <1>1 DEF TypeOK
<1>5. TypeOK'
  <2>1. Append(lossHistory[j], t) \in Seq(Theta)
    BY <1>2, <1>4
  <2>2. /\ lossHistory' \in [Jobs -> Seq(Theta)] /\ theta' \in [Jobs -> Theta]
        /\ epoch' \in [Jobs -> 1 .. Epochs+1]
    BY <1>0, <1>1, <1>2, <1>3, <1>4, <2>1 DEF TypeOK
  <2>3. jpc' \in [Jobs -> {"idle", "dial", "init", "ack", "epoch", "gather", "stop",
                           "done", "failed"}]
    BY <1>0, <1>1 DEF TypeOK
  <2> QED
    BY <1>0, <1>1, <2>2, <2>3 DEF TypeOK, sumVars, connVars, nodeVars
<1>6. \A k \in Jobs \ {j} : SameSums(k) /\ \A m \in Nodes : SameConn(k, m)
  BY <1>1, <1>4 DEF SameSums, SameConn, sumVars, connVars, nodeVars
<1>7. SumsOf(j)'
  <2>1. /\ Len(lossHistory'[j]) = Len(lossHistory[j]) + 1
        /\ lossHistory'[j][Len(lossHistory[j]) + 1] = t
        /\ lossHistory'[j] # <<>>
    BY <1>2, <1>4, Appends
  <2>2. Len(lossHistory[j]) = epoch[j] - 1
    BY <1>0 DEF SumsOf, HistoryInv
  <2>3. HistoryInv(j)'
    BY <1>3, <1>4, <2>1, <2>2 DEF HistoryInv, LastTheta
  <2>4. resultCh'[j] = <<>>
    BY <1>1 DEF Gathered
  <2> QED
    BY <1>4, <2>3, <2>4 DEF SumsOf, ResultInv, SumInv
<1>8. ASSUME NEW n \in Nodes PROVE ConnInv(j, n)'
  <2>1. gpc[j][n] = "off"
    BY <1>1 DEF Gathered
  <2>2. toNode[j][n] = <<>> /\ toCoord[j][n] = <<>>
    BY <1>0, <1>1, <2>1 DEF ConnInv, QueueInv, Stopped
  <2>3. ServedInv(j, n)'
    BY <1>0, <1>1, <1>4 DEF ConnInv, ServedInv, Served, PartOf, connVars, nodeVars
  <2>4. QueueInv(j, n)'
    BY <1>1, <1>4, <2>1, <2>2 DEF QueueInv, connVars
  <2> QED
    BY <1>1, <1>4, <2>1, <2>2, <2>3, <2>4 DEF ConnInv, connVars
<1> QED
  BY <1>5, <1>6, <1>7, <1>8, OneJob

--------------------------------------------------------------------------------
(***************************************************************************)
(* The end of a job.                                                       *)
(***************************************************************************)

LEMMA StopNodeIInv == ASSUME IInv, NEW j \in Jobs, StopNode(j) PROVE IInv'
<1> DEFINE s == slot[j]
           last == s = K - 1
<1>0. TypeOK /\ SumsOf(j) /\ \A n \in Nodes : ConnInv(j, n)
  BY DEF IInv
<1>1. s \in Nodes /\ K \in Nat \ {0} /\ (s # K - 1 => s + 1 \in Nodes)
  <2>1. s \in Nodes /\ K \in Nat \ {0}
    BY <1>0, SizesAssumption DEF TypeOK
  <2> HIDE DEF s
  <2> QED
    BY <2>1 DEF Nodes
<1>2. /\ jpc[j] = "stop"
      /\ toNode' = IF link[j][s] = "open" THEN Send(toNode, j, s, Stop) ELSE toNode
      /\ link' = [link EXCEPT ![j][s] = "closed"]
      /\ last => jpc' = [jpc EXCEPT ![j] = "done"] /\ UNCHANGED slot
      /\ ~last => slot' = [slot EXCEPT ![j] = s + 1] /\ UNCHANGED jpc
      /\ UNCHANGED <<epoch, theta, lossHistory, sumVars, resultCh, gpc, toCoord, nodeVars,
                     faults>>
  BY DEF StopNode, Current, NodeAt, Close
<1>3. Stop \in MsgType
  BY <1>0, <1>1, MessageTypes
<1>4. /\ toNode' \in [Jobs -> [Nodes -> Seq(MsgType)]]
      /\ toNode'[j][s] = IF link[j][s] = "open" THEN Append(toNode[j][s], Stop) ELSE toNode[j][s]
      /\ \A k \in Jobs, m \in Nodes : k # j \/ m # s => toNode'[k][m] = toNode[k][m]
  BY <1>0, <1>1, <1>2, <1>3, SendingIf
<1>5. /\ link' \in [Jobs -> [Nodes -> {"none", "open", "closed", "broken"}]]
      /\ link'[j][s] = "closed"
      /\ \A k \in Jobs, m \in Nodes : k # j \/ m # s => link'[k][m] = link[k][m]
  BY <1>0, <1>1, <1>2 DEF TypeOK
<1>6. /\ jpc'[j] = IF last THEN "done" ELSE "stop"
      /\ slot'[j] = IF last THEN s ELSE s + 1
      /\ \A k \in Jobs \ {j} : jpc'[k] = jpc[k] /\ slot'[k] = slot[k]
      /\ slot' \in [Jobs -> Nodes]
  <2>1. slot \in [Jobs -> Nodes] /\ jpc[j] = "stop" /\ DOMAIN jpc = Jobs
    BY <1>0, <1>2 DEF TypeOK
  <2>2. CASE last
    BY <1>2, <2>1, <2>2
  <2>3. CASE ~last
    <3>1. s + 1 \in Nodes /\ slot' = [slot EXCEPT ![j] = s + 1] /\ jpc' = jpc
      BY <1>1, <1>2, <2>3
    <3> HIDE DEF s
    <3> QED
      BY <2>1, <2>3, <3>1
  <2> QED
    BY <2>2, <2>3
<1>7. TypeOK'
  BY <1>0, <1>2, <1>4, <1>5, <1>6 DEF TypeOK, sumVars, nodeVars
<1>8. SumsOf(j)'
  BY <1>0, <1>2, <1>6 DEF SumsOf, HistoryInv, ResultInv, SumInv, LastTheta, IsCurrent, sumVars
<1>9. ASSUME NEW n \in Nodes PROVE ConnInv(j, n)'
  <2>1. gpc[j][n] = "off" /\ toCoord[j][n] = <<>> /\ (n = s => ~(n < slot[j]))
    BY <1>0, <1>1, <1>2 DEF ConnInv, QueueInv, Nodes
  <2>2. n < s \/ n = s => Stopped(j, n)'
    BY <1>1, <1>6 DEF Stopped, Nodes
  <2>3. toNode'[j][n] = <<>> \/ (Stopped(j, n)' /\ toNode'[j][n] = <<Stop>>)
    <3>1. CASE n = s
      <4>1. toNode[j][n] = <<>>
        BY <1>0, <1>2, <2>1, <3>1 DEF ConnInv, QueueInv, Stopped
      <4>2. toNode'[j][n] = <<>> \/ toNode'[j][n] = <<Stop>>
        BY <1>4, <3>1, <4>1, Singleton
      <4> QED
        BY <2>2, <3>1, <4>2
    <3>2. CASE n # s
      BY <1>0, <1>2, <1>4, <2>1, <2>2, <3>2 DEF ConnInv, QueueInv, Stopped
    <3> QED
      BY <3>1, <3>2
  <2>4. QueueInv(j, n)'
    BY <1>2, <1>6, <2>1, <2>3 DEF QueueInv
  <2>5. ServedInv(j, n)'
    BY <1>6 DEF ServedInv, Served
  <2>6. link'[j][n] = "broken" => toNode'[j][n] = <<>>
    BY <1>0, <1>4, <1>5 DEF ConnInv
  <2> QED
    BY <1>2, <1>6, <2>1, <2>4, <2>5, <2>6 DEF ConnInv
<1>10. \A k \in Jobs \ {j} : SameSums(k) /\ \A m \in Nodes : SameConn(k, m)
  BY <1>2, <1>4, <1>5, <1>6 DEF SameSums, SameConn, sumVars, nodeVars
<1> QED
  BY <1>7, <1>8, <1>9, <1>10, OneJob

LEMMA FinalizeIInv ==
  ASSUME IInv, NEW j \in Jobs, NEW n \in Nodes, Finalize(j, n) PROVE IInv'
<1> USE DEF Finalize, Close, jobVars, sumVars, nodeVars
<1>0. TypeOK /\ SumsOf(j) /\ ConnInv(j, n)
  BY DEF IInv
<1>1. TypeOK'
  BY <1>0 DEF TypeOK
<1>2. /\ link'[j][n] = "closed"
      /\ \A k \in Jobs, m \in Nodes : k # j \/ m # n => link'[k][m] = link[k][m]
  BY <1>0 DEF TypeOK
<1>3. /\ \A k \in Jobs : SameSums(k)
      /\ \A k \in Jobs, m \in Nodes : k # j \/ m # n => SameConn(k, m)
  BY <1>2 DEF SameSums, SameConn
<1>4. ConnInv(j, n)'
  <2>1. LateInv(j, n)'
    BY <1>0 DEF ConnInv, LateInv, IsCurrent
  <2> QED
    BY <1>0, <1>2, <2>1 DEF ConnInv
<1> QED
  BY <1>0, <1>1, <1>3, <1>4, SumsPreserved, OneConn

LEMMA CrashAPIIInv == ASSUME IInv, CrashAPI PROVE IInv'
<1>0. TypeOK
  BY DEF IInv
<1>1. PICK lost \in BOOLEAN :
        toNode' = [k \in Jobs |-> [m \in Nodes |->
                     IF lost /\ link[k][m] = "open" THEN <<>> ELSE toNode[k][m]]]
  BY DEF CrashAPI
<1>2. /\ faults < MaxFaults /\ faults' = faults + 1
      /\ jpc' = [k \in Jobs |-> IF Running(k) THEN "failed" ELSE jpc[k]]
      /\ gpc' = [k \in Jobs |-> [m \in Nodes |-> "off"]]
      /\ link' = [k \in Jobs |-> [m \in Nodes |->
                    IF link[k][m] = "open" THEN "closed" ELSE link[k][m]]]
      /\ UNCHANGED <<slot, epoch, theta, lossHistory, sumVars, resultCh, toCoord, nodeVars>>
  BY DEF CrashAPI
<1>3. TypeOK'
  <2>1. faults' \in 0 .. MaxFaults
    BY <1>0, <1>2, SizesAssumption DEF TypeOK
  <2>2. toNode' \in [Jobs -> [Nodes -> Seq(MsgType)]]
    BY <1>0, <1>1 DEF TypeOK
  <2>3. link' \in [Jobs -> [Nodes -> {"none", "open", "closed", "broken"}]]
    BY <1>0, <1>2 DEF TypeOK
  <2> QED
    BY <1>0, <1>2, <2>1, <2>2, <2>3 DEF TypeOK, sumVars, nodeVars
<1>4. ASSUME NEW k \in Jobs
      PROVE  jpc'[k] = IF jpc[k] \in {"idle", "done", "failed"} THEN jpc[k] ELSE "failed"
  BY <1>2 DEF Running
<1>5. ASSUME NEW k \in Jobs PROVE SumsOf(k)'
  <2>1. SumsOf(k) /\ epoch[k] <= Epochs + 1
    BY <1>0, SizesAssumption DEF IInv, TypeOK
  <2> QED
    BY <1>2, <1>4, <2>1
    DEF SumsOf, HistoryInv, ResultInv, SumInv, LastTheta, IsCurrent, sumVars
<1>6. ASSUME NEW k \in Jobs, NEW m \in Nodes PROVE ConnInv(k, m)'
  <2>1. ConnInv(k, m) /\ LateInv(k, m)
    BY ConnIsLate DEF IInv
  <2>2. /\ gpc'[k][m] = "off" /\ link'[k][m] # "open"
        /\ link'[k][m] = "broken" => link[k][m] = "broken"
        /\ toNode'[k][m] = <<>> \/ toNode'[k][m] = toNode[k][m]
    BY <1>0, <1>1, <1>2 DEF TypeOK
  <2>3. LateInv(k, m)'
    BY <1>2, <2>1, <2>2 DEF LateInv, IsCurrent
  <2>4. CASE jpc[k] \in {"idle", "done"}
    <3>1. QueueInv(k, m)'
      BY <1>2, <1>4, <2>1, <2>2, <2>4 DEF ConnInv, QueueInv, Stopped
    <3> QED
      BY <1>2, <1>4, <2>1, <2>2, <2>4, <3>1 DEF ConnInv, ServedInv
  <2>5. CASE jpc[k] \notin {"idle", "done"}
    BY <1>2, <1>4, <2>1, <2>2, <2>3, <2>5 DEF ConnInv
  <2> QED
    BY <2>4, <2>5
<1> QED
  BY <1>3, <1>5, <1>6 DEF IInv

--------------------------------------------------------------------------------
(***************************************************************************)
(* A node.                                                                 *)
(***************************************************************************)

(***************************************************************************)
(* A connection that n does not serve does not depend on its state.        *)
(***************************************************************************)
SameLink(k, m) ==
  /\ jpc'[k] = jpc[k] /\ slot'[k] = slot[k] /\ epoch'[k] = epoch[k] /\ theta'[k] = theta[k]
  /\ gpc'[k][m] = gpc[k][m] /\ link'[k][m] = link[k][m]
  /\ toNode'[k][m] = toNode[k][m] /\ toCoord'[k][m] = toCoord[k][m]

LEMMA NotServed ==
  ASSUME NEW k \in Jobs, NEW m \in Nodes, ConnInv(k, m), SameLink(k, m), serving[m] # k
  PROVE  ConnInv(k, m)'
<1> USE DEF SameLink
<1>1. LateInv(k, m)' <=> LateInv(k, m)
  BY DEF LateInv, IsCurrent
<1>2. Answer(k, m)' = Answer(k, m) /\ Param(k)' = Param(k)
  BY DEF Answer, Param, PartOf, GradientResult, ParamUpdate, Msg
<1>3. QueueInv(k, m)' <=> QueueInv(k, m)
  BY <1>2 DEF QueueInv, Exchange, Stopped, PartOf
<1>4. ASSUME jpc[k] # "failed" PROVE ServedInv(k, m)'
  <2>1. ~(link[k][m] = "open" /\ Served(k, m))
    BY <1>4 DEF ConnInv, ServedInv
  <2>2. Served(k, m)' <=> Served(k, m)
    BY DEF Served
  <2> QED
    BY <2>1, <2>2 DEF ServedInv
<1> QED
  BY <1>1, <1>3, <1>4 DEF ConnInv

(***************************************************************************)
(* A step of node n, that at most the job it serves sees.                  *)
(***************************************************************************)
LEMMA OneNode ==
  ASSUME IInv, NEW n \in Nodes, TypeOK', UNCHANGED <<jobVars, sumVars, resultCh, gpc>>,
         \A k \in Jobs, m \in Nodes \ {n} : SameConn(k, m),
         \A k \in Jobs : serving[n] # k => SameLink(k, n),
         \A k \in Jobs : serving[n] = k => ConnInv(k, n)'
  PROVE  IInv'
<1>1. \A k \in Jobs : SumsOf(k)'
  BY SumsPreserved DEF IInv, SameSums, jobVars, sumVars
<1>2. \A k \in Jobs, m \in Nodes : ConnInv(k, m)'
  BY ConnPreserved, NotServed DEF IInv
<1> QED
  BY <1>1, <1>2 DEF IInv

LEMMA AcceptIInv == ASSUME IInv, NEW n \in Nodes, Accept(n) PROVE IInv'
<1>0. TypeOK
  BY DEF IInv
<1>1. /\ serving[n] = Idle /\ backlog[n] # <<>>
      /\ serving' = [serving EXCEPT ![n] = Head(backlog[n])]
      /\ backlog' = [backlog EXCEPT ![n] = Tail(@)]
      /\ held' = [held EXCEPT ![n] = {}]
      /\ UNCHANGED <<jobVars, sumVars, resultCh, gpc, connVars, up, hung, faults>>
  BY DEF Accept
<1>2. backlog[n] \in Seq(Jobs) /\ Head(backlog[n]) \in Jobs /\ Tail(backlog[n]) \in Seq(Jobs)
  BY <1>0, <1>1 DEF TypeOK
<1>3. TypeOK'
  BY <1>0, <1>1, <1>2 DEF TypeOK, jobVars, sumVars, connVars
<1>4. \A k \in Jobs : serving[n] # k
  BY <1>1 DEF Idle, Jobs
<1>5. /\ \A k \in Jobs, m \in Nodes \ {n} : SameConn(k, m)
      /\ \A k \in Jobs : SameLink(k, n)
  BY <1>0, <1>1 DEF TypeOK, SameConn, SameLink, jobVars, connVars
<1> QED
  BY <1>1, <1>3, <1>4, <1>5, OneNode

LEMMA HangOrRestartIInv ==
  ASSUME IInv, NEW n \in Nodes, Hang(n) \/ RestartNode(n) PROVE IInv'
<1>0. TypeOK
  BY DEF IInv
<1>1. /\ UNCHANGED <<jobVars, sumVars, resultCh, gpc, connVars, backlog, serving, held>>
      /\ up' \in [Nodes -> BOOLEAN] /\ hung' \in [Nodes -> BOOLEAN]
      /\ faults' \in 0 .. MaxFaults
  <2>1. CASE Hang(n)
    BY <1>0, <2>1, SizesAssumption DEF TypeOK, Hang
  <2>2. CASE RestartNode(n)
    BY <1>0, <2>2 DEF TypeOK, RestartNode, connVars
  <2> QED
    BY <2>1, <2>2
<1>2. TypeOK'
  BY <1>0, <1>1 DEF TypeOK, jobVars, sumVars, connVars
<1>3. \A k \in Jobs, m \in Nodes : SameConn(k, m)
  BY <1>1 DEF SameConn, jobVars, connVars
<1>4. \A k \in Jobs : SumsOf(k)'
  BY <1>1, SumsPreserved DEF IInv, SameSums, jobVars, sumVars
<1> QED
  BY <1>2, <1>3, <1>4, ConnPreserved DEF IInv

(***************************************************************************)
(* Its connections break; the node forgets them.                           *)
(***************************************************************************)
LEMMA CrashNodeIInv == ASSUME IInv, NEW n \in Nodes, CrashNode(n) PROVE IInv'
<1>0. TypeOK
  BY DEF IInv
<1>1. PICK lost \in BOOLEAN :
        toCoord' = [j \in Jobs |-> [toCoord[j] EXCEPT ![n] = IF lost THEN <<>> ELSE @]]
  BY DEF CrashNode
<1>2. /\ faults < MaxFaults /\ faults' = faults + 1
      /\ up' = [up EXCEPT ![n] = FALSE]
      /\ hung' = [hung EXCEPT ![n] = FALSE]
      /\ backlog' = [backlog EXCEPT ![n] = <<>>]
      /\ serving' = [serving EXCEPT ![n] = Idle]
      /\ held' = [held EXCEPT ![n] = {}]
      /\ link' = [j \in Jobs |-> [link[j] EXCEPT ![n] = IF @ = "open" THEN "broken" ELSE @]]
      /\ toNode' = [j \in Jobs |-> [toNode[j] EXCEPT ![n] = <<>>]]
      /\ UNCHANGED <<jobVars, sumVars, resultCh, gpc>>
  BY DEF CrashNode
<1>3. TypeOK'
  <2>1. faults' \in 0 .. MaxFaults
    BY <1>0, <1>2, SizesAssumption DEF TypeOK
  <2>2. toNode' \in [Jobs -> [Nodes -> Seq(MsgType)]]
    BY <1>0, <1>2 DEF TypeOK
  <2>3. toCoord' \in [Jobs -> [Nodes -> Seq(MsgType)]]
    BY <1>0, <1>1 DEF TypeOK
  <2>4. link' \in [Jobs -> [Nodes -> {"none", "open", "closed", "broken"}]]
    BY <1>0, <1>2 DEF TypeOK
  <2>5. /\ up' \in [Nodes -> BOOLEAN] /\ hung' \in [Nodes -> BOOLEAN]
        /\ backlog' \in [Nodes -> Seq(Jobs)] /\ serving' \in [Nodes -> Jobs \union {Idle}]
        /\ held' \in [Nodes -> SUBSET Rows]
    BY <1>0, <1>2 DEF TypeOK
  <2> QED
    BY <1>0, <1>2, <2>1, <2>2, <2>3, <2>4, <2>5 DEF TypeOK, jobVars, sumVars
<1>4. \A k \in Jobs, m \in Nodes \ {n} : SameConn(k, m)
  BY <1>0, <1>1, <1>2 DEF TypeOK, SameConn, jobVars
<1>5. ASSUME NEW k \in Jobs PROVE ConnInv(k, n)'
  <2>1. ConnInv(k, n) /\ LateInv(k, n)
    BY ConnIsLate DEF IInv
  <2>2. /\ link'[k][n] # "open" /\ toNode'[k][n] = <<>>
        /\ toCoord'[k][n] = <<>> \/ toCoord'[k][n] = toCoord[k][n]
        /\ jpc' = jpc /\ slot' = slot /\ epoch' = epoch /\ theta' = theta /\ gpc' = gpc
    BY <1>0, <1>1, <1>2 DEF TypeOK, jobVars
  <2>3. LateInv(k, n)'
    BY <2>1, <2>2 DEF LateInv, IsCurrent
  <2>4. Answer(k, n)' = Answer(k, n)
    BY <2>2 DEF Answer, PartOf, GradientResult, Msg
  <2>5. QueueInv(k, n) => QueueInv(k, n)'
    BY <2>2, <2>4 DEF QueueInv, Exchange
  <2>6. ServedInv(k, n)'
    BY <2>2 DEF ServedInv
  <2> QED
    BY <2>1, <2>2, <2>3, <2>5, <2>6 DEF ConnInv
<1>6. \A k \in Jobs : SumsOf(k)'
  BY <1>2, SumsPreserved DEF IInv, SameSums, jobVars, sumVars
<1> QED
  BY <1>3, <1>4, <1>5, <1>6, ConnPreserved DEF IInv

(***************************************************************************)
(* Node n reads the first message of the connection it serves.             *)
(***************************************************************************)
LEMMA Reading ==
  ASSUME IInv, NEW n \in Nodes, NEW j \in Jobs, NEW kind, Reads(n, j, kind)
  PROVE  /\ serving[n] = j /\ toNode[j][n] # <<>>
         /\ Head(toNode[j][n]) \in MsgType /\ Head(toNode[j][n]).kind = kind
         /\ IsCurrent(j, Head(toNode[j][n]))
         /\ toNode' \in [Jobs -> [Nodes -> Seq(MsgType)]]
         /\ toNode'[j][n] = Tail(toNode[j][n])
         /\ \A k \in Jobs, m \in Nodes : k # j \/ m # n => toNode'[k][m] = toNode[k][m]
         /\ \A i \in 1 .. Len(toNode'[j][n]) : IsCurrent(j, toNode'[j][n][i])
<1>1. TypeOK /\ LateInv(j, n)
  BY ConnIsLate DEF IInv
<1>2. toNode \in [Jobs -> [Nodes -> Seq(MsgType)]] /\ toNode[j][n] \in Seq(MsgType)
  BY <1>1 DEF TypeOK
<1>3. /\ serving[n] = j /\ toNode[j][n] # <<>> /\ Head(toNode[j][n]).kind = kind
      /\ toNode' = Receive(toNode, j, n)
  BY DEF Reads
<1>4. /\ toNode' \in [Jobs -> [Nodes -> Seq(MsgType)]]
      /\ toNode'[j][n] = Tail(toNode[j][n])
      /\ \A k \in Jobs, m \in Nodes : k # j \/ m # n => toNode'[k][m] = toNode[k][m]
      /\ Head(toNode[j][n]) \in MsgType
  BY <1>2, <1>3, Receiving
<1>5. /\ Head(toNode[j][n]) = toNode[j][n][1] /\ 1 \in 1 .. Len(toNode[j][n])
      /\ Len(toNode'[j][n]) = Len(toNode[j][n]) - 1 /\ Len(toNode[j][n]) \in Nat
      /\ \A i \in 1 .. Len(toNode[j][n]) - 1 :
           i + 1 \in 1 .. Len(toNode[j][n]) /\ toNode'[j][n][i] = toNode[j][n][i + 1]
  BY <1>2, <1>3, <1>4, Tails
<1>6. /\ IsCurrent(j, Head(toNode[j][n]))
      /\ \A i \in 1 .. Len(toNode'[j][n]) : IsCurrent(j, toNode'[j][n][i])
  BY <1>1, <1>5 DEF LateInv
<1> QED
  BY <1>3, <1>4, <1>6

(***************************************************************************)
(* It answers if the other side is there.                                  *)
(***************************************************************************)
LEMMA Replying ==
  ASSUME IInv, NEW n \in Nodes, NEW j \in Jobs, NEW msg \in MsgType, Reply(j, n, msg),
         IsCurrent(j, msg)
  PROVE  /\ toCoord' \in [Jobs -> [Nodes -> Seq(MsgType)]]
         /\ toCoord'[j][n] = IF link[j][n] = "open" THEN Append(toCoord[j][n], msg)
                                                    ELSE toCoord[j][n]
         /\ \A k \in Jobs, m \in Nodes : k # j \/ m # n => toCoord'[k][m] = toCoord[k][m]
         /\ \A i \in 1 .. Len(toCoord'[j][n]) : IsCurrent(j, toCoord'[j][n][i])
<1>1. TypeOK /\ LateInv(j, n)
  BY ConnIsLate DEF IInv
<1>2. toCoord \in [Jobs -> [Nodes -> Seq(MsgType)]] /\ toCoord[j][n] \in Seq(MsgType)
  BY <1>1 DEF TypeOK
<1>3. CASE link[j][n] = "open"
  <2>1. toCoord' = Send(toCoord, j, n, msg)
    BY <1>3 DEF Reply
  <2>2. /\ toCoord' \in [Jobs -> [Nodes -> Seq(MsgType)]]
        /\ toCoord'[j][n] = Append(toCoord[j][n], msg)
        /\ \A k \in Jobs, m \in Nodes : k # j \/ m # n => toCoord'[k][m] = toCoord[k][m]
    BY <1>2, <2>1, Sending
  <2>3. \A i \in 1 .. Len(toCoord'[j][n]) : IsCurrent(j, toCoord'[j][n][i])
    BY <1>1, <1>2, <2>2, Appends DEF LateInv
  <2> QED
    BY <1>3, <2>2, <2>3
<1>4. CASE link[j][n] # "open"
  <2>1. toCoord' = toCoord
    BY <1>4 DEF Reply
  <2> QED
    BY <1>1, <1>2, <1>4, <2>1 DEF LateInv
<1> QED
  BY <1>3, <1>4

LEMMA HandleInitIInv == ASSUME IInv, NEW n \in Nodes, HandleInit(n) PROVE IInv'
<1>1. PICK j \in Jobs :
        /\ Reads(n, j, "init")
        /\ held' = [held EXCEPT ![n] = Head(toNode[j][n]).rows]
        /\ Reply(j, n, Ack)
        /\ UNCHANGED <<jobVars, sumVars, resultCh, gpc, link, up, hung, backlog, serving,
                       faults>>
  BY DEF HandleInit
<1>0. TypeOK /\ ConnInv(j, n)
  BY DEF IInv
<1>2. Ack \in MsgType /\ IsCurrent(j, Ack)
  BY <1>0, MessageTypes DEF IsCurrent, Ack, Msg
<1>3. /\ serving[n] = j /\ toNode[j][n] # <<>>
      /\ Head(toNode[j][n]) \in MsgType /\ Head(toNode[j][n]).kind = "init"
      /\ toNode' \in [Jobs -> [Nodes -> Seq(MsgType)]]
      /\ toNode'[j][n] = Tail(toNode[j][n])
      /\ \A k \in Jobs, m \in Nodes : k # j \/ m # n => toNode'[k][m] = toNode[k][m]
      /\ \A i \in 1 .. Len(toNode'[j][n]) : IsCurrent(j, toNode'[j][n][i])
  BY <1>1, Reading
<1>4. /\ toCoord' \in [Jobs -> [Nodes -> Seq(MsgType)]]
      /\ toCoord'[j][n] = IF link[j][n] = "open" THEN Append(toCoord[j][n], Ack)
                                                 ELSE toCoord[j][n]
      /\ \A k \in Jobs, m \in Nodes : k # j \/ m # n => toCoord'[k][m] = toCoord[k][m]
      /\ \A i \in 1 .. Len(toCoord'[j][n]) : IsCurrent(j, toCoord'[j][n][i])
  BY <1>1, <1>2, Replying
<1>5. /\ held' \in [Nodes -> SUBSET Rows] /\ held'[n] = Head(toNode[j][n]).rows
      /\ \A m \in Nodes \ {n} : held'[m] = held[m]
  <2>1. Head(toNode[j][n]).rows \in SUBSET Rows
    BY <1>3 DEF MsgType
  <2> QED
    BY <1>0, <1>1, <2>1 DEF TypeOK
<1>6. TypeOK'
  BY <1>0, <1>1, <1>3, <1>4, <1>5 DEF TypeOK, jobVars, sumVars
<1>7. /\ \A k \in Jobs, m \in Nodes \ {n} : SameConn(k, m)
      /\ \A k \in Jobs \ {j} : SameLink(k, n)
  <2>1. jpc' = jpc /\ slot' = slot /\ epoch' = epoch /\ theta' = theta
        /\ gpc' = gpc /\ link' = link /\ serving' = serving
    BY <1>1 DEF jobVars
  <2> QED
    BY <1>3, <1>4, <1>5, <2>1 DEF SameConn, SameLink
<1>8. /\ jpc' = jpc /\ slot' = slot /\ epoch' = epoch /\ theta' = theta /\ gpc' = gpc
      /\ link' = link /\ serving' = serving
  BY <1>1 DEF jobVars
<1>9. ConnInv(j, n)'
  <2>1. link[j][n] # "broken"
    BY <1>0, <1>3 DEF ConnInv
  <2>2. CASE jpc[j] = "failed"
    <3>1. LateInv(j, n)'
      BY <1>3, <1>4, <1>8 DEF LateInv, IsCurrent
    <3> QED
      BY <1>0, <1>8, <2>1, <2>2, <3>1 DEF ConnInv
  <2>3. CASE jpc[j] # "failed"
    <3>1. QueueInv(j, n)
      BY <1>0, <2>3 DEF ConnInv
    <3>2. Param(j).kind # "init" /\ Stop.kind # "init" /\ DataInit(PartOf(n)).rows = PartOf(n)
      BY DEF Param, ParamUpdate, Stop, DataInit, Msg
    <3>3. /\ gpc[j][n] # "recv" /\ jpc[j] = "ack" /\ n = slot[j]
          /\ toNode[j][n] = <<DataInit(PartOf(n))>> /\ toCoord[j][n] = <<>>
      BY <1>3, <3>1, <3>2, Singleton DEF QueueInv, Exchange
    <3>4. toNode'[j][n] = <<>> /\ held'[n] = PartOf(n)
      BY <1>3, <1>5, <3>2, <3>3, Singleton
    <3>5. toCoord'[j][n] = <<Ack>> \/ toCoord'[j][n] = <<>>
      BY <1>4, <3>3, Singleton
    <3>6. QueueInv(j, n)'
      BY <1>8, <3>3, <3>4, <3>5 DEF QueueInv, Exchange
    <3>7. ServedInv(j, n)'
      BY <1>3, <1>8, <3>4 DEF ServedInv, PartOf
    <3> QED
      BY <1>0, <1>8, <2>1, <2>3, <3>6, <3>7 DEF ConnInv
  <2> QED
    BY <2>2, <2>3
<1> QED
  BY <1>1, <1>3, <1>6, <1>7, <1>9, OneNode

LEMMA HandleParamIInv == ASSUME IInv, NEW n \in Nodes, HandleParam(n) PROVE IInv'
<1>1. PICK j \in Jobs :
        /\ Reads(n, j, "param")
        /\ Reply(j, n, GradientResult(held[n], Head(toNode[j][n]).theta,
                                      Head(toNode[j][n]).epoch))
        /\ UNCHANGED <<jobVars, sumVars, resultCh, gpc, link, nodeVars, faults>>
  BY DEF HandleParam
<1> DEFINE msg == Head(toNode[j][n])
           res == GradientResult(held[n], msg.theta, msg.epoch)
<1>0. TypeOK /\ ConnInv(j, n)
  BY DEF IInv
<1>2. /\ serving[n] = j /\ toNode[j][n] # <<>>
      /\ msg \in MsgType /\ msg.kind = "param" /\ IsCurrent(j, msg)
      /\ toNode' \in [Jobs -> [Nodes -> Seq(MsgType)]]
      /\ toNode'[j][n] = Tail(toNode[j][n])
      /\ \A k \in Jobs, m \in Nodes : k # j \/ m # n => toNode'[k][m] = toNode[k][m]
      /\ \A i \in 1 .. Len(toNode'[j][n]) : IsCurrent(j, toNode'[j][n][i])
  BY <1>1, Reading
<1> HIDE DEF msg
<1>3. msg.theta = theta[j] /\ msg.epoch = epoch[j]
  BY <1>2 DEF IsCurrent
<1>4. res \in MsgType /\ IsCurrent(j, res)
  <2>1. held[n] \in SUBSET Rows /\ msg.theta \in Theta /\ msg.epoch \in 0 .. Epochs
    BY <1>0, <1>2 DEF TypeOK, MsgType
  <2> QED
    BY <1>3, <2>1 DEF GradientResult, Msg, MsgType, IsCurrent
<1>5. Reply(j, n, res)
  BY <1>1 DEF msg
<1> HIDE DEF res
<1>6. /\ toCoord' \in [Jobs -> [Nodes -> Seq(MsgType)]]
      /\ toCoord'[j][n] = IF link[j][n] = "open" THEN Append(toCoord[j][n], res)
                                                 ELSE toCoord[j][n]
      /\ \A k \in Jobs, m \in Nodes : k # j \/ m # n => toCoord'[k][m] = toCoord[k][m]
      /\ \A i \in 1 .. Len(toCoord'[j][n]) : IsCurrent(j, toCoord'[j][n][i])
  BY <1>4, <1>5, Replying
<1>7. TypeOK'
  BY <1>0, <1>1, <1>2, <1>6 DEF TypeOK, jobVars, sumVars, nodeVars
<1>8. /\ jpc' = jpc /\ slot' = slot /\ epoch' = epoch /\ theta' = theta /\ gpc' = gpc
      /\ link' = link /\ serving' = serving /\ held' = held
  BY <1>1 DEF jobVars, nodeVars
<1>9. /\ \A k \in Jobs, m \in Nodes \ {n} : SameConn(k, m)
      /\ \A k \in Jobs \ {j} : SameLink(k, n)
  BY <1>2, <1>6, <1>8 DEF SameConn, SameLink
<1>10. ConnInv(j, n)'
  <2>1. link[j][n] # "broken"
    BY <1>0, <1>2 DEF ConnInv
  <2>2. CASE jpc[j] = "failed"
    <3>1. LateInv(j, n)'
      BY <1>2, <1>6, <1>8 DEF LateInv, IsCurrent
    <3> QED
      BY <1>0, <1>8, <2>1, <2>2, <3>1 DEF ConnInv
  <2>3. CASE jpc[j] # "failed"
    <3>1. QueueInv(j, n) /\ ServedInv(j, n)
      BY <1>0, <2>3 DEF ConnInv
    <3>2. Stop.kind # "param" /\ DataInit(PartOf(n)).kind # "param"
      BY DEF Stop, DataInit, Msg
    <3>3. gpc[j][n] = "recv" /\ toNode[j][n] = <<Param(j)>> /\ toCoord[j][n] = <<>>
      BY <1>2, <3>1, <3>2, Singleton DEF QueueInv, Exchange, msg
    <3>4. jpc[j] = "gather"
      BY <1>0, <2>3, <3>3 DEF ConnInv
    <3>5. link[j][n] = "open" => res = Answer(j, n)
      BY <1>3, <3>1, <3>4 DEF ServedInv, Served, res, Answer
    <3>6. toNode'[j][n] = <<>> /\ (toCoord'[j][n] = <<Answer(j, n)>> \/ toCoord'[j][n] = <<>>)
      BY <1>2, <1>6, <3>3, <3>5, Singleton
    <3>7. Answer(j, n)' = Answer(j, n)
      BY <1>8 DEF Answer, PartOf, GradientResult, Msg
    <3>8. QueueInv(j, n)'
      BY <1>8, <3>3, <3>6, <3>7 DEF QueueInv, Exchange
    <3>9. ServedInv(j, n)'
      BY <1>8, <3>1, <3>4 DEF ServedInv, Served, PartOf
    <3> QED
      BY <1>0, <1>8, <2>1, <2>3, <3>8, <3>9 DEF ConnInv
  <2> QED
    BY <2>2, <2>3
<1> QED
  BY <1>1, <1>2, <1>7, <1>9, <1>10, OneNode

(***************************************************************************)
(* The node leaves the connection of job j, with what it has read of it.   *)
(***************************************************************************)
LEMMA LeaveIInv ==
  ASSUME IInv, NEW n \in Nodes, NEW j \in Jobs, Leave(n), serving[n] = j,
         toNode' \in [Jobs -> [Nodes -> Seq(MsgType)]],
         \A k \in Jobs, m \in Nodes : k # j \/ m # n => toNode'[k][m] = toNode[k][m],
         \A i \in 1 .. Len(toNode'[j][n]) : IsCurrent(j, toNode'[j][n][i]),
         toNode'[j][n] = <<>>
           \/ (toNode[j][n] # <<>> /\ toNode'[j][n] = Tail(toNode[j][n])),
         \/ link[j][n] # "open"
         \/ jpc[j] \in {"stop", "done", "failed"},
         UNCHANGED <<jobVars, sumVars, resultCh, gpc, link, toCoord, faults>>
  PROVE  IInv'
<1>0. TypeOK /\ ConnInv(j, n)
  BY DEF IInv
<1>1. /\ serving' = [serving EXCEPT ![n] = Idle]
      /\ held' = [held EXCEPT ![n] = {}]
      /\ UNCHANGED <<up, hung, backlog>>
  BY DEF Leave
<1>2. TypeOK'
  BY <1>0, <1>1 DEF TypeOK, jobVars, sumVars
<1>3. /\ \A k \in Jobs, m \in Nodes \ {n} : SameConn(k, m)
      /\ \A k \in Jobs \ {j} : SameLink(k, n)
  <2>1. jpc' = jpc /\ slot' = slot /\ epoch' = epoch /\ theta' = theta
        /\ gpc' = gpc /\ link' = link /\ toCoord' = toCoord
    BY DEF jobVars
  <2>2. \A m \in Nodes \ {n} : serving'[m] = serving[m] /\ held'[m] = held[m]
    BY <1>0, <1>1 DEF TypeOK
  <2> QED
    BY <2>1, <2>2 DEF SameConn, SameLink
<1>4. /\ jpc' = jpc /\ slot' = slot /\ epoch' = epoch /\ theta' = theta /\ gpc' = gpc
      /\ link' = link /\ toCoord' = toCoord
  BY DEF jobVars
<1>5. ConnInv(j, n)'
  <2>1. CASE jpc[j] = "failed"
    <3>0. LateInv(j, n)
      BY <1>0, <2>1 DEF ConnInv
    <3>1. LateInv(j, n)'
      BY <1>4, <3>0 DEF LateInv, IsCurrent
    <3>2. link[j][n] = "broken" => toNode'[j][n] = <<>>
      BY <1>0 DEF ConnInv
    <3> QED
      BY <1>0, <1>4, <2>1, <3>1, <3>2 DEF ConnInv
  <2>2. CASE jpc[j] # "failed"
    <3>1. QueueInv(j, n)
      BY <1>0, <2>2 DEF ConnInv
    <3>2. toNode'[j][n] = <<>>
      <4>1. toNode[j][n] = <<>> \/ \E x : toNode[j][n] = <<x>>
        BY <3>1 DEF QueueInv, Exchange
      <4>2. ASSUME NEW x, toNode[j][n] = <<x>> PROVE toNode'[j][n] = <<>>
        BY <4>2, Singleton
      <4>3. toNode[j][n] = <<>> => toNode'[j][n] = <<>>
        OBVIOUS
      <4> QED
        BY <4>1, <4>2, <4>3
    <3>3. Answer(j, n)' = Answer(j, n)
      BY <1>4 DEF Answer, PartOf, GradientResult, Msg
    <3>4. QueueInv(j, n)'
      BY <1>4, <3>1, <3>2, <3>3 DEF QueueInv, Exchange
    <3>5. ServedInv(j, n)'
      BY <1>4, <2>2 DEF ServedInv, Served
    <3> QED
      BY <1>0, <1>4, <2>2, <3>2, <3>4, <3>5 DEF ConnInv
  <2> QED
    BY <2>1, <2>2
<1> QED
  BY <1>2, <1>3, <1>5, OneNode

LEMMA HandleStopIInv == ASSUME IInv, NEW n \in Nodes, HandleStop(n) PROVE IInv'
<1>1. PICK j \in Jobs :
        /\ Reads(n, j, "stop")
        /\ Leave(n)
        /\ UNCHANGED <<jobVars, sumVars, resultCh, gpc, link, toCoord, faults>>
  BY DEF HandleStop
<1>2. /\ serving[n] = j /\ toNode[j][n] # <<>> /\ Head(toNode[j][n]).kind = "stop"
      /\ toNode' \in [Jobs -> [Nodes -> Seq(MsgType)]]
      /\ toNode'[j][n] = Tail(toNode[j][n])
      /\ \A k \in Jobs, m \in Nodes : k # j \/ m # n => toNode'[k][m] = toNode[k][m]
      /\ \A i \in 1 .. Len(toNode'[j][n]) : IsCurrent(j, toNode'[j][n][i])
  BY <1>1, Reading
<1>3. jpc[j] \in {"stop", "done", "failed"}
  <2>1. SUFFICES ASSUME jpc[j] # "failed" PROVE Stopped(j, n)
    BY DEF Stopped
  <2>2. QueueInv(j, n)
    BY <2>1 DEF IInv, ConnInv
  <2>3. Param(j).kind # "stop" /\ DataInit(PartOf(n)).kind # "stop"
    BY DEF Param, ParamUpdate, DataInit, Msg
  <2> QED
    BY <1>2, <2>2, <2>3, Singleton DEF QueueInv, Exchange
<1> QED
  BY <1>1, <1>2, <1>3, LeaveIInv

LEMMA GiveUpIInv == ASSUME IInv, NEW n \in Nodes, GiveUp(n) PROVE IInv'
<1>1. PICK j \in Jobs :
        /\ link[j][n] # "open"
        /\ \/ serving[n] = j /\ toNode[j][n] = <<>> /\ UNCHANGED toNode
           \/ Reads(n, j, "init")
           \/ Reads(n, j, "param")
        /\ Leave(n)
        /\ UNCHANGED <<jobVars, sumVars, resultCh, gpc, link, toCoord, faults>>
  BY DEF GiveUp
<1>2. CASE toNode[j][n] = <<>> /\ UNCHANGED toNode
  <2>1. serving[n] = j
    BY <1>1 DEF Reads
  <2>2. /\ toNode' \in [Jobs -> [Nodes -> Seq(MsgType)]]
        /\ toNode'[j][n] = <<>>
        /\ \A k \in Jobs, m \in Nodes : k # j \/ m # n => toNode'[k][m] = toNode[k][m]
        /\ \A i \in 1 .. Len(toNode'[j][n]) : IsCurrent(j, toNode'[j][n][i])
    BY <1>2 DEF IInv, TypeOK
  <2> QED
    BY <1>1, <2>1, <2>2, LeaveIInv
<1>3. ASSUME NEW kind, Reads(n, j, kind) PROVE IInv'
  <2>1. /\ serving[n] = j /\ toNode[j][n] # <<>>
        /\ toNode' \in [Jobs -> [Nodes -> Seq(MsgType)]]
        /\ toNode'[j][n] = Tail(toNode[j][n])
        /\ \A k \in Jobs, m \in Nodes : k # j \/ m # n => toNode'[k][m] = toNode[k][m]
        /\ \A i \in 1 .. Len(toNode'[j][n]) : IsCurrent(j, toNode'[j][n][i])
    BY <1>3, Reading
  <2> QED
    BY <1>1, <2>1, LeaveIInv
<1> QED
  BY <1>1, <1>2, <1>3

--------------------------------------------------------------------------------
(***************************************************************************)
(* The theorems.                                                           *)
(***************************************************************************)

LEMMA StutterIInv == ASSUME IInv, UNCHANGED vars PROVE IInv'
<1> USE DEF vars, jobVars, sumVars, connVars, nodeVars
<1>1. TypeOK'
  BY DEF IInv, TypeOK
<1>2. ASSUME NEW k \in Jobs PROVE SameSums(k) /\ \A m \in Nodes : SameConn(k, m)
  BY DEF SameSums, SameConn
<1>3. ASSUME NEW k \in Jobs PROVE SumsOf(k)' /\ \A m \in Nodes : ConnInv(k, m)'
  BY <1>2, SumsPreserved, ConnPreserved DEF IInv
<1> QED
  BY <1>1, <1>3 DEF IInv

(***************************************************************************)
(* No step violates the inductive invariant.                               *)
(***************************************************************************)
LEMMA NextIInv == IInv /\ [Next]_vars => IInv'
<1> SUFFICES ASSUME IInv, [Next]_vars PROVE IInv'
  OBVIOUS
<1>1. ASSUME NEW j \in Jobs, StartJob(j) \/ DialNext(j) PROVE IInv'
  BY <1>1, StartJobIInv, DialIInv, SendInitIInv, RecvAckIInv, FailureIInv DEF DialNext
<1>2. ASSUME NEW j \in Jobs, EpochNext(j) \/ Expire(j) PROVE IInv'
  BY <1>2, StartEpochIInv, TakeResultIInv, FailureIInv, EndEpochIInv, ExpireIInv DEF EpochNext
<1>3. ASSUME NEW j \in Jobs, StopNode(j) PROVE IInv'
  BY <1>3, StopNodeIInv
<1>4. ASSUME NEW j \in Jobs, NEW n \in Nodes, GoNext(j, n) \/ Finalize(j, n) PROVE IInv'
  BY <1>4, GoSendIInv, GoRecvIInv, GoFailsIInv, FinalizeIInv DEF GoNext
<1>5. ASSUME NEW n \in Nodes, NodeNext(n) PROVE IInv'
  BY <1>5, AcceptIInv, HandleInitIInv, HandleParamIInv, HandleStopIInv, GiveUpIInv DEF NodeNext
<1>6. ASSUME NEW n \in Nodes, Hang(n) \/ CrashNode(n) \/ RestartNode(n) PROVE IInv'
  BY <1>6, HangOrRestartIInv, CrashNodeIInv
<1>7. ASSUME CrashAPI PROVE IInv'
  BY <1>7, CrashAPIIInv
<1>8. ASSUME Quiet \/ UNCHANGED vars PROVE IInv'
  BY <1>8, StutterIInv DEF Quiet
<1> QED
  BY <1>1, <1>2, <1>3, <1>4, <1>5, <1>6, <1>7, <1>8 DEF Next, JobNext

LEMMA Invariance == Spec => []IInv
  BY InitIInv, NextIInv, PTL DEF Spec

(***************************************************************************)
(* The variables of the distributed trainer have their types: the node a   *)
(* loop dials or stops is in the list, and an epoch never exceeds Epochs   *)
(* (coordinator.go, TrainDistributed).                                     *)
(***************************************************************************)
THEOREM TypeCorrect == Spec => []TypeOK
<1>1. IInv => TypeOK
  BY DEF IInv
<1> QED
  BY <1>1, Invariance, PTL

(***************************************************************************)
(* A job never takes the gradient of one epoch for another's, although     *)
(* GradientResult.Epoch is not looked at (coordinator.go:121-160): each    *)
(* connection carries at most one exchange, and a job that fails makes no  *)
(* further epoch.                                                          *)
(***************************************************************************)
THEOREM AnswersCurrent == Spec => []AnswersAreCurrent
<1>1. ASSUME IInv PROVE AnswersAreCurrent
  <2>1. ASSUME NEW j \in Jobs, NEW i \in 1 .. Len(resultCh[j]), resultCh[j][i].kind = "gradient"
        PROVE  resultCh[j][i].theta = theta[j] /\ resultCh[j][i].epoch = epoch[j]
    BY <1>1, <2>1 DEF IInv, SumsOf, ResultInv, IsCurrent
  <2>2. ASSUME NEW j \in Jobs, NEW n \in Nodes, NEW i \in 1 .. Len(toCoord[j][n]),
               toCoord[j][n][i].kind = "gradient"
        PROVE  /\ gpc[j][n] = "recv" \/ jpc[j] = "failed"
               /\ toCoord[j][n][i].theta = theta[j]
               /\ toCoord[j][n][i].epoch = epoch[j]
    <3>1. ConnInv(j, n) /\ LateInv(j, n)
      BY <1>1, ConnIsLate DEF IInv
    <3>2. toCoord[j][n][i].theta = theta[j] /\ toCoord[j][n][i].epoch = epoch[j]
      BY <2>2, <3>1 DEF LateInv, IsCurrent
    <3>3. Ack.kind # "gradient" /\ <<Ack>>[1] = Ack /\ Len(<<Ack>>) = 1
      BY Singleton DEF Ack, Msg
    <3>4. gpc[j][n] = "recv" \/ jpc[j] = "failed"
      <4>1. SUFFICES ASSUME gpc[j][n] # "recv", jpc[j] # "failed" PROVE FALSE
        OBVIOUS
      <4>2. toCoord[j][n] = <<Ack>> \/ toCoord[j][n] = <<>>
        BY <3>1, <4>1 DEF ConnInv, QueueInv, Exchange
      <4> QED
        BY <2>2, <3>3, <4>2
    <3> QED
      BY <3>2, <3>4
  <2> QED
    BY <2>1, <2>2 DEF AnswersAreCurrent
<1> QED
  BY <1>1, Invariance, PTL

--------------------------------------------------------------------------------
(***************************************************************************)
(* Refinement of GradientDescent: every step is a step of descent of one   *)
(* job, the return of its model, or leaves what GradientDescent sees.      *)
(***************************************************************************)
Descends(j) == [GD(j)!Next]_(GD(j)!gdVars)

LEMMA Unseen ==
  ASSUME NEW j \in Jobs, lossHistory'[j] = lossHistory[j], theta'[j] = theta[j],
         jpc'[j] = "done" <=> jpc[j] = "done"
  PROVE  Descends(j)
  BY DEF Descends, GD!gdVars

(***************************************************************************)
(* The trajectory of a job.                                                *)
(***************************************************************************)
LEMMA TrajectoryFacts ==
  ASSUME IInv, NEW j \in Jobs
  PROVE  /\ Len(<<Zero>> \o lossHistory[j]) = epoch[j]
         /\ (<<Zero>> \o lossHistory[j])[Len(<<Zero>> \o lossHistory[j])] = theta[j]
         /\ epoch[j] \in 1 .. Epochs + 1
<1>1. /\ lossHistory[j] \in Seq(Theta) /\ epoch[j] \in 1 .. Epochs + 1
      /\ Len(lossHistory[j]) = epoch[j] - 1 /\ theta[j] = LastTheta(j)
  BY DEF IInv, TypeOK, SumsOf, HistoryInv
<1>2. /\ Len(<<Zero>> \o lossHistory[j]) = Len(lossHistory[j]) + 1
      /\ (<<Zero>> \o lossHistory[j])[Len(lossHistory[j]) + 1] = LastTheta(j)
  BY <1>1, ThetaAssumption, Prefixed DEF LastTheta
<1>3. Len(<<Zero>> \o lossHistory[j]) = epoch[j]
  BY <1>1, <1>2
<1> QED
  BY <1>1, <1>2, <1>3

LEMMA EndEpochDescends ==
  ASSUME IInv, NEW j \in Jobs, EndEpoch(j) PROVE Descends(j)
<1> DEFINE t == IF totalN[j] > 0 THEN Update(theta[j], gradTotal[j], totalN[j]) ELSE theta[j]
           trajectory == <<Zero>> \o lossHistory[j]
<1>0. TypeOK /\ SumsOf(j)
  BY DEF IInv
<1>1. /\ jpc[j] = "gather" /\ Gathered(j) /\ ~EpochFailed(j)
      /\ theta' = [theta EXCEPT ![j] = t]
      /\ lossHistory' = [lossHistory EXCEPT ![j] = Append(@, theta'[j])]
      /\ jpc' = [jpc EXCEPT ![j] = IF epoch[j] = Epochs THEN "stop" ELSE "epoch"]
  BY DEF EndEpoch, LastEpoch
<1>2. gradTotal[j] = [r \in Rows |-> <<theta[j]>>] /\ totalN[j] = N
  BY <1>1, GatheredSum
<1>3. N \in Nat /\ (N > 0 <=> N # 0)
  BY SizesAssumption
<1>4. /\ t = IF N = 0 THEN theta[j] ELSE Update(theta[j], [r \in 0 .. N-1 |-> <<theta[j]>>], N)
      /\ theta[j] \in Theta /\ t \in Theta
  <2>1. theta[j] \in Theta
    BY <1>0 DEF TypeOK
  <2> QED
    BY <1>2, <1>3, <2>1, ThetaAssumption DEF Rows
<1> HIDE DEF t
<1>5. /\ lossHistory'[j] = Append(lossHistory[j], t) /\ lossHistory[j] \in Seq(Theta)
      /\ jpc[j] # "done" /\ jpc'[j] # "done"
  BY <1>0, <1>1 DEF TypeOK
<1>6. <<Zero>> \o lossHistory'[j] = Append(trajectory, t)
  BY <1>4, <1>5, ThetaAssumption, Prefixed
<1>7. /\ Len(trajectory) = epoch[j] /\ trajectory[Len(trajectory)] = theta[j]
      /\ epoch[j] <= Epochs
  BY <1>0, <1>1, TrajectoryFacts DEF SumsOf, HistoryInv
<1> HIDE DEF trajectory
<1>8. GD(j)!Epoch
  BY <1>4, <1>5, <1>6, <1>7 DEF GD!Epoch, GD!Descend, GD!Current, GD!FullGradient, trajectory
<1> QED
  BY <1>8 DEF Descends, GD!Next

LEMMA StopNodeDescends ==
  ASSUME IInv, NEW j \in Jobs, StopNode(j) PROVE Descends(j)
<1>0. TypeOK /\ SumsOf(j)
  BY DEF IInv
<1>1. jpc[j] = "stop" /\ UNCHANGED <<theta, lossHistory>>
  BY DEF StopNode
<1>2. CASE jpc'[j] = "done"
  <2>1. /\ Len(<<Zero>> \o lossHistory[j]) = Epochs + 1
        /\ (<<Zero>> \o lossHistory[j])[Len(<<Zero>> \o lossHistory[j])] = theta[j]
    BY <1>0, <1>1, TrajectoryFacts DEF SumsOf, HistoryInv
  <2>2. GD(j)!Return
    BY <1>1, <1>2, <2>1 DEF GD!Return, GD!Current
  <2> QED
    BY <2>2 DEF Descends, GD!Next
<1>3. CASE jpc'[j] # "done"
  BY <1>1, <1>3, Unseen
<1> QED
  BY <1>2, <1>3

LEMMA StepDescends ==
  ASSUME IInv, [Next]_vars, NEW j \in Jobs PROVE Descends(j)
<1>0. TypeOK
  BY DEF IInv
<1>1. ASSUME NEW k \in Jobs, StartJob(k) \/ DialNext(k) PROVE Descends(j)
  <2>1. UNCHANGED <<theta, lossHistory>> /\ (jpc'[j] = "done" <=> jpc[j] = "done")
    <3>1. CASE StartJob(k)
      BY <1>0, <3>1 DEF TypeOK, StartJob
    <3>2. CASE Dial(k) \/ SendInit(k)
      BY <1>0, <3>2 DEF TypeOK, Dial, SendInit
    <3>3. CASE RecvAck(k)
      BY <1>0, <3>3 DEF TypeOK, RecvAck
    <3>4. CASE FailSetup(k)
      BY <1>0, <3>4 DEF TypeOK, FailSetup, Fail
    <3> QED
      BY <1>1, <3>1, <3>2, <3>3, <3>4 DEF DialNext
  <2> QED
    BY <2>1, Unseen
<1>2. ASSUME NEW k \in Jobs, StartEpoch(k) \/ TakeResult(k) \/ Expire(k) PROVE Descends(j)
  <2>1. UNCHANGED <<theta, lossHistory>> /\ (jpc'[j] = "done" <=> jpc[j] = "done")
    BY <1>0, <1>2 DEF TypeOK, StartEpoch, TakeResult, Expire, jobVars
  <2> QED
    BY <2>1, Unseen
<1>3. ASSUME NEW k \in Jobs, TimeOut(k) \/ FailEpoch(k) PROVE Descends(j)
  <2>1. UNCHANGED <<theta, lossHistory>> /\ (jpc'[j] = "done" <=> jpc[j] = "done")
    BY <1>0, <1>3 DEF TypeOK, TimeOut, FailEpoch, Fail
  <2> QED
    BY <2>1, Unseen
<1>4. ASSUME NEW k \in Jobs, EndEpoch(k) \/ StopNode(k) PROVE Descends(j)
  <2>1. CASE k = j
    BY <1>4, <2>1, EndEpochDescends, StopNodeDescends
  <2>2. CASE k # j
    <3>1. /\ theta'[j] = theta[j] /\ lossHistory'[j] = lossHistory[j]
          /\ jpc'[j] = "done" <=> jpc[j] = "done"
      BY <1>0, <1>4, <2>2 DEF TypeOK, EndEpoch, StopNode
    <3> QED
      BY <3>1, Unseen
  <2> QED
    BY <2>1, <2>2
<1>5. ASSUME NEW k \in Jobs, NEW n \in Nodes, GoNext(k, n) \/ Finalize(k, n)
      PROVE  Descends(j)
  <2>1. UNCHANGED <<jpc, theta, lossHistory>>
    BY <1>5 DEF GoNext, GoSend, GoRecv, GoFails, Finalize, jobVars
  <2> QED
    BY <2>1, Unseen
<1>6. ASSUME NEW n \in Nodes, NodeNext(n) PROVE Descends(j)
  <2>1. UNCHANGED <<jpc, theta, lossHistory>>
    BY <1>6 DEF NodeNext, Accept, HandleInit, HandleParam, HandleStop, GiveUp, jobVars
  <2> QED
    BY <2>1, Unseen
<1>7. ASSUME NEW n \in Nodes, Hang(n) \/ CrashNode(n) \/ RestartNode(n) PROVE Descends(j)
  <2>1. UNCHANGED <<jpc, theta, lossHistory>>
    BY <1>7 DEF Hang, CrashNode, RestartNode, jobVars
  <2> QED
    BY <2>1, Unseen
<1>8. ASSUME CrashAPI PROVE Descends(j)
  <2>1. UNCHANGED <<theta, lossHistory>> /\ (jpc'[j] = "done" <=> jpc[j] = "done")
    BY <1>8 DEF CrashAPI, Running
  <2> QED
    BY <2>1, Unseen
<1>9. ASSUME Quiet \/ UNCHANGED vars PROVE Descends(j)
  <2>1. UNCHANGED <<jpc, theta, lossHistory>>
    BY <1>9 DEF Quiet, vars, jobVars
  <2> QED
    BY <2>1, Unseen
<1> QED
  BY <1>1, <1>2, <1>3, <1>4, <1>5, <1>6, <1>7, <1>8, <1>9 DEF Next, JobNext, EpochNext

(***************************************************************************)
(* Whatever jobs share the nodes, and whatever crashes, hangs or runs out  *)
(* of time, each step of theta of every job is along the full gradient at  *)
(* the theta before it, and a job that returns has made Epochs of them     *)
(* (coordinator.go:100-180).                                               *)
(***************************************************************************)
THEOREM JobsDescend == Spec => JobsImplementGradientDescent
<1>1. ASSUME Init, NEW j \in Jobs PROVE GD(j)!Init
  <2>1. lossHistory[j] = <<>> /\ jpc[j] = "idle"
    BY <1>1 DEF Init
  <2>2. <<Zero>> \o <<>> = <<Zero>>
    BY ThetaAssumption, ConcatEmptySeq
  <2> QED
    BY <2>1, <2>2 DEF GD!Init
<1>2. Init => \A j \in Jobs : GD(j)!Init
  BY <1>1
<1>3. ASSUME IInv, [Next]_vars
      PROVE  [\A j \in Jobs : [GD(j)!Next]_(GD(j)!gdVars)]_vars
  BY <1>3, StepDescends DEF Descends
<1> QED
  BY <1>2, <1>3, Invariance, PTL DEF Spec, JobsImplementGradientDescent

================================================================================
