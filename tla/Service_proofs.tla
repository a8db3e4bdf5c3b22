---------------------------- MODULE Service_proofs -----------------------------
(***************************************************************************)
(* Proofs about Service: which model the stores and the answers name, for  *)
(* any numbers of requests, faults, keys and samples.                      *)
(***************************************************************************)
EXTENDS Service, Fit_proofs, FiniteSetTheorems

--------------------------------------------------------------------------------
(***************************************************************************)
(* The inductive invariant.                                                *)
(***************************************************************************)

Unversioned == {"idle", "train", "version"}
Versioned   == {"save", "run", "active", "publish", "ok"}
NotPut      == Unversioned \union {"save", "run", "active"}

(***************************************************************************)
(* A version for each train at most; a sample over Capacity for each trim  *)
(* that is due.                                                            *)
(***************************************************************************)
Passed   == {t \in Trains : tpc[t] \notin Unversioned}
Trimming == {p \in Predicts : ppc[p] = "trim"}

SeqInv     == seq <= Cardinality(Passed)
LatencyInv == latencies <= Capacity + Cardinality(Trimming)

VersionInv ==
  /\ \A t \in Trains : tpc[t] \in Unversioned => version[t] = None
  /\ \A t \in Trains : tpc[t] \in Versioned => version[t] # None
  /\ \A s, t \in Trains : version[s] = version[t] => s = t \/ version[s] = None

BeforeInv ==
  \A t \in Trains : \A s \in before[t] :
    tpc[s] = "ok" /\ (version[t] # None => version[s] < version[t])

(***************************************************************************)
(* Whatever a store holds, a request has read, or an answer names is a     *)
(* model with its version, which no later step changes.                    *)
(***************************************************************************)
Published(d) == d.model \in Trains /\ version[d.model] = d.version /\ d.version # None
Kept(m)      == m \in Trains /\ version[m] # None
Answered(d)  == d = NoModel \/ (Kept(d.model) /\ d.version \in {Cached, version[d.model]})

StoresInv ==
  /\ \A d \in models : Published(d)
  /\ active = NoModel \/ Published(active)
  /\ snapshot[1] = NoModel \/ Published(snapshot[1])
  /\ \A x \in Inputs : predCache[x] = None \/ Kept(predCache[x])
  /\ \A x \in Inputs : snapshot[2][x] = None \/ Kept(snapshot[2][x])

Unanswered == {"store", "answer"}

AnswersInv ==
  /\ \A p \in Predicts : fetched[p] = NoModel \/ Published(fetched[p])
  /\ \A p \in Predicts : ppc[p] \in Unanswered \/ p \in logging => fetched[p] # NoModel
  /\ \A p \in Predicts : Answered(answer[p])
  /\ \A e \in predictions : Answered(e.doc)

(***************************************************************************)
(* A write to Redis is made once, by a train that has a version; without   *)
(* faults it is made, and not late.                                        *)
(***************************************************************************)
PutInv ==
  /\ \A t \in Trains : tpc[t] \in NotPut => put[t] = "none"
  /\ \A t \in Trains : put[t] # "none" => version[t] # None

FaultlessInv ==
  faults = 0 =>
    \A t \in Trains : /\ put[t] \notin {"pending", "late"}
                      /\ tpc[t] \in {"publish", "ok"} /\ Marshalled(t) => put[t] = "applied"

IInv == /\ TypeOK /\ SeqInv /\ LatencyInv /\ VersionInv /\ BeforeInv
        /\ StoresInv /\ AnswersInv
        /\ PutInv /\ NoReturnToAnOlderModel /\ FaultlessInv

--------------------------------------------------------------------------------
(***************************************************************************)
(* What steps of many kinds have in common.                                *)
(***************************************************************************)

LEMMA Numbers ==
  /\ Trains \subseteq Nat \ {None} /\ NumTrains \in Nat /\ Capacity \in Nat \ {0}
  /\ MaxFaults \in Nat
  /\ IsFiniteSet(Trains) /\ Cardinality(Trains) = NumTrains
  /\ IsFiniteSet(Predicts)
<1>1. NumTrains \in Nat /\ NumPredicts \in Nat /\ Capacity \in Nat \ {0} /\ MaxFaults \in Nat
  BY SizesAssumption
<1>2. IsFiniteSet(1 .. NumTrains) /\ IsFiniteSet(1 .. NumPredicts)
  BY <1>1, FS_Interval
<1>3. Cardinality(1 .. NumTrains) = NumTrains
  BY <1>1, FS_Interval
<1> QED
  BY <1>1, <1>2, <1>3 DEF Trains, Predicts, None

LEMMA PassedIsFinite ==
  /\ IsFiniteSet(Passed) /\ Cardinality(Passed) \in Nat /\ Cardinality(Passed) <= NumTrains
<1>1. Passed \in SUBSET Trains
  BY DEF Passed
<1> QED
  BY <1>1, Numbers, FS_Subset, FS_CardinalityType

LEMMA TrimmingIsFinite ==
  IsFiniteSet(Trimming) /\ Cardinality(Trimming) \in Nat
<1>1. Trimming \in SUBSET Predicts
  BY DEF Trimming
<1> QED
  BY <1>1, Numbers, FS_Subset, FS_CardinalityType

LEMMA PassedIsFiniteNext ==
  (/\ IsFiniteSet(Passed) /\ Cardinality(Passed) \in Nat /\ Cardinality(Passed) <= NumTrains)'
  BY PassedIsFinite, PTL

LEMMA TrimmingIsFiniteNext ==
  (IsFiniteSet(Trimming) /\ Cardinality(Trimming) \in Nat)'
  BY TrimmingIsFinite, PTL

(***************************************************************************)
(* A step in which trains only go on, and none gets a version.             *)
(***************************************************************************)
GoesOn ==
  /\ UNCHANGED <<version, seq>>
  /\ \A t \in Trains : /\ tpc'[t] \in Unversioned => tpc[t] \in Unversioned
                       /\ tpc'[t] \in Versioned => tpc[t] \in Versioned
                       /\ tpc[t] = "ok" => tpc'[t] = "ok"

LEMMA GoesOnInv ==
  ASSUME IInv, GoesOn
  PROVE  SeqInv' /\ VersionInv' /\ (before' = before => BeforeInv')
<1>1. SeqInv'
  <2>1. Passed \subseteq Passed'
    BY DEF GoesOn, Passed
  <2>2. Cardinality(Passed) <= Cardinality(Passed')
    BY <2>1, PassedIsFiniteNext, FS_Subset
  <2>3. seq \in Nat /\ seq' = seq /\ seq <= Cardinality(Passed)
    BY Numbers DEF IInv, TypeOK, SeqInv, GoesOn
  <2> QED
    BY <2>2, <2>3, PassedIsFinite, PassedIsFiniteNext DEF SeqInv
<1>2. VersionInv'
  BY DEF IInv, VersionInv, GoesOn
<1>3. before' = before => BeforeInv'
  BY DEF IInv, TypeOK, BeforeInv, GoesOn
<1> QED
  BY <1>1, <1>2, <1>3

(***************************************************************************)
(* A version, once given, stays: so does what is said of it.               *)
(***************************************************************************)
VersionsStay == \A t \in Trains : version[t] # None => version'[t] = version[t]

LEMMA StaysTrue ==
  ASSUME VersionsStay
  PROVE  /\ \A d : Published(d) => Published(d)'
         /\ \A m : Kept(m) => Kept(m)'
         /\ \A d : Answered(d) => Answered(d)'
  BY DEF VersionsStay, Published, Kept, Answered

(***************************************************************************)
(* Steps that leave a part of the state alone.                             *)
(***************************************************************************)
TrainsSame == /\ UNCHANGED <<data, tpc, version, before, put, seq, active>>
              /\ faults' = 0 => faults = 0

LEMMA TrainsSameInv ==
  ASSUME IInv, TrainsSame
  PROVE  /\ SeqInv' /\ VersionInv' /\ BeforeInv'
         /\ PutInv' /\ NoReturnToAnOlderModel' /\ FaultlessInv' /\ VersionsStay
<1>1. GoesOn /\ before' = before /\ VersionsStay
  BY DEF TrainsSame, GoesOn, VersionsStay
<1>2. SeqInv' /\ VersionInv' /\ BeforeInv'
  BY <1>1, GoesOnInv
<1>3. PutInv' /\ NoReturnToAnOlderModel'
  BY DEF IInv, TrainsSame, PutInv, NoReturnToAnOlderModel
<1>4. FaultlessInv'
  BY DEF IInv, TrainsSame, FaultlessInv, Marshalled
<1> QED
  BY <1>1, <1>2, <1>3, <1>4

LEMMA StoresSameInv ==
  ASSUME IInv, VersionsStay, UNCHANGED <<models, active, snapshot, predCache>>
  PROVE  StoresInv'
  BY StaysTrue DEF IInv, StoresInv

AnswersSame == /\ UNCHANGED <<fetched, answer, predictions>>
               /\ logging' \subseteq logging
               /\ \A p \in Predicts : ppc'[p] \in Unanswered => ppc[p] \in Unanswered

LEMMA AnswersSameInv ==
  ASSUME IInv, VersionsStay, AnswersSame PROVE AnswersInv'
<1>1. \A p \in Predicts : fetched'[p] = NoModel \/ Published(fetched[p])'
  BY DEF IInv, AnswersInv, AnswersSame, VersionsStay, Published
<1>2. \A p \in Predicts : ppc'[p] \in Unanswered \/ p \in logging' => fetched'[p] # NoModel
  BY DEF IInv, AnswersInv, AnswersSame
<1>3. \A p \in Predicts : Answered(answer[p])'
  BY DEF IInv, AnswersInv, AnswersSame, VersionsStay, Answered, Kept
<1>4. \A e \in predictions' : Answered(e.doc)'
  BY StaysTrue DEF IInv, AnswersInv, AnswersSame
<1> QED
  BY <1>1, <1>2, <1>3, <1>4 DEF AnswersInv

LatenciesSame == /\ latencies' \in 0 .. latencies
                 /\ \A p \in Predicts : ppc[p] = "trim" => ppc'[p] = "trim"

LEMMA LatenciesSameInv ==
  ASSUME IInv, LatenciesSame PROVE LatencyInv'
<1>1. Trimming \subseteq Trimming'
  BY DEF LatenciesSame, Trimming
<1>2. Cardinality(Trimming) <= Cardinality(Trimming')
  BY <1>1, TrimmingIsFiniteNext, FS_Subset
<1>3. latencies \in Nat /\ latencies <= Capacity + Cardinality(Trimming)
  BY DEF IInv, TypeOK, LatencyInv
<1> QED
  BY <1>2, <1>3, Numbers, TrimmingIsFinite, TrimmingIsFiniteNext DEF LatencyInv, LatenciesSame

--------------------------------------------------------------------------------

LEMMA InitIInv == Init => IInv
<1> SUFFICES ASSUME Init PROVE IInv
  OBVIOUS
<1>1. /\ \A t \in Trains : data[t] \in TrainData(t)
      /\ tpc = [t \in Trains |-> "idle"] /\ version = [t \in Trains |-> None]
      /\ before = [t \in Trains |-> {}] /\ put = [t \in Trains |-> "none"]
      /\ ppc = [p \in Predicts |-> "idle"] /\ input \in [Predicts -> Inputs]
      /\ fetched = [p \in Predicts |-> NoModel] /\ answer = [p \in Predicts |-> NoModel]
      /\ logging = {} /\ seq = 0 /\ models = {} /\ runs = {} /\ predictions = {}
      /\ active = NoModel /\ predCache = [x \in Inputs |-> None] /\ latencies = 0
      /\ snapshot = <<active, predCache>> /\ faults = 0
  BY DEF Init
<1>2. NoModel \in Docs
  BY DEF NoModel, Docs, None
<1>3. TypeOK
  <2>1. /\ version \in [Trains -> 0 .. seq] /\ 0 \in 0 .. NumTrains /\ 0 \in 0 .. MaxFaults
    BY <1>1, Numbers DEF None
  <2>2. predCache \in [Inputs -> Trains \union {None}]
    BY <1>1
  <2>3. fetched \in [Predicts -> Docs] /\ answer \in [Predicts -> Docs] /\ active \in Docs
    BY <1>1, <1>2
  <2>4. snapshot \in Docs \X [Inputs -> Trains \union {None}]
    BY <1>1, <2>2, <2>3
  <2> QED
    BY <1>1, <2>1, <2>2, <2>3, <2>4 DEF TypeOK
<1>4. SeqInv /\ LatencyInv
  BY <1>1, Numbers, PassedIsFinite, TrimmingIsFinite DEF SeqInv, LatencyInv
<1>5. VersionInv /\ BeforeInv /\ PutInv /\ NoReturnToAnOlderModel /\ FaultlessInv
  BY <1>1 DEF VersionInv, BeforeInv, PutInv, NoReturnToAnOlderModel, FaultlessInv, Versioned,
              Unversioned, NotPut
<1>6. StoresInv /\ AnswersInv
  BY <1>1 DEF StoresInv, AnswersInv, Answered, Unanswered
<1> QED
  BY <1>3, <1>4, <1>5, <1>6 DEF IInv

--------------------------------------------------------------------------------
(***************************************************************************)
(* The steps of a train.                                                   *)
(***************************************************************************)

LEMMA StartTrainIInv == ASSUME IInv, NEW t \in Trains, StartTrain(t) PROVE IInv'
<1>1. /\ tpc[t] = "idle" /\ tpc' = [tpc EXCEPT ![t] = "train"]
      /\ before' = [before EXCEPT ![t] = {s \in Trains : tpc[s] = "ok"}]
      /\ UNCHANGED <<data, version, put, ppc, input, fetched, answer, logging, seq, models, runs,
                     predictions, active, predCache, latencies, snapshot, faults>>
  BY DEF StartTrain, Goto, predictVars, mongoVars, redisVars
<1>2. TypeOK
  BY DEF IInv
<1>3. TypeOK'
  BY <1>1, <1>2 DEF TypeOK
<1>4. GoesOn /\ VersionsStay /\ AnswersSame /\ LatenciesSame
  BY <1>1, <1>2 DEF GoesOn, VersionsStay, AnswersSame, LatenciesSame, TypeOK, Unversioned, Versioned
<1>5. LatencyInv' /\ SeqInv' /\ VersionInv' /\ AnswersInv' /\ StoresInv'
  BY <1>1, <1>4, GoesOnInv, LatenciesSameInv, AnswersSameInv, StoresSameInv
<1>6. BeforeInv'
  <2>1. version[t] = None /\ version'[t] = None
    BY <1>1 DEF IInv, VersionInv, Unversioned
  <2>2. ASSUME NEW u \in Trains, NEW s \in before'[u]
        PROVE  tpc'[s] = "ok" /\ (version'[u] # None => version'[s] < version'[u])
    <3>1. CASE u = t
      BY <1>1, <1>2, <2>1, <2>2, <3>1 DEF TypeOK
    <3>2. CASE u # t
      BY <1>1, <1>2, <2>2, <3>2 DEF TypeOK, IInv, BeforeInv
    <3> QED
      BY <3>1, <3>2
  <2> QED
    BY <2>2 DEF BeforeInv
<1>7. PutInv'
  BY <1>1, <1>2 DEF IInv, PutInv, TypeOK, NotPut, Unversioned
<1>8. NoReturnToAnOlderModel'
  <2>1. put[t] = "none"
    BY <1>1 DEF IInv, PutInv, NotPut, Unversioned
  <2> QED
    BY <1>1, <1>2, <2>1 DEF IInv, NoReturnToAnOlderModel, TypeOK
<1>9. FaultlessInv'
  BY <1>1, <1>2 DEF IInv, FaultlessInv, TypeOK, Marshalled
<1> QED
  BY <1>3, <1>5, <1>6, <1>7, <1>8, <1>9 DEF IInv

(***************************************************************************)
(* Those that change neither Redis nor the version.                        *)
(***************************************************************************)
LEMMA TrainStepsIInv ==
  ASSUME IInv, NEW t \in Trains,
         Train(t) \/ SaveModelVersion(t) \/ SaveTrainingRun(t) \/ Publish(t)
  PROVE  IInv'
<1> DEFINE Ways == { <<"train", "version">>, <<"train", "error">>, <<"save", "run">>,
                     <<"run", "active">>, <<"publish", "ok">> }
<1>1. /\ \E y : tpc' = [tpc EXCEPT ![t] = y] /\ <<tpc[t], y>> \in Ways
      /\ models' = models \/ (tpc[t] = "save" /\ models' = models \union {Doc(version[t], t)})
      /\ runs' = runs \/ (tpc[t] = "run" /\ runs' = runs \union {version[t]})
      /\ faults' = faults \/ (faults < MaxFaults /\ faults' = faults + 1)
      /\ UNCHANGED <<data, version, before, put, ppc, input, fetched, answer, logging, seq,
                     predictions, active, predCache, latencies, snapshot>>
  <2>1. CASE Train(t)
    BY <2>1 DEF Train, Goto, predictVars, mongoVars, redisVars
  <2>2. CASE SaveModelVersion(t)
    BY <2>2 DEF SaveModelVersion, Goto, BestEffort, Fault, predictVars, redisVars
  <2>3. CASE SaveTrainingRun(t)
    BY <2>3 DEF SaveTrainingRun, Goto, BestEffort, Fault, predictVars, redisVars
  <2>4. CASE Publish(t)
    BY <2>4 DEF Publish, Goto, predictVars, mongoVars, redisVars
  <2> QED
    BY <2>1, <2>2, <2>3, <2>4
<1>2. PICK y : tpc' = [tpc EXCEPT ![t] = y] /\ <<tpc[t], y>> \in Ways
  BY <1>1
<1>3. TypeOK
  BY DEF IInv
<1>4. /\ tpc'[t] = y /\ \A s \in Trains \ {t} : tpc'[s] = tpc[s]
      /\ \/ tpc[t] = "train" /\ y \in {"version", "error"}
         \/ tpc[t] = "save" /\ y = "run"
         \/ tpc[t] = "run" /\ y = "active"
         \/ tpc[t] = "publish" /\ y = "ok"
  BY <1>2, <1>3 DEF TypeOK
<1> HIDE DEF Ways
<1>5. GoesOn
  BY <1>1, <1>4 DEF GoesOn, Unversioned, Versioned
<1>6. VersionsStay /\ AnswersSame /\ LatenciesSame
  BY <1>1, <1>3 DEF VersionsStay, AnswersSame, LatenciesSame, TypeOK
<1>7. LatencyInv' /\ SeqInv' /\ VersionInv' /\ BeforeInv' /\ AnswersInv'
  BY <1>1, <1>5, <1>6, GoesOnInv, LatenciesSameInv, AnswersSameInv
<1>8. tpc[t] \in {"save", "run"} => /\ version[t] \in 1 .. seq /\ Doc(version[t], t) \in Docs
                                   /\ Published(Doc(version[t], t))
  <2>1. version[t] \in 0 .. seq /\ seq \in Nat /\ t \in Nat
    BY <1>3, Numbers DEF TypeOK
  <2>2. tpc[t] \in {"save", "run"} => version[t] # None
    BY DEF IInv, VersionInv, Versioned
  <2> QED
    BY <2>1, <2>2 DEF Doc, Docs, Published, None
<1>9. StoresInv'
  <2>1. \A d \in models' : Published(d)
    BY <1>1, <1>8 DEF IInv, StoresInv
  <2> QED
    BY <1>1, <1>6, <2>1, StaysTrue DEF IInv, StoresInv
<1>10. TypeOK'
  <2>1. models' \subseteq Docs /\ runs' \subseteq 1 .. seq
    BY <1>1, <1>3, <1>8 DEF TypeOK
  <2>2. tpc' \in [Trains -> {"idle", "train", "version", "save", "run", "active", "publish",
                             "ok", "error", "lost"}]
    BY <1>2, <1>3, <1>4 DEF TypeOK
  <2>3. faults' \in 0 .. MaxFaults
    BY <1>1, <1>3, Numbers DEF TypeOK
  <2> QED
    BY <1>1, <1>3, <2>1, <2>2, <2>3 DEF TypeOK
<1>11. PutInv'
  <2>1. \A s \in Trains : tpc'[s] \in NotPut => tpc[s] \in NotPut
    BY <1>4 DEF NotPut, Unversioned
  <2> QED
    BY <1>1, <2>1 DEF IInv, PutInv
<1>12. NoReturnToAnOlderModel'
  BY <1>1 DEF IInv, NoReturnToAnOlderModel
<1>13. FaultlessInv'
  <2>1. \A s \in Trains : tpc'[s] \in {"publish", "ok"} => tpc[s] \in {"publish", "ok"}
    BY <1>4
  <2>2. faults' = 0 => faults = 0
    BY <1>1, <1>3 DEF TypeOK
  <2> QED
    BY <1>1, <2>1, <2>2 DEF IInv, FaultlessInv, Marshalled
<1> QED
  BY <1>7, <1>9, <1>10, <1>11, <1>12, <1>13 DEF IInv

LEMMA NextVersionIInv == ASSUME IInv, NEW t \in Trains, NextVersion(t) PROVE IInv'
<1>1. /\ tpc[t] = "version" /\ \E y \in {"save", "error"} :
            /\ tpc' = [tpc EXCEPT ![t] = y]
            /\ y = "error" => version' = version /\ faults < MaxFaults /\ faults' = faults + 1
            /\ y = "save" => /\ version' = [version EXCEPT ![t] = seq + 1] /\ seq' = seq + 1
                             /\ faults' = faults
      /\ seq' \in {seq, seq + 1}
      /\ UNCHANGED <<data, before, put, ppc, input, fetched, answer, logging, models, runs,
                     predictions, active, predCache, latencies, snapshot>>
  BY DEF NextVersion, Goto, Fault, predictVars, redisVars
<1>2. PICK y \in {"save", "error"} :
            /\ tpc' = [tpc EXCEPT ![t] = y]
            /\ y = "error" => version' = version /\ faults < MaxFaults /\ faults' = faults + 1
            /\ y = "save" => /\ version' = [version EXCEPT ![t] = seq + 1] /\ seq' = seq + 1
                             /\ faults' = faults
  BY <1>1
<1>3. TypeOK
  BY DEF IInv
<1>4. /\ tpc'[t] = y /\ \A s \in Trains \ {t} : tpc'[s] = tpc[s]
      /\ version'[t] = (IF y = "save" THEN seq + 1 ELSE version[t])
      /\ \A s \in Trains \ {t} : version'[s] = version[s]
  BY <1>2, <1>3 DEF TypeOK
<1>5. /\ seq \in Nat /\ seq' \in Nat /\ seq <= seq' /\ version[t] = None
      /\ \A s \in Trains : version[s] \in 0 .. seq
  BY <1>1, <1>3, Numbers DEF TypeOK, IInv, VersionInv, Unversioned
<1>6. VersionsStay /\ AnswersSame /\ LatenciesSame
  BY <1>1, <1>3, <1>4, <1>5 DEF VersionsStay, AnswersSame, LatenciesSame, TypeOK
<1>7. LatencyInv' /\ AnswersInv' /\ StoresInv'
  BY <1>1, <1>6, LatenciesSameInv, AnswersSameInv, StoresSameInv
<1>8. SeqInv' /\ seq' <= NumTrains
  <2>1. t \notin Passed /\ Passed' = Passed \union {t}
    BY <1>1, <1>2, <1>4 DEF Passed, Unversioned
  <2>2. Cardinality(Passed') = Cardinality(Passed) + 1
    BY <2>1, PassedIsFinite, FS_AddElement
  <2>3. seq <= Cardinality(Passed)
    BY DEF IInv, SeqInv
  <2> QED
    BY <1>1, <1>5, <2>2, <2>3, Numbers, PassedIsFinite, PassedIsFiniteNext DEF SeqInv
<1>9. VersionInv'
  <2>1. \A s \in Trains : tpc'[s] \in Unversioned => version'[s] = None
    BY <1>2, <1>4 DEF IInv, VersionInv, Unversioned
  <2>2. \A s \in Trains : tpc'[s] \in Versioned => version'[s] # None
    BY <1>2, <1>4, <1>5 DEF IInv, VersionInv, Versioned, None
  <2>3. ASSUME NEW r \in Trains, NEW s \in Trains, version'[r] = version'[s], r # s
        PROVE  version'[r] = None
    <3>1. CASE r # t /\ s # t
      BY <1>4, <2>3, <3>1 DEF IInv, VersionInv
    <3>2. CASE r = t \/ s = t
      <4>1. CASE y = "save"
        BY <1>4, <1>5, <2>3, <3>2, <4>1
      <4>2. CASE y = "error"
        BY <1>4, <1>5, <2>3, <3>2, <4>2 DEF IInv, VersionInv
      <4> QED
        BY <4>1, <4>2
    <3> QED
      BY <3>1, <3>2
  <2> QED
    BY <2>1, <2>2, <2>3 DEF VersionInv
<1>10. BeforeInv'
  <2> SUFFICES ASSUME NEW u \in Trains, NEW s \in before[u]
               PROVE  tpc'[s] = "ok" /\ (version'[u] # None => version'[s] < version'[u])
    BY <1>1 DEF BeforeInv
  <2>1. s \in Trains /\ tpc[s] = "ok" /\ (version[u] # None => version[s] < version[u])
    BY <1>3 DEF TypeOK, IInv, BeforeInv
  <2>2. s # t
    BY <1>1, <2>1
  <2>3. tpc'[s] = "ok" /\ version'[s] = version[s]
    BY <1>4, <2>1, <2>2
  <2>4. CASE u # t
    BY <1>4, <2>1, <2>3, <2>4
  <2>5. CASE u = t
    BY <1>4, <1>5, <2>1, <2>3, <2>5 DEF None
  <2> QED
    BY <2>3, <2>4, <2>5
<1>11. TypeOK'
  <2>1. version' \in [Trains -> 0 .. seq']
    <3>1. CASE y = "save"
      BY <1>2, <1>3, <1>5, <3>1 DEF TypeOK
    <3>2. CASE y = "error"
      BY <1>1, <1>2, <1>3, <1>5, <3>2 DEF TypeOK
    <3> QED
      BY <3>1, <3>2
  <2>2. tpc' \in [Trains -> {"idle", "train", "version", "save", "run", "active", "publish",
                             "ok", "error", "lost"}]
    BY <1>2, <1>3 DEF TypeOK
  <2>3. faults' \in 0 .. MaxFaults
    BY <1>2, <1>3, Numbers DEF TypeOK
  <2>4. seq' \in 0 .. NumTrains /\ runs \subseteq 1 .. seq'
    BY <1>3, <1>5, <1>8 DEF TypeOK
  <2> QED
    BY <1>1, <1>3, <2>1, <2>2, <2>3, <2>4 DEF TypeOK
<1>12. PutInv'
  <2>1. \A s \in Trains : tpc'[s] \in NotPut => tpc[s] \in NotPut
    BY <1>1, <1>4 DEF NotPut, Unversioned
  <2>2. \A s \in Trains : version[s] # None => version'[s] # None
    BY <1>6 DEF VersionsStay
  <2> QED
    BY <1>1, <2>1, <2>2 DEF IInv, PutInv
<1>13. NoReturnToAnOlderModel'
  BY <1>1 DEF IInv, NoReturnToAnOlderModel
<1>14. FaultlessInv'
  <2>1. \A s \in Trains : tpc'[s] \in {"publish", "ok"} => tpc[s] \in {"publish", "ok"}
    BY <1>4
  <2>2. faults' = 0 => faults = 0
    BY <1>2, <1>3 DEF TypeOK
  <2> QED
    BY <1>1, <2>1, <2>2 DEF IInv, FaultlessInv, Marshalled
<1> QED
  BY <1>7, <1>8, <1>9, <1>10, <1>11, <1>12, <1>13, <1>14 DEF IInv

(***************************************************************************)
(* Whose model replaces the active one: one that is in before of no train. *)
(***************************************************************************)
LEMMA SetActiveStores ==
  ASSUME IInv, NEW t \in Trains, version[t] # None, SetActive(t), VersionsStay,
         UNCHANGED <<models, snapshot, predCache>>
  PROVE  StoresInv' /\ active' \in Docs /\ active'.model = t /\ active' # NoModel
<1>1. active' = [version |-> version[t], model |-> t]
  BY DEF SetActive, Doc
<1>2. version[t] \in Int /\ t \in Nat /\ t # None
  BY Numbers DEF IInv, TypeOK
<1>3. active' \in Docs /\ active'.model = t /\ active'.version = version[t]
  BY <1>1, <1>2 DEF Docs
<1>4. active' # NoModel
  BY <1>2, <1>3 DEF NoModel
<1>5. Published(active)'
  BY <1>3 DEF Published, VersionsStay
<1>6. StoresInv'
  BY <1>5, StaysTrue DEF IInv, StoresInv
<1> QED
  BY <1>3, <1>4, <1>6

LEMMA SetActiveModelIInv == ASSUME IInv, NEW t \in Trains, SetActiveModel(t) PROVE IInv'
<1>1. /\ tpc[t] = "active" /\ tpc' = [tpc EXCEPT ![t] = "publish"]
      /\ \/ ~Marshalled(t) /\ UNCHANGED <<active, put, faults>>
         \/ Marshalled(t) /\ SetActive(t) /\ put' = [put EXCEPT ![t] = "applied"] /\ UNCHANGED faults
         \/ /\ Marshalled(t) /\ faults < MaxFaults /\ faults' = faults + 1 /\ UNCHANGED active
            /\ put' = put \/ put' = [put EXCEPT ![t] = "pending"]
      /\ UNCHANGED <<data, version, before, ppc, input, fetched, answer, logging, seq, models, runs,
                     predictions, predCache, latencies, snapshot>>
  BY DEF SetActiveModel, Goto, Put, Fault, predictVars, mongoVars
<1>2. TypeOK
  BY DEF IInv
<1>3. /\ tpc'[t] = "publish" /\ \A s \in Trains \ {t} : tpc'[s] = tpc[s] /\ put'[s] = put[s]
      /\ put[t] = "none" /\ put'[t] \in {"none", "applied", "pending"}
      /\ version[t] # None
  BY <1>1, <1>2 DEF TypeOK, IInv, PutInv, VersionInv, NotPut, Versioned
<1>4. GoesOn /\ VersionsStay /\ AnswersSame /\ LatenciesSame
  BY <1>1, <1>2, <1>3 DEF GoesOn, VersionsStay, AnswersSame, LatenciesSame, TypeOK, Unversioned,
                          Versioned
<1>5. LatencyInv' /\ SeqInv' /\ VersionInv' /\ BeforeInv' /\ AnswersInv'
  BY <1>1, <1>4, GoesOnInv, LatenciesSameInv, AnswersSameInv
<1>6. \A u \in Trains : t \notin before[u]
  BY <1>1 DEF IInv, BeforeInv
<1>7. StoresInv' /\ active' \in Docs /\ NoReturnToAnOlderModel'
  <2>1. CASE SetActive(t)
    <3>1. StoresInv' /\ active' \in Docs /\ active'.model = t /\ active' # NoModel
      BY <1>1, <1>3, <1>4, <2>1, SetActiveStores
    <3> QED
      BY <1>1, <1>6, <3>1 DEF NoReturnToAnOlderModel
  <2>2. CASE UNCHANGED active /\ put'[t] # "applied"
    <3>1. StoresInv' /\ active' \in Docs
      BY <1>1, <1>2, <1>4, <2>2, StoresSameInv DEF TypeOK
    <3>2. ASSUME NEW u \in Trains, put'[u] = "applied"
          PROVE  /\ active # NoModel
                 /\ active.model \notin before[u] \/ put'[active.model] = "late"
      <4>1. u # t /\ put[u] = "applied"
        BY <1>3, <2>2, <3>2
      <4>2. /\ active # NoModel
            /\ active.model \notin before[u] \/ put[active.model] = "late"
        BY <4>1 DEF IInv, NoReturnToAnOlderModel
      <4>3. active.model \in Trains
        BY <4>2 DEF IInv, StoresInv, Published
      <4> QED
        BY <1>3, <4>2, <4>3
    <3> QED
      BY <1>1, <2>2, <3>1, <3>2 DEF NoReturnToAnOlderModel
  <2> QED
    BY <1>1, <1>2, <1>3, <2>1, <2>2 DEF TypeOK
<1>8. TypeOK'
  <2>1. tpc' \in [Trains -> {"idle", "train", "version", "save", "run", "active", "publish",
                             "ok", "error", "lost"}]
    BY <1>1, <1>2 DEF TypeOK
  <2>2. put' \in [Trains -> {"none", "applied", "pending", "late"}]
    BY <1>1, <1>2 DEF TypeOK
  <2>3. faults' \in 0 .. MaxFaults
    BY <1>1, <1>2, Numbers DEF TypeOK
  <2> QED
    BY <1>1, <1>2, <1>7, <2>1, <2>2, <2>3 DEF TypeOK
<1>9. PutInv'
  <2>1. \A s \in Trains : tpc'[s] \in NotPut => put'[s] = "none"
    BY <1>3 DEF IInv, PutInv, NotPut, Unversioned
  <2>2. \A s \in Trains : put'[s] # "none" => version[s] # None
    BY <1>3 DEF IInv, PutInv
  <2> QED
    BY <1>1, <2>1, <2>2 DEF PutInv
<1>10. FaultlessInv'
  <2> SUFFICES ASSUME faults' = 0, NEW s \in Trains
               PROVE  /\ put'[s] \notin {"pending", "late"}
                      /\ tpc'[s] \in {"publish", "ok"} /\ Marshalled(s) => put'[s] = "applied"
    BY <1>1 DEF FaultlessInv, Marshalled
  <2>1. faults = 0
    BY <1>1, <1>2 DEF TypeOK
  <2>2. ~(faults' = faults + 1)
    BY <2>1
  <2>3. CASE s # t
    BY <1>3, <2>1, <2>3 DEF IInv, FaultlessInv
  <2>4. CASE s = t
    <3>1. \/ ~Marshalled(t) /\ put' = put
          \/ put' = [put EXCEPT ![t] = "applied"]
      BY <1>1, <2>2
    <3> QED
      BY <1>2, <1>3, <2>4, <3>1 DEF TypeOK
  <2> QED
    BY <2>3, <2>4
<1> QED
  BY <1>5, <1>7, <1>8, <1>9, <1>10 DEF IInv

LEMMA LateSetIInv == ASSUME IInv, NEW t \in Trains, LateSet(t) PROVE IInv'
<1>1. /\ put[t] = "pending" /\ SetActive(t) /\ put' = [put EXCEPT ![t] = "late"]
      /\ UNCHANGED <<data, tpc, version, before, ppc, input, fetched, answer, logging, seq, models,
                     runs, predictions, predCache, latencies, snapshot, faults>>
  BY DEF LateSet, Put, predictVars, mongoVars
<1>2. TypeOK
  BY DEF IInv
<1>3. /\ put'[t] = "late" /\ \A s \in Trains \ {t} : put'[s] = put[s]
      /\ version[t] # None
  BY <1>1, <1>2 DEF TypeOK, IInv, PutInv
<1>4. GoesOn /\ VersionsStay /\ AnswersSame /\ LatenciesSame
  BY <1>1, <1>2 DEF GoesOn, VersionsStay, AnswersSame, LatenciesSame, TypeOK
<1>5. LatencyInv' /\ SeqInv' /\ VersionInv' /\ BeforeInv' /\ AnswersInv'
  BY <1>1, <1>4, GoesOnInv, LatenciesSameInv, AnswersSameInv
<1>6. StoresInv' /\ active' \in Docs /\ active'.model = t /\ active' # NoModel
  BY <1>1, <1>3, <1>4, SetActiveStores
<1>7. TypeOK'
  BY <1>1, <1>2, <1>6 DEF TypeOK
<1>8. PutInv'
  <2>1. tpc[t] \notin NotPut
    BY <1>1 DEF IInv, PutInv
  <2> QED
    BY <1>1, <1>3, <2>1 DEF IInv, PutInv
<1>9. NoReturnToAnOlderModel'
  BY <1>1, <1>3, <1>6 DEF NoReturnToAnOlderModel
<1>10. faults' # 0
  BY <1>1 DEF IInv, FaultlessInv
<1> QED
  BY <1>5, <1>6, <1>7, <1>8, <1>9, <1>10 DEF IInv, FaultlessInv

--------------------------------------------------------------------------------
(***************************************************************************)
(* The steps of a prediction.                                              *)
(***************************************************************************)

(***************************************************************************)
(* Those that only read the stores.                                        *)
(***************************************************************************)
LEMMA ReadStepsIInv ==
  ASSUME IInv, NEW p \in Predicts, Request(p) \/ GetCachedPred(p) \/ GetActiveModel(p)
  PROVE  IInv'
<1>1. /\ \/ ppc' = [ppc EXCEPT ![p] = "cache"] /\ ppc[p] = "idle" /\ UNCHANGED <<answer, fetched>>
         \/ /\ ppc' = [ppc EXCEPT ![p] = "push"] /\ ppc[p] = "cache" /\ UNCHANGED fetched
            /\ answer' = [answer EXCEPT ![p] = Doc(Cached, predCache[input[p]])]
            /\ predCache[input[p]] # None
         \/ ppc' = [ppc EXCEPT ![p] = "model"] /\ ppc[p] = "cache" /\ UNCHANGED <<answer, fetched>>
         \/ /\ ppc' = [ppc EXCEPT ![p] = "store"] /\ ppc[p] = "model" /\ UNCHANGED answer
            /\ fetched' = [fetched EXCEPT ![p] = active] /\ active # NoModel
         \/ ppc' = [ppc EXCEPT ![p] = "push"] /\ ppc[p] = "model" /\ UNCHANGED <<answer, fetched>>
      /\ faults' = faults \/ (faults < MaxFaults /\ faults' = faults + 1)
      /\ UNCHANGED <<data, tpc, version, before, put, input, logging, seq, models, runs,
                     predictions, active, predCache, latencies, snapshot>>
  <2>1. CASE Request(p)
    BY <2>1 DEF Request, trainVars, mongoVars, redisVars
  <2>2. CASE GetCachedPred(p)
    BY <2>2 DEF GetCachedPred, Fault, trainVars, mongoVars, redisVars
  <2>3. CASE GetActiveModel(p)
    BY <2>3 DEF GetActiveModel, Fault, trainVars, mongoVars, redisVars
  <2> QED
    BY <2>1, <2>2, <2>3
<1>2. TypeOK
  BY DEF IInv
<1>3. faults' \in 0 .. MaxFaults /\ (faults' = 0 => faults = 0)
  BY <1>1, <1>2, Numbers DEF TypeOK
<1>4. TrainsSame /\ LatenciesSame
  BY <1>1, <1>2, <1>3 DEF TrainsSame, LatenciesSame, TypeOK
<1>5. /\ SeqInv' /\ VersionInv' /\ BeforeInv' /\ LatencyInv'
      /\ PutInv' /\ NoReturnToAnOlderModel' /\ FaultlessInv' /\ VersionsStay
  BY <1>4, TrainsSameInv, LatenciesSameInv
<1>6. StoresInv'
  BY <1>1, <1>5, StoresSameInv
<1>7. Kept(predCache[input[p]]) \/ predCache[input[p]] = None
  BY <1>2 DEF TypeOK, IInv, StoresInv
<1>8. AnswersInv'
  <2>1. CASE answer' # answer
    <3>1. /\ ppc' = [ppc EXCEPT ![p] = "push"] /\ UNCHANGED fetched
          /\ answer' = [answer EXCEPT ![p] = Doc(Cached, predCache[input[p]])]
          /\ predCache[input[p]] # None
      BY <1>1, <2>1
    <3>2. Answered(Doc(Cached, predCache[input[p]]))
      BY <1>7, <3>1 DEF Answered, Doc
    <3>3. \A q \in Predicts : Answered(answer'[q])
      BY <1>2, <3>1, <3>2 DEF TypeOK, IInv, AnswersInv
    <3>4. \A q \in Predicts : ppc'[q] \in Unanswered => ppc[q] \in Unanswered
      BY <1>2, <3>1 DEF TypeOK, Unanswered
    <3> QED
      BY <1>1, <3>1, <3>3, <3>4 DEF IInv, AnswersInv, Answered, Published, Kept
  <2>2. CASE answer' = answer
    <3>1. ASSUME NEW q \in Predicts
          PROVE  /\ fetched'[q] = NoModel \/ Published(fetched'[q])
                 /\ ppc'[q] \in Unanswered \/ q \in logging => fetched'[q] # NoModel
      <4>1. CASE fetched'[q] = fetched[q]
        <5>1. ppc'[q] \in Unanswered => ppc[q] \in Unanswered \/ fetched'[q] # NoModel
          BY <1>1, <1>2, <2>2 DEF TypeOK, Unanswered
        <5> QED
          BY <4>1, <5>1 DEF IInv, AnswersInv
      <4>2. CASE fetched'[q] # fetched[q]
        <5>1. fetched'[q] = active /\ active # NoModel
          BY <1>1, <1>2, <4>2 DEF TypeOK
        <5> QED
          BY <5>1 DEF IInv, StoresInv
      <4> QED
        BY <4>1, <4>2
    <3> QED
      BY <1>1, <2>2, <3>1 DEF IInv, AnswersInv, Answered, Published, Kept
  <2> QED
    BY <2>1, <2>2
<1>9. TypeOK'
  <2>1. Doc(Cached, predCache[input[p]]) \in Docs
    <3>1. predCache[input[p]] \in Trains \union {None}
      BY <1>2 DEF TypeOK
    <3>2. Trains \subseteq Nat /\ None \in Nat /\ Cached \in Int
      BY Numbers DEF None, Cached
    <3>3. predCache[input[p]] \in Nat
      BY <3>1, <3>2
    <3> QED
      BY <3>2, <3>3 DEF Doc, Docs
  <2>2. answer' \in [Predicts -> Docs] /\ fetched' \in [Predicts -> Docs]
    BY <1>1, <1>2, <2>1 DEF TypeOK
  <2>3. ppc' \in [Predicts -> {"idle", "cache", "model", "store", "answer", "push", "trim",
                             "done", "lost"}]
    BY <1>1, <1>2 DEF TypeOK
  <2> QED
    BY <1>1, <1>2, <1>3, <2>2, <2>3 DEF TypeOK
<1> QED
  BY <1>5, <1>6, <1>8, <1>9 DEF IInv

LEMMA SetCachedPredIInv == ASSUME IInv, NEW p \in Predicts, SetCachedPred(p) PROVE IInv'
<1> DEFINE d == fetched[p]
<1>1. /\ ppc[p] = "store" /\ ppc' = [ppc EXCEPT ![p] = "answer"]
      /\ predCache' = predCache \/ predCache' = [predCache EXCEPT ![input[p]] = d.model]
      /\ faults' = faults \/ (faults < MaxFaults /\ faults' = faults + 1)
      /\ logging' = logging \union {p}
      /\ UNCHANGED <<data, tpc, version, before, put, input, fetched, answer, seq, models, runs,
                     predictions, active, latencies, snapshot>>
  BY DEF SetCachedPred, BestEffort, Fault, trainVars, mongoVars
<1>2. TypeOK
  BY DEF IInv
<1>3. faults' \in 0 .. MaxFaults /\ (faults' = 0 => faults = 0)
  BY <1>1, <1>2, Numbers DEF TypeOK
<1>4. TrainsSame /\ LatenciesSame
  BY <1>1, <1>2, <1>3 DEF TrainsSame, LatenciesSame, TypeOK
<1>5. /\ SeqInv' /\ VersionInv' /\ BeforeInv' /\ LatencyInv'
      /\ PutInv' /\ NoReturnToAnOlderModel' /\ FaultlessInv' /\ VersionsStay
  BY <1>4, TrainsSameInv, LatenciesSameInv
<1>6. Published(d) /\ d # NoModel /\ input[p] \in Inputs
  BY <1>1, <1>2 DEF TypeOK, IInv, AnswersInv, Unanswered
<1> HIDE DEF d
<1>7. Kept(d.model)
  BY <1>6 DEF Published, Kept
<1>8. /\ predCache' \in [Inputs -> Trains \union {None}]
      /\ \A x \in Inputs : predCache'[x] \in {predCache[x], d.model}
  <2>1. d.model \in Trains
    BY <1>7 DEF Kept
  <2> QED
    BY <1>1, <1>2, <1>6, <2>1 DEF TypeOK
<1>9. StoresInv'
  BY <1>1, <1>5, <1>7, <1>8, StaysTrue DEF IInv, StoresInv
<1>10. AnswersInv'
  <2>1. \A q \in Predicts : ppc'[q] \in Unanswered \/ q \in logging' => fetched'[q] # NoModel
    BY <1>1, <1>2, <1>6 DEF TypeOK, IInv, AnswersInv, d
  <2> QED
    BY <1>1, <2>1 DEF IInv, AnswersInv, Answered, Published, Kept
<1>11. TypeOK'
  <2>1. /\ logging' \subseteq Predicts
        /\ ppc' \in [Predicts -> {"idle", "cache", "model", "store", "answer", "push", "trim",
                                  "done", "lost"}]
    BY <1>1, <1>2 DEF TypeOK
  <2> QED
    BY <1>1, <1>2, <1>3, <1>8, <2>1 DEF TypeOK
<1> QED
  BY <1>5, <1>9, <1>10, <1>11 DEF IInv

(***************************************************************************)
(* The answer, and the log: both name the model read from Redis.           *)
(***************************************************************************)
LEMMA FetchedIsAnswer ==
  ASSUME IInv, NEW p \in Predicts, ppc[p] \in Unanswered \/ p \in logging
  PROVE  LET d == Doc(VersionOf(p), fetched[p].model) IN d \in Docs /\ Answered(d)
<1>1. Published(fetched[p]) /\ fetched[p] \in Docs
  BY DEF IInv, AnswersInv, TypeOK
<1> QED
  BY <1>1 DEF Published, Answered, Kept, Doc, Docs, VersionOf

LEMMA RespondIInv == ASSUME IInv, NEW p \in Predicts, Respond(p) PROVE IInv'
<1> DEFINE d == Doc(VersionOf(p), fetched[p].model)
<1>1. /\ ppc[p] = "answer" /\ ppc' = [ppc EXCEPT ![p] = "push"]
      /\ answer' = [answer EXCEPT ![p] = d]
      /\ UNCHANGED <<data, tpc, version, before, put, input, fetched, logging, seq, models, runs,
                     predictions, active, predCache, latencies, snapshot, faults>>
  BY DEF Respond, trainVars, mongoVars, redisVars
<1>2. TypeOK
  BY DEF IInv
<1>3. d \in Docs /\ Answered(d)
  BY <1>1, FetchedIsAnswer DEF Unanswered
<1> HIDE DEF d
<1>4. TrainsSame /\ LatenciesSame
  BY <1>1, <1>2 DEF TrainsSame, LatenciesSame, TypeOK
<1>5. /\ SeqInv' /\ VersionInv' /\ BeforeInv' /\ LatencyInv'
      /\ PutInv' /\ NoReturnToAnOlderModel' /\ FaultlessInv' /\ VersionsStay
  BY <1>4, TrainsSameInv, LatenciesSameInv
<1>6. StoresInv'
  BY <1>1, <1>5, StoresSameInv
<1>7. AnswersInv'
  <2>1. \A q \in Predicts : Answered(answer'[q])
    BY <1>1, <1>2, <1>3 DEF TypeOK, IInv, AnswersInv
  <2>2. \A q \in Predicts : ppc'[q] \in Unanswered => ppc[q] \in Unanswered
    BY <1>1, <1>2 DEF TypeOK, Unanswered
  <2> QED
    BY <1>1, <2>1, <2>2 DEF IInv, AnswersInv, Answered, Published, Kept
<1>8. TypeOK'
  <2>1. /\ answer' \in [Predicts -> Docs]
        /\ ppc' \in [Predicts -> {"idle", "cache", "model", "store", "answer", "push", "trim",
                                  "done", "lost"}]
    BY <1>1, <1>2, <1>3 DEF TypeOK
  <2> QED
    BY <1>1, <1>2, <2>1 DEF TypeOK
<1> QED
  BY <1>5, <1>6, <1>7, <1>8 DEF IInv

LEMMA SavePredictionIInv == ASSUME IInv, NEW p \in Predicts, SavePrediction(p) PROVE IInv'
<1> DEFINE e == [of |-> p, doc |-> Doc(VersionOf(p), fetched[p].model)]
<1>1. /\ p \in logging /\ logging' = logging \ {p}
      /\ predictions' = predictions \/ predictions' = predictions \union {e}
      /\ faults' = faults \/ (faults < MaxFaults /\ faults' = faults + 1)
      /\ UNCHANGED <<data, tpc, version, before, put, ppc, input, fetched, answer, seq, models,
                     runs, active, predCache, latencies, snapshot>>
  BY DEF SavePrediction, BestEffort, Fault, trainVars, redisVars
<1>2. TypeOK
  BY DEF IInv
<1>3. faults' \in 0 .. MaxFaults /\ (faults' = 0 => faults = 0)
  BY <1>1, <1>2, Numbers DEF TypeOK
<1>4. TrainsSame /\ LatenciesSame
  BY <1>1, <1>2, <1>3 DEF TrainsSame, LatenciesSame, TypeOK
<1>5. /\ SeqInv' /\ VersionInv' /\ BeforeInv' /\ LatencyInv'
      /\ PutInv' /\ NoReturnToAnOlderModel' /\ FaultlessInv' /\ VersionsStay
  BY <1>4, TrainsSameInv, LatenciesSameInv
<1>6. StoresInv'
  BY <1>1, <1>5, StoresSameInv
<1>7. e \in [of : Predicts, doc : Docs] /\ Answered(e.doc)
  BY <1>1, FetchedIsAnswer
<1> HIDE DEF e
<1>8. AnswersInv'
  <2>1. \A f \in predictions' : Answered(f.doc)
    BY <1>1, <1>7 DEF IInv, AnswersInv
  <2> QED
    BY <1>1, <2>1 DEF IInv, AnswersInv, Answered, Published, Kept
<1>9. TypeOK'
  <2>1. predictions' \subseteq [of : Predicts, doc : Docs] /\ logging' \subseteq Predicts
    BY <1>1, <1>2, <1>7 DEF TypeOK
  <2> QED
    BY <1>1, <1>2, <1>3, <2>1 DEF TypeOK
<1> QED
  BY <1>5, <1>6, <1>8, <1>9 DEF IInv

(***************************************************************************)
(* The push of a sample and its trim: the list is longer than Capacity by  *)
(* no more than the trims that are due.                                    *)
(***************************************************************************)
LEMMA LatencyStepsIInv ==
  ASSUME IInv, NEW p \in Predicts, PushLatency(p) \/ TrimLatencies(p) PROVE IInv'
<1>1. /\ \/ /\ ppc[p] = "push" /\ ppc' = [ppc EXCEPT ![p] = "trim"] /\ latencies' = latencies + 1
         \/ /\ ppc[p] = "push" /\ ppc' = [ppc EXCEPT ![p] = "done"] /\ latencies' = latencies
         \/ /\ ppc[p] = "trim" /\ ppc' = [ppc EXCEPT ![p] = "done"] /\ latencies' = Trim(latencies)
      /\ faults' = faults \/ (faults < MaxFaults /\ faults' = faults + 1)
      /\ UNCHANGED <<data, tpc, version, before, put, input, fetched, answer, logging, seq, models,
                     runs, predictions, active, predCache, snapshot>>
  <2>1. CASE PushLatency(p)
    BY <2>1 DEF PushLatency, BestEffort, Fault, trainVars, mongoVars
  <2>2. CASE TrimLatencies(p)
    BY <2>2 DEF TrimLatencies, trainVars, mongoVars
  <2> QED
    BY <2>1, <2>2
<1>2. TypeOK
  BY DEF IInv
<1>3. faults' \in 0 .. MaxFaults /\ (faults' = 0 => faults = 0)
  BY <1>1, <1>2, Numbers DEF TypeOK
<1>4. TrainsSame /\ AnswersSame
  BY <1>1, <1>2, <1>3 DEF TrainsSame, AnswersSame, Unanswered, TypeOK
<1>5. /\ SeqInv' /\ VersionInv' /\ BeforeInv' /\ AnswersInv'
      /\ PutInv' /\ NoReturnToAnOlderModel' /\ FaultlessInv' /\ VersionsStay
  BY <1>4, TrainsSameInv, AnswersSameInv
<1>6. StoresInv'
  BY <1>1, <1>5, StoresSameInv
<1>7. /\ latencies \in Nat /\ Capacity \in Nat /\ latencies <= Capacity + Cardinality(Trimming)
      /\ Cardinality(Trimming) \in Nat
  BY <1>2, Numbers, TrimmingIsFinite DEF TypeOK, IInv, LatencyInv
<1>8. LatencyInv' /\ latencies' \in Nat
  <2>1. CASE ppc[p] = "push" /\ ppc' = [ppc EXCEPT ![p] = "trim"] /\ latencies' = latencies + 1
    <3>1. p \notin Trimming /\ Trimming' = Trimming \union {p}
      BY <1>2, <2>1 DEF TypeOK, Trimming
    <3>2. Cardinality(Trimming') = Cardinality(Trimming) + 1
      BY <3>1, TrimmingIsFinite, FS_AddElement
    <3> QED
      BY <1>7, <2>1, <3>2 DEF LatencyInv
  <2>2. CASE ppc[p] = "push" /\ ppc' = [ppc EXCEPT ![p] = "done"] /\ latencies' = latencies
    <3>1. Trimming' = Trimming
      BY <1>2, <2>2 DEF TypeOK, Trimming
    <3> QED
      BY <1>7, <2>2, <3>1 DEF LatencyInv
  <2>3. CASE ppc[p] = "trim" /\ latencies' = Trim(latencies)
    <3>1. latencies' \in Nat /\ latencies' <= Capacity
      BY <1>7, <2>3 DEF Trim
    <3> QED
      BY <1>7, <3>1, TrimmingIsFiniteNext DEF LatencyInv
  <2> QED
    BY <1>1, <2>1, <2>2, <2>3
<1>9. TypeOK'
  <2>1. ppc' \in [Predicts -> {"idle", "cache", "model", "store", "answer", "push", "trim",
                             "done", "lost"}]
    BY <1>1, <1>2 DEF TypeOK
  <2> QED
    BY <1>1, <1>2, <1>3, <1>8, <2>1 DEF TypeOK
<1> QED
  BY <1>5, <1>6, <1>8, <1>9 DEF IInv

--------------------------------------------------------------------------------
(***************************************************************************)
(* The steps of nobody's request.                                          *)
(***************************************************************************)

LEMMA RedisStepsIInv == ASSUME IInv, Snapshot \/ \E x \in Inputs : ExpirePred(x) PROVE IInv'
<1>1. /\ snapshot' = snapshot \/ snapshot' = <<active, predCache>>
      /\ predCache' = predCache \/ \E x \in Inputs : predCache' = [predCache EXCEPT ![x] = None]
      /\ snapshot' = snapshot \/ predCache' = predCache
      /\ UNCHANGED <<data, tpc, version, before, put, ppc, input, fetched, answer, logging, seq,
                     models, runs, predictions, active, latencies, faults>>
  <2>1. CASE Snapshot
    BY <2>1 DEF Snapshot, trainVars, predictVars, mongoVars
  <2>2. CASE \E x \in Inputs : ExpirePred(x)
    BY <2>2 DEF ExpirePred, trainVars, predictVars, mongoVars
  <2> QED
    BY <2>1, <2>2
<1>2. TypeOK
  BY DEF IInv
<1>3. TrainsSame /\ LatenciesSame /\ AnswersSame
  BY <1>1, <1>2 DEF TrainsSame, LatenciesSame, AnswersSame, TypeOK
<1>4. /\ SeqInv' /\ VersionInv' /\ BeforeInv' /\ LatencyInv' /\ AnswersInv'
      /\ PutInv' /\ NoReturnToAnOlderModel' /\ FaultlessInv' /\ VersionsStay
  BY <1>3, TrainsSameInv, LatenciesSameInv, AnswersSameInv
<1>5. /\ predCache' \in [Inputs -> Trains \union {None}]
      /\ \A x \in Inputs : predCache'[x] \in {predCache[x], None}
  BY <1>1, <1>2 DEF TypeOK
<1>6. snapshot' \in Docs \X [Inputs -> Trains \union {None}]
  BY <1>1, <1>2 DEF TypeOK
<1>7. StoresInv'
  <2>1. \A x \in Inputs : predCache'[x] = None \/ Kept(predCache'[x])
    BY <1>5 DEF IInv, StoresInv
  <2>2. /\ snapshot'[1] = NoModel \/ Published(snapshot'[1])
        /\ \A x \in Inputs : snapshot'[2][x] = None \/ Kept(snapshot'[2][x])
    BY <1>1 DEF IInv, StoresInv
  <2> QED
    BY <1>1, <2>1, <2>2 DEF IInv, StoresInv, Published, Kept
<1>8. TypeOK'
  BY <1>1, <1>2, <1>5, <1>6 DEF TypeOK
<1> QED
  BY <1>4, <1>7, <1>8 DEF IInv

LEMMA CrashAPIIInv == ASSUME IInv, CrashAPI PROVE IInv'
<1>1. /\ faults < MaxFaults /\ faults' = faults + 1 /\ logging' = {}
      /\ tpc' = [t \in Trains |-> IF Training(t) THEN "lost" ELSE tpc[t]]
      /\ ppc' = [p \in Predicts |->
                   IF ppc[p] \in {"cache", "model", "store", "answer", "push"} THEN "lost" ELSE ppc[p]]
      /\ UNCHANGED <<data, version, before, put, input, fetched, answer, seq, models, runs,
                     predictions, active, predCache, latencies, snapshot>>
  BY DEF CrashAPI, Fault, mongoVars, redisVars
<1>2. TypeOK
  BY DEF IInv
<1>3. GoesOn /\ \A t \in Trains : tpc'[t] \in NotPut => tpc[t] \in NotPut
  BY <1>1 DEF GoesOn, Training, Unversioned, Versioned, NotPut
<1>4. VersionsStay /\ LatenciesSame /\ AnswersSame
  BY <1>1, <1>2 DEF VersionsStay, LatenciesSame, AnswersSame, Unanswered, TypeOK
<1>5. /\ SeqInv' /\ VersionInv' /\ BeforeInv' /\ LatencyInv' /\ AnswersInv' /\ StoresInv'
  BY <1>1, <1>3, <1>4, GoesOnInv, LatenciesSameInv, AnswersSameInv, StoresSameInv
<1>6. PutInv' /\ NoReturnToAnOlderModel'
  BY <1>1, <1>3 DEF IInv, PutInv, NoReturnToAnOlderModel
<1>7. faults' # 0 /\ faults' \in 0 .. MaxFaults
  BY <1>1, <1>2, Numbers DEF TypeOK
<1>8. TypeOK'
  <2>1. /\ tpc' \in [Trains -> {"idle", "train", "version", "save", "run", "active", "publish",
                                "ok", "error", "lost"}]
        /\ ppc' \in [Predicts -> {"idle", "cache", "model", "store", "answer", "push", "trim",
                             "done", "lost"}]
    BY <1>1, <1>2 DEF TypeOK
  <2> QED
    BY <1>1, <1>2, <1>7, <2>1 DEF TypeOK
<1> QED
  BY <1>5, <1>6, <1>7, <1>8 DEF IInv, FaultlessInv

LEMMA CrashRedisIInv == ASSUME IInv, CrashRedis PROVE IInv'
<1>1. /\ faults < MaxFaults /\ faults' = faults + 1
      /\ active' = snapshot[1] /\ predCache' = snapshot[2] /\ latencies' \in 0 .. latencies
      /\ put' = [t \in Trains |-> IF put[t] \in {"applied", "pending"} THEN "none" ELSE put[t]]
      /\ UNCHANGED <<data, tpc, version, before, ppc, input, fetched, answer, logging, seq, models,
                     runs, predictions, snapshot>>
  BY DEF CrashRedis, Fault, predictVars, mongoVars
<1>2. TypeOK
  BY DEF IInv
<1>3. GoesOn /\ VersionsStay /\ LatenciesSame /\ AnswersSame
  BY <1>1 DEF GoesOn, VersionsStay, LatenciesSame, AnswersSame
<1>4. /\ SeqInv' /\ VersionInv' /\ BeforeInv' /\ LatencyInv' /\ AnswersInv'
  BY <1>1, <1>3, GoesOnInv, LatenciesSameInv, AnswersSameInv
<1>5. StoresInv'
  BY <1>1 DEF IInv, StoresInv, Published, Kept
<1>6. PutInv'
  BY <1>1 DEF IInv, PutInv
<1>7. NoReturnToAnOlderModel'
  BY <1>1 DEF NoReturnToAnOlderModel
<1>8. faults' # 0 /\ faults' \in 0 .. MaxFaults
  BY <1>1, <1>2, Numbers DEF TypeOK
<1>9. TypeOK'
  <2>1. /\ active' \in Docs /\ predCache' \in [Inputs -> Trains \union {None}]
        /\ latencies' \in Nat
        /\ put' \in [Trains -> {"none", "applied", "pending", "late"}]
    BY <1>1, <1>2 DEF TypeOK
  <2> QED
    BY <1>1, <1>2, <1>8, <2>1 DEF TypeOK
<1> QED
  BY <1>4, <1>5, <1>6, <1>7, <1>8, <1>9 DEF IInv, FaultlessInv

LEMMA NextIInv == IInv /\ [Next]_vars => IInv'
<1> SUFFICES ASSUME IInv, [Next]_vars PROVE IInv'
  OBVIOUS
<1>1. ASSUME NEW t \in Trains, TrainNext(t) PROVE IInv'
  BY <1>1, StartTrainIInv, TrainStepsIInv, NextVersionIInv, SetActiveModelIInv, LateSetIInv
  DEF TrainNext
<1>2. ASSUME NEW p \in Predicts, PredictNext(p) PROVE IInv'
  BY <1>2, ReadStepsIInv, SetCachedPredIInv, RespondIInv, SavePredictionIInv, LatencyStepsIInv
  DEF PredictNext
<1>3. ASSUME Snapshot \/ CrashAPI \/ CrashRedis \/ \E x \in Inputs : ExpirePred(x) PROVE IInv'
  BY <1>3, RedisStepsIInv, CrashAPIIInv, CrashRedisIInv
<1>4. ASSUME UNCHANGED vars PROVE IInv'
  <2>1. UNCHANGED <<data, tpc, version, before, put, ppc, input, fetched, answer, logging, seq,
                    models, runs, predictions, active, predCache, latencies, snapshot, faults>>
    BY <1>4 DEF vars, trainVars, predictVars, mongoVars, redisVars
  <2>2. TypeOK
    BY DEF IInv
  <2>3. TrainsSame /\ LatenciesSame /\ AnswersSame
    BY <2>1, <2>2 DEF TrainsSame, LatenciesSame, AnswersSame, TypeOK
  <2>4. /\ SeqInv' /\ VersionInv' /\ BeforeInv' /\ LatencyInv' /\ AnswersInv'
        /\ PutInv' /\ NoReturnToAnOlderModel' /\ FaultlessInv' /\ VersionsStay
    BY <2>3, TrainsSameInv, LatenciesSameInv, AnswersSameInv
  <2>5. StoresInv'
    BY <2>1, <2>4, StoresSameInv
  <2>6. TypeOK'
    BY <2>1, <2>2 DEF TypeOK
  <2> QED
    BY <2>4, <2>5, <2>6 DEF IInv
<1> QED
  BY <1>1, <1>2, <1>3, <1>4 DEF Next, Quiet

LEMMA Invariance == Spec => []IInv
  BY InitIInv, NextIInv, PTL DEF Spec

--------------------------------------------------------------------------------
(***************************************************************************)
(* The theorems.                                                           *)
(***************************************************************************)

(***************************************************************************)
(* The types.                                                              *)
(***************************************************************************)
THEOREM TypeCorrect == Spec => []TypeOK
<1>1. IInv => TypeOK
  BY DEF IInv
<1> QED
  BY <1>1, Invariance, PTL

(***************************************************************************)
(* The list of latencies is over its cap by no more than the trims that    *)
(* are due, however the pushes and trims of requests interleave            *)
(* (redis.go:132-140).                                                     *)
(***************************************************************************)
THEOREM LatenciesCapped == Spec => []LatenciesAreCapped
<1>1. IInv => LatenciesAreCapped
  BY DEF IInv, LatencyInv, Trimming, LatenciesAreCapped
<1> QED
  BY <1>1, Invariance, PTL

(***************************************************************************)
(* A version names one model in Mongo, in Redis and in the answers, and a  *)
(* train that begins after another has answered gets a higher one          *)
(* (mongo.go:98-113).                                                      *)
(***************************************************************************)
THEOREM VersionsNameModels == Spec => []VersionNamesOneModel
<1>1. IInv => VersionNamesOneModel
  <2> SUFFICES ASSUME IInv PROVE VersionNamesOneModel
    OBVIOUS
  <2>1. \A d \in models \union ({active} \ {NoModel}) : version[d.model] = d.version
    BY DEF IInv, StoresInv, Published
  <2> QED
    BY <2>1 DEF IInv, VersionInv, BeforeInv, VersionNamesOneModel
<1> QED
  BY <1>1, Invariance, PTL

(***************************************************************************)
(* A prediction is reported and logged with the version of the model that  *)
(* computed it, whatever trains end meanwhile (handlers.go:137-178).       *)
(***************************************************************************)
THEOREM PredictionsCorrect == Spec => []PredictionsNameTheirModel
<1>1. IInv => PredictionsNameTheirModel
  BY DEF IInv, AnswersInv, Answered, Kept, PredictionsNameTheirModel
<1> QED
  BY <1>1, Invariance, PTL

(***************************************************************************)
(* Only trains that overlap, a late write or a crash of Redis make an      *)
(* older model active again (handlers.go:95, redis.go:53-60).              *)
(***************************************************************************)
THEOREM NoOlderModel == Spec => []NoReturnToAnOlderModel
<1>1. IInv => NoReturnToAnOlderModel
  BY DEF IInv
<1> QED
  BY <1>1, Invariance, PTL

(***************************************************************************)
(* Without faults, once a train on clean data has answered, the active     *)
(* model is not that of a train that had answered before it began          *)
(* (handlers.go:74-110, features.go:92-94).                                *)
(***************************************************************************)
THEOREM LastTrainActive == Spec => []LastTrainIsActive
<1>1. IInv => LastTrainIsActive
  <2> SUFFICES ASSUME IInv, faults = 0, NEW t \in Trains, tpc[t] = "ok", Clean(data[t].trips),
                      ~data[t].diverges
               PROVE  active # NoModel /\ active.model \notin before[t]
    BY DEF LastTrainIsActive
  <2>1. /\ data[t].trips \in Seq(TripType) /\ data[t].trips # <<>>
        /\ data[t].diverges = FALSE
    BY DataAssumption DEF IInv, TypeOK
  <2>2. Marshalled(t)
    BY <2>1, CleanIsPublishable DEF Marshalled
  <2>3. put[t] = "applied" /\ \A s \in Trains : put[s] # "late"
    BY <2>2 DEF IInv, FaultlessInv
  <2>4. active # NoModel /\ (active.model \notin before[t] \/ put[active.model] = "late")
    BY <2>3 DEF IInv, NoReturnToAnOlderModel
  <2>5. active.model \in Trains
    BY <2>4 DEF IInv, StoresInv, Published
  <2> QED
    BY <2>3, <2>4, <2>5
<1> QED
  BY <1>1, Invariance, PTL

================================================================================
