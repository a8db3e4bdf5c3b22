-------------------------------- MODULE Service --------------------------------
(***************************************************************************)
(* The REST service (internal/api) over MongoDB and Redis (internal/       *)
(* store): POST /train publishes the model it has trained in a series of   *)
(* writes to the two stores, GET /predict reads it, or a prediction kept   *)
(* from an earlier request.  Every request has a goroutine of its own, and *)
(* nothing but the stores between them; a step is a call to a store.       *)
(*                                                                         *)
(* The epochs of a training are the subject of Cluster, and whether its    *)
(* numbers are finite that of Fit.  A model is represented by the request  *)
(* that trained it, and a prediction by the model it comes from.           *)
(***************************************************************************)
EXTENDS Fit, FiniteSets, FiniteSetsExt

CONSTANTS
  NumTrains,   \* POST /train requests
  NumPredicts, \* GET /predict requests
  TrainData(_), \* what a POST /train may train on: trips, as those of Parser, and
               \* diverges, whether its learning rate is too large for them
  Inputs,      \* keys of the predictions kept in Redis
  Capacity,    \* latency samples kept (200 in the code)
  MaxFaults    \* bound: failed store calls and crashes

Trains   == 1 .. NumTrains
Predicts == 1 .. NumPredicts

ASSUME SizesAssumption ==
  /\ NumTrains \in Nat
  /\ NumPredicts \in Nat
  /\ Inputs # {}
  /\ Capacity \in Nat \ {0}
  /\ MaxFaults \in Nat

ASSUME DataAssumption ==
  \A t \in Trains : \A d \in TrainData(t) :
    d.trips \in Seq(TripType) \ {<<>>} /\ d.diverges \in BOOLEAN

None   == 0     \* no model; versions and models are numbered from 1
Cached == -1    \* the version in the answer to a prediction that was kept

VARIABLES
  data,        \* train: its data
  tpc,         \* train: "idle", "train", "version", "save", "run", "active", "publish",
               \* "ok" (200), "error" (500), "lost" (the process died)
  version,     \* train: the version it was given
  before,      \* auxiliary: the trains that had answered 200 when it began
  put,         \* train: its SET of model:active is "none" (not sent, or lost),
               \* "applied", "pending" (timed out, but on its way) or "late" (applied
               \* after it had timed out)
  ppc,         \* predict: "idle", "cache", "model", "store", "answer", "push", "trim",
               \* "done", "lost"
  input,       \* predict: its key
  fetched,     \* predict: the model and version read from Redis
  answer,      \* predict: the answer written
  logging,     \* predict: its goroutine that logs the prediction runs
  seq,         \* Mongo: the counter of versions
  models,      \* Mongo: the documents of collection models
  runs,        \* Mongo: the versions in collection training_runs
  predictions, \* Mongo: the documents of collection predictions
  active,      \* Redis: model:active
  predCache,   \* Redis: pred:cache:<key>, the model of the prediction kept
  latencies,   \* Redis: the length of the list of samples
  snapshot,    \* Redis: what it would come back with after a crash
  faults       \* faults so far

trainVars   == <<data, tpc, version, before, put>>
predictVars == <<ppc, input, fetched, answer, logging>>
mongoVars   == <<seq, models, runs, predictions>>
redisVars   == <<active, predCache, latencies, snapshot>>
vars == <<trainVars, predictVars, mongoVars, redisVars, faults>>

NoModel == [version |-> None, model |-> None]
Doc(v, m) == [version |-> v, model |-> m]

Init ==
  /\ data \in [Trains -> UNION {TrainData(t) : t \in Trains}]
  /\ \A t \in Trains : data[t] \in TrainData(t)
  /\ tpc = [t \in Trains |-> "idle"]
  /\ version = [t \in Trains |-> None]
  /\ before = [t \in Trains |-> {}]
  /\ put = [t \in Trains |-> "none"]
  /\ ppc = [p \in Predicts |-> "idle"]
  /\ input \in [Predicts -> Inputs]
  /\ fetched = [p \in Predicts |-> NoModel]
  /\ answer = [p \in Predicts |-> NoModel]
  /\ logging = {}
  /\ seq = 0 /\ models = {} /\ runs = {} /\ predictions = {}
  /\ active = NoModel /\ predCache = [x \in Inputs |-> None] /\ latencies = 0
  /\ snapshot = <<active, predCache>>
  /\ faults = 0

(***************************************************************************)
(* A store call that fails, by its timeout or otherwise.                   *)
(***************************************************************************)
Fault == faults < MaxFaults /\ faults' = faults + 1

(***************************************************************************)
(* A write whose error is ignored or only logged.  If it fails it may have *)
(* been applied all the same, which is no different from success.          *)
(***************************************************************************)
BestEffort(written, unwritten) == \/ written /\ UNCHANGED faults
                                  \/ unwritten /\ Fault

--------------------------------------------------------------------------------
(***************************************************************************)
(* POST /train.                                                            *)
(***************************************************************************)

Goto(t, label) == tpc' = [tpc EXCEPT ![t] = label]

StartTrain(t) ==
  /\ tpc[t] = "idle"
  /\ Goto(t, "train")
  /\ before' = [before EXCEPT ![t] = {s \in Trains : tpc[s] = "ok"}]
  /\ UNCHANGED <<data, version, put, predictVars, mongoVars, redisVars, faults>>

(***************************************************************************)
(* Loading and training succeed or fail (a bad file, a lost node).         *)
(***************************************************************************)
Train(t) ==
  /\ tpc[t] = "train"
  /\ Goto(t, "version") \/ Goto(t, "error")
  /\ UNCHANGED <<data, version, before, put, predictVars, mongoVars, redisVars, faults>>

(***************************************************************************)
(* One atomic increment of the counter; it may fail after the increment.   *)
(* Faults: the version follows the last one saved; it is the counter as it *)
(* was before the increment, which is what the driver returns unasked.     *)
(***************************************************************************)
NextVersion_Before(t) ==
  /\ tpc[t] = "version"
  /\ seq' = seq + 1
  /\ version' = [version EXCEPT ![t] = seq]
  /\ Goto(t, "save")
  /\ UNCHANGED <<data, before, put, predictVars, models, runs, predictions, redisVars, faults>>
NextVersion_LastSaved(t) ==
  /\ tpc[t] = "version"
  /\ version' = [version EXCEPT ![t] = 1 + Max({0} \union {d.version : d \in models})]
  /\ seq' = version'[t]
  /\ Goto(t, "save")
  /\ UNCHANGED <<data, before, put, predictVars, models, runs, predictions, redisVars, faults>>
NextVersion(t) ==
  /\ tpc[t] = "version"
  /\ \/ /\ seq' = seq + 1
        /\ version' = [version EXCEPT ![t] = seq']
        /\ Goto(t, "save")
        /\ UNCHANGED faults
     \/ /\ seq' \in {seq, seq + 1}
        /\ Goto(t, "error")
        /\ Fault
        /\ UNCHANGED version
  /\ UNCHANGED <<data, before, put, predictVars, models, runs, predictions, redisVars>>

SaveModelVersion(t) ==
  /\ tpc[t] = "save"
  /\ BestEffort(models' = models \union {Doc(version[t], t)}, UNCHANGED models)
  /\ Goto(t, "run")
  /\ UNCHANGED <<data, version, before, put, predictVars, seq, runs, predictions, redisVars>>

SaveTrainingRun(t) ==
  /\ tpc[t] = "run"
  /\ BestEffort(runs' = runs \union {version[t]}, UNCHANGED runs)
  /\ Goto(t, "active")
  /\ UNCHANGED <<data, version, before, put, predictVars, seq, models, predictions, redisVars>>

(***************************************************************************)
(* A model that JSON cannot hold is not sent; the error is only logged.    *)
(***************************************************************************)
Marshalled(t) == Marshals(TrainDistributed(data[t].trips, data[t].diverges))

Put(t, how) == put' = [put EXCEPT ![t] = how]

(***************************************************************************)
(* The write of model:active.  Fault: an active model is not replaced.     *)
(***************************************************************************)
SetActive_IfAbsent(t) == active' = IF active = NoModel THEN Doc(version[t], t) ELSE active
SetActive(t) == active' = Doc(version[t], t)

(***************************************************************************)
(* The write succeeds, or seems to fail: it is lost, or is applied, now or *)
(* later.                                                                  *)
(***************************************************************************)
SetActiveModel(t) ==
  /\ tpc[t] = "active"
  /\ \/ ~Marshalled(t) /\ UNCHANGED <<active, put, faults>>
     \/ Marshalled(t) /\ SetActive(t) /\ Put(t, "applied") /\ UNCHANGED faults
     \/ Marshalled(t) /\ Fault /\ UNCHANGED active /\ (UNCHANGED put \/ Put(t, "pending"))
  /\ Goto(t, "publish")
  /\ UNCHANGED <<data, version, before, predictVars, mongoVars, predCache, latencies, snapshot>>

LateSet(t) ==
  /\ put[t] = "pending"
  /\ SetActive(t)
  /\ Put(t, "late")
  /\ UNCHANGED <<data, tpc, version, before, predictVars, mongoVars, predCache, latencies,
                 snapshot, faults>>

(***************************************************************************)
(* The channel model:updates has no subscriber; the answer is 200.         *)
(***************************************************************************)
Publish(t) ==
  /\ tpc[t] = "publish"
  /\ Goto(t, "ok")
  /\ UNCHANGED <<data, version, before, put, predictVars, mongoVars, redisVars, faults>>

TrainNext(t) == \/ StartTrain(t) \/ Train(t) \/ NextVersion(t) \/ SaveModelVersion(t)
                \/ SaveTrainingRun(t) \/ SetActiveModel(t) \/ LateSet(t) \/ Publish(t)

--------------------------------------------------------------------------------
(***************************************************************************)
(* GET /predict.                                                           *)
(***************************************************************************)

Request(p) ==
  /\ ppc[p] = "idle"
  /\ ppc' = [ppc EXCEPT ![p] = "cache"]
  /\ UNCHANGED <<trainVars, input, fetched, answer, logging, mongoVars, redisVars, faults>>

(***************************************************************************)
(* A failed read is a miss.                                                *)
(***************************************************************************)
GetCachedPred(p) ==
  /\ ppc[p] = "cache"
  /\ \/ /\ predCache[input[p]] # None
        /\ answer' = [answer EXCEPT ![p] = Doc(Cached, predCache[input[p]])]
        /\ ppc' = [ppc EXCEPT ![p] = "push"]
        /\ UNCHANGED faults
     \/ /\ IF predCache[input[p]] = None THEN UNCHANGED faults ELSE Fault
        /\ ppc' = [ppc EXCEPT ![p] = "model"]
        /\ UNCHANGED answer
  /\ UNCHANGED <<trainVars, input, fetched, logging, mongoVars, redisVars>>

(***************************************************************************)
(* Without an active model, or without Redis, the answer is 503.           *)
(***************************************************************************)
GetActiveModel(p) ==
  /\ ppc[p] = "model"
  /\ \/ /\ active # NoModel
        /\ fetched' = [fetched EXCEPT ![p] = active]
        /\ ppc' = [ppc EXCEPT ![p] = "store"]
        /\ UNCHANGED faults
     \/ /\ IF active = NoModel THEN UNCHANGED faults ELSE Fault
        /\ ppc' = [ppc EXCEPT ![p] = "push"]
        /\ UNCHANGED fetched
  /\ UNCHANGED <<trainVars, input, answer, logging, mongoVars, redisVars>>

(***************************************************************************)
(* The version reported with a prediction.  Fault: it is read again.       *)
(***************************************************************************)
VersionOf_Refetched(p) == active.version
VersionOf(p) == fetched[p].version

(***************************************************************************)
(* Keep the prediction, then start the goroutine that logs it.             *)
(***************************************************************************)
SetCachedPred(p) ==
  /\ ppc[p] = "store"
  /\ BestEffort(predCache' = [predCache EXCEPT ![input[p]] = fetched[p].model],
                UNCHANGED predCache)
  /\ logging' = logging \union {p}
  /\ ppc' = [ppc EXCEPT ![p] = "answer"]
  /\ UNCHANGED <<trainVars, input, fetched, answer, mongoVars, active, latencies, snapshot>>

Respond(p) ==
  /\ ppc[p] = "answer"
  /\ answer' = [answer EXCEPT ![p] = Doc(VersionOf(p), fetched[p].model)]
  /\ ppc' = [ppc EXCEPT ![p] = "push"]
  /\ UNCHANGED <<trainVars, input, fetched, logging, mongoVars, redisVars, faults>>

(***************************************************************************)
(* The goroutine may log a prediction before it is answered, or when the   *)
(* request has ended.                                                      *)
(***************************************************************************)
SavePrediction(p) ==
  /\ p \in logging
  /\ logging' = logging \ {p}
  /\ BestEffort(predictions' = predictions \union
                               {[of |-> p, doc |-> Doc(VersionOf(p), fetched[p].model)]},
                UNCHANGED predictions)
  /\ UNCHANGED <<trainVars, ppc, input, fetched, answer, seq, models, runs, redisVars>>

(***************************************************************************)
(* The middleware records the latency: a push and a trim, in a pipeline    *)
(* that other clients' commands may come between.                          *)
(***************************************************************************)
PushLatency(p) ==
  /\ ppc[p] = "push"
  /\ BestEffort(latencies' = latencies + 1 /\ ppc' = [ppc EXCEPT ![p] = "trim"],
                UNCHANGED latencies /\ ppc' = [ppc EXCEPT ![p] = "done"])
  /\ UNCHANGED <<trainVars, input, fetched, answer, logging, mongoVars, active, predCache, snapshot>>

(***************************************************************************)
(* Fault: LTRIM keeps a sample more.                                       *)
(***************************************************************************)
Trim_OneMore(len) == IF len > Capacity + 1 THEN Capacity + 1 ELSE len
Trim(len) == IF len > Capacity THEN Capacity ELSE len

TrimLatencies(p) ==
  /\ ppc[p] = "trim"
  /\ latencies' = Trim(latencies)
  /\ ppc' = [ppc EXCEPT ![p] = "done"]
  /\ UNCHANGED <<trainVars, input, fetched, answer, logging, mongoVars, active, predCache, snapshot,
                 faults>>

(***************************************************************************)
(* A prediction is kept for five minutes.                                  *)
(***************************************************************************)
ExpirePred(x) ==
  /\ predCache[x] # None
  /\ predCache' = [predCache EXCEPT ![x] = None]
  /\ UNCHANGED <<trainVars, predictVars, mongoVars, active, latencies, snapshot, faults>>

PredictNext(p) == \/ Request(p) \/ GetCachedPred(p) \/ GetActiveModel(p) \/ SetCachedPred(p)
                  \/ Respond(p) \/ SavePrediction(p) \/ PushLatency(p) \/ TrimLatencies(p)

--------------------------------------------------------------------------------

Training(t) == tpc[t] \notin {"idle", "ok", "error", "lost"}

(***************************************************************************)
(* The API process dies, with the requests and goroutines it had.  The     *)
(* pipeline of a latency in progress is in the hands of Redis.             *)
(***************************************************************************)
CrashAPI ==
  /\ Fault
  /\ tpc' = [t \in Trains |-> IF Training(t) THEN "lost" ELSE tpc[t]]
  /\ ppc' = [p \in Predicts |->
               IF ppc[p] \in {"cache", "model", "store", "answer", "push"} THEN "lost" ELSE ppc[p]]
  /\ logging' = {}
  /\ UNCHANGED <<data, version, before, put, input, fetched, answer, mongoVars, redisVars>>

(***************************************************************************)
(* Redis writes a snapshot every now and then; a crash takes it back to    *)
(* the last one, at first an empty database.  The list of latencies is     *)
(* taken to be no longer then.  Bound: no snapshot is taken when no crash  *)
(* can follow.                                                             *)
(***************************************************************************)
Snapshot ==
  /\ faults < MaxFaults
  /\ snapshot' = <<active, predCache>>
  /\ UNCHANGED <<trainVars, predictVars, mongoVars, active, predCache, latencies, faults>>

CrashRedis ==
  /\ Fault
  /\ active' = snapshot[1] /\ predCache' = snapshot[2] /\ latencies' \in 0 .. latencies
  /\ put' = [t \in Trains |-> IF put[t] \in {"applied", "pending"} THEN "none" ELSE put[t]]
  /\ UNCHANGED <<data, tpc, version, before, predictVars, mongoVars, snapshot>>

(***************************************************************************)
(* No request is being served.                                             *)
(***************************************************************************)
Quiet == /\ \A t \in Trains : tpc[t] \in {"ok", "error", "lost"}
         /\ \A p \in Predicts : ppc[p] \in {"done", "lost"}
         /\ logging = {}
         /\ UNCHANGED vars

Next == \/ \E t \in Trains : TrainNext(t)
        \/ \E p \in Predicts : PredictNext(p)
        \/ \E x \in Inputs : ExpirePred(x)
        \/ CrashAPI \/ Snapshot \/ CrashRedis
        \/ Quiet

Spec == Init /\ [][Next]_vars

--------------------------------------------------------------------------------
(***************************************************************************)
(* Properties.                                                             *)
(***************************************************************************)

Docs == [version : Int, model : Nat]

(***************************************************************************)
(* Types of the variables.                                                 *)
(***************************************************************************)
TypeOK ==
  /\ \A t \in Trains : data[t] \in TrainData(t)
  /\ tpc \in [Trains -> {"idle", "train", "version", "save", "run", "active", "publish",
                         "ok", "error", "lost"}]
  /\ version \in [Trains -> 0 .. seq]
  /\ before \in [Trains -> SUBSET Trains]
  /\ put \in [Trains -> {"none", "applied", "pending", "late"}]
  /\ ppc \in [Predicts -> {"idle", "cache", "model", "store", "answer", "push", "trim", "done",
                           "lost"}]
  /\ input \in [Predicts -> Inputs]
  /\ fetched \in [Predicts -> Docs]
  /\ answer \in [Predicts -> Docs]
  /\ logging \subseteq Predicts
  /\ seq \in 0 .. NumTrains
  /\ models \subseteq Docs
  /\ runs \subseteq 1 .. seq
  /\ predictions \subseteq [of : Predicts, doc : Docs]
  /\ active \in Docs
  /\ predCache \in [Inputs -> Trains \union {None}]
  /\ latencies \in Nat
  /\ snapshot \in Docs \X [Inputs -> Trains \union {None}]
  /\ faults \in 0 .. MaxFaults

(***************************************************************************)
(* Push and trim are two commands of a pipeline: pushes of other requests  *)
(* may come between, so the list grows over its cap by the trims that are  *)
(* still due, and by no more.  No sample stays over the cap, even of a     *)
(* request whose process died (redis.go:132-140).                          *)
(***************************************************************************)
LatenciesAreCapped ==
  latencies <= Capacity + Cardinality({p \in Predicts : ppc[p] = "trim"})

(***************************************************************************)
(* A version names one model, however trains interleave, when calls to the *)
(* stores fail or come late and when the API or Redis crashes (Mongo does  *)
(* not): "NextVersion atomically increments" (mongo.go:98).  So it is in   *)
(* models, in Redis and in the answers to POST /train; and of two trains   *)
(* that did not overlap the later has the higher.                          *)
(***************************************************************************)
VersionNamesOneModel ==
  /\ \A s, t \in Trains : version[s] = version[t] => s = t \/ version[s] = None
  /\ \A d \in models \union ({active} \ {NoModel}) : version[d.model] = d.version
  /\ \A t \in Trains : \A s \in before[t] : version[t] # None => version[s] < version[t]

(***************************************************************************)
(* A prediction that GET /predict computes is reported, and logged, with   *)
(* the version of the model that computed it, even when a train replaces   *)
(* the active model meanwhile; one that was kept comes from a model that   *)
(* was published.                                                          *)
(***************************************************************************)
PredictionsNameTheirModel ==
  \A d \in {answer[p] : p \in Predicts} \union {e.doc : e \in predictions} :
    d # NoModel => /\ version[d.model] # None
                   /\ d.version \in {Cached, version[d.model]}

(***************************************************************************)
(* Once a model is active, no model of a train that had answered before    *)
(* its own train began becomes active again, whichever calls fail and      *)
(* though the API may crash: only trains that overlap may publish out of   *)
(* order.  The exceptions are a write that Redis applies after it has      *)
(* timed out, and a crash of Redis.                                        *)
(***************************************************************************)
NoReturnToAnOlderModel ==
  \A t \in Trains : put[t] = "applied" =>
    /\ active # NoModel
    /\ active.model \notin before[t] \/ put[active.model] = "late"

(***************************************************************************)
(* In the absence of faults, after a train on two or more trips without a  *)
(* NaN, and with a learning rate small enough, some model is active,       *)
(* whatever features are the same in all trips, and it is not that of a    *)
(* train that had answered before this one began: it is its own, or that   *)
(* of a train that overlapped it or came later.                            *)
(***************************************************************************)
LastTrainIsActive ==
  faults = 0 =>
    \A t \in Trains : tpc[t] = "ok" /\ Clean(data[t].trips) /\ ~data[t].diverges =>
      active # NoModel /\ active.model \notin before[t]

(***************************************************************************)
(* GET /model shows the "modelo activo" (README.md:168) while no train     *)
(* runs: the last model in Mongo is the one that GET /predict uses.        *)
(***************************************************************************)
LatestIsActive ==
  (\A t \in Trains : ~Training(t)) =>
    \A d \in models : d.version = Max({e.version : e \in models}) => d = active

(***************************************************************************)
(* POST /train "guarda en Mongo + Redis" (README.md:166): when it answers  *)
(* 200 the model is in Mongo, and Redis has been given it.                 *)
(***************************************************************************)
TrainedModelIsSaved ==
  \A t \in Trains : tpc[t] = "ok" => Doc(version[t], t) \in models /\ put[t] # "none"

================================================================================
