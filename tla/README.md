# A TLA+ verification of taxi: concurrent loading, parallel and distributed SGD

The repository is a Go program that loads the NYC yellow-taxi CSV with a pool of goroutines, trains a
linear model of trip duration by gradient descent (locally with goroutines, or on a cluster of TCP
nodes), and serves it over REST with MongoDB and Redis behind. This directory holds TLA+ models of it, the
TLC configurations that check them on small instances, and TLAPS proofs of their safety properties, for all
sizes and values. Paths below are relative to `src/`.

## 1. The system

| Component | Source | State | Operations |
|---|---|---|---|
| Loader | `internal/loader/loader.go` | `batchCh` (cap 2W), `outCh` (cap 1024 W), `totalRead`, nine discard counters, the slice of trips | `Load`: reader, W workers, the goroutine that closes `outCh`, collector |
| Parser | `internal/loader/parser.go` | none | `buildIndex`, `parseLine` (rules R1..R9) |
| Partitions | `internal/model/sgd.go:334` | none | `MakePartitions`, shared by both trainers |
| Local trainer | `internal/model/sgd.go` | theta (the array shared by coordinator and aggregator in the first epoch), `paramCh[w]` (cap 1), `gradCh` (cap 4W), `epochResultCh` (cap 1), accumulators | `Train`, `runWorker`, `runAggregator` |
| Distributed trainer, coordinator | `internal/cluster/coordinator.go`, `protocol.go` | per job: theta, connections, `resultCh`, deadline of the epoch | `TrainDistributed` |
| Distributed trainer, node | `internal/cluster/node.go` | listen backlog, the connection in service, its rows X and Y | `ServeListener`, `handleConn` |
| REST service | `internal/api/handlers.go`, `server.go` | none of its own: one goroutine per request | `/train`, `/predict`, `/model`, `/metrics`, `/insights`, latency middleware |
| Stores | `internal/store/mongo.go`, `redis.go` | version counter, models, runs, predictions, insights; `model:active`, kept predictions, latencies | one call each |
| Features and scaler, model | `internal/model/features.go`, `model.go` | none shared | `ExtractRaw`, `FitScaler`, `BuildMatrix`, `Evaluate`, files of a model |
| Exploratory statistics | `internal/stats/stats.go` | histograms, cells, six CSV files | `Compute`, `ExportCSVs` |
| Command line | `cmd/taxi/main.go` | none | one subcommand per use, `seed-insights` among them |

How they interact: the command line runs Loader then the local trainer. `POST /train` runs Loader, then
TrainDistributed on the one list of nodes, then five store calls; several requests run at once with no
lock between them. `GET /predict` reads Redis and logs to MongoDB in a goroutine. Goroutines of a trainer
share bounded channels, jobs and nodes share TCP connections, requests share the stores.

The hard behaviour, and what must hold of it:

- **Local trainer.** The epoch barrier is a count of `kindDone` messages in the same channel as the
  gradients; theta is updated in place in an array the coordinator reads too. It must be race-free, apply
  each row's gradient once per epoch at the right theta, and let every goroutine end.
- **Loader.** Shutdown runs through two channel closes and a WaitGroup; every line must be in the result
  exactly once, as a trip or in the counter of its rule.
- **Distributed trainer.** Jobs hold nodes while they wait for others; nodes crash and come back; the
  protocol does not check the epoch of an answer; error returns do not close connections. A model must
  never come from a partial or stale gradient, and jobs and nodes must not wait for ever.
- **Service.** A train publishes in several separate writes that other trains and failures interleave
  with. Versions and predictions must name the right model, and a model with a number that is not finite
  cannot be written to Redis.
- **Parser and statistics.** Nine rules in an order, comparisons with NaN, an index that the header decides;
  bins, cells of both signs, ties; six outputs that fail one by one. A line must be counted under the first
  rule it breaks, and the aggregates must be about the same trips.

`PROJECT.json` lists every hazard at its line with the properties that cover it.

## 2. Modules

| Module | What it is |
|---|---|
| `GradientDescent` | Abstract specification of both trainers: one step of theta per epoch along the gradient of all the rows, and a result after the last epoch |
| `Partitions` | `MakePartitions` |
| `ParallelSGD`, `MCParallelSGD` | The local trainer; composes Partitions, implements GradientDescent |
| `LoadReport` | Abstract specification of `Load`: lines are accounted for one at a time, in any order, and a result returned |
| `Loader`, `MCLoader` | The loading pipeline; implements LoadReport |
| `Parser` | `buildIndex` and `parseLine` as operators, and the rules as a table to check them against |
| `Stats`, `MCStats` | `stats` and `seed-insights`: Parser on every line, `Compute`, `ExportCSVs`, the upserts |
| `Cluster`, `MCCluster` | Coordinator jobs, connections and nodes; composes Partitions; every job implements GradientDescent |
| `Fit` | Features, scaler, loss, metrics and the conversion to JSON, down to which numbers are finite |
| `Service`, `MCService` | `/train` and `/predict` over MongoDB and Redis; composes Fit |
| `SeqFacts` | Lemmas about sequences that stand for queues, and about counting what is in them |
| `Partitions_proofs`, `ParallelSGD_proofs`, `Loader_proofs`, `Cluster_proofs`, `Stats_proofs`, `Fit_proofs`, `Service_proofs` | The proofs |

The MC modules only give values to operator constants. Definitions named `X_Something` before a
definition `X` are faults a programmer might have put in its place; nothing uses them but mutation runs,
which show that the properties can fail.

### Abstraction

- **Parameters and gradients.** A theta is an opaque value. A gradient is not a number but the multiset of
  its terms: for each row, the sequence of the thetas at which its term was evaluated. A lost, repeated or
  stale term shows however the numbers would cancel. `Update` is any function; in the MC modules a theta is
  the number of correct steps that led to it, or -1 after an incorrect one. Floating-point rounding is out.
- **Rows, lines, messages.** Rows and lines are numbers; in Loader a batch is its first and last line, and a
  line is what `parseLine` makes of it. In Parser a line is its fields, each a number in a unit that makes
  the bounds of the rules integers (seconds, 0.01 mi, 0.001 degrees, cents), NaN or unreadable, and a speed
  is compared without division. The random order of a worker's rows is any choice of mini-batches.
- **Channels** are sequences with the code's capacity as a guard of the send; `close` is a flag. TCP
  connections are two FIFO sequences and a state.
- **Numbers of a model.** Fit keeps of each whether it is finite, and of a deviation whether it is 0. Whether
  the weights overflow for a large learning rate is a choice (`diverges`).

### Correspondence

- **ParallelSGD**: `pc`, `next`, `epoch` are where `Train` is (`Broadcast` 147-153, `AwaitResult` 155-166,
  `CloseParam` 169-172). `aliased` says that `Train`'s `theta` is still the slice given to the aggregator,
  as it is until the first `theta = <-epochResultCh`. The in-place update is two steps, `StartUpdate` and
  `FinishUpdate`, so that a concurrent read falls between them. `left[w]` are the rows of the partition that
  worker w has not yet put in a mini-batch. `doneBy` and the field `from` are auxiliary.
- **Loader**: `sent+1 .. totalRead` is the reader's unsent batch, `cur[w] .. last[w]` the rest of worker w's.
  `dropped` is auxiliary. An early return of `Load` is `Fail`; `ScanFails` is the scanner's error, which is
  only logged; after `CrashOnLine` the process, and with it every goroutine, is gone (`Alive`). The loading
  that LoadReport sees is `pc`; its `total` is set by the return.
- **Parser, Stats**: `ReadOrder` and `RuleBroken` follow the tests of `parseLine` one by one; `IsFirstBroken`
  states the result from the table of rules. `ReadLine` is one line, `CountTrip` one trip of `Compute`,
  `SortCells` its end, `ExportCSV` and `UpsertInsight` one dataset. `stored[d] = "partial"` is a file cut
  short. What Go leaves open is a choice: `int(NaN)`, the order of a map, ties of an unstable sort, and the
  side of an integer that a product of floats falls on. `ConnectFails` is the one call of `seed-insights`
  whose error ends it.
- **Cluster**: `jpc[j]`, `slot[j]`, `epoch[j]` are where `TrainDistributed` is; `gpc[j][n]` is the goroutine
  of the epoch for node n; `link`, `toNode`, `toCoord` the connection. `FailSetup`, `TimeOut` and `FailEpoch`
  are the error returns, which leave `link` as it is. `Finalize` is the Go runtime closing a connection
  nobody refers to. `serving` and `backlog` are the node's accept loop, one connection at a time.
  `CrashNode`, `RestartNode`, `CrashAPI`, `Hang` and `Expire` are the environment's; a node in `hung` takes
  no step and keeps its connections.
- **Service**: each step is one call to a store, with its failure; the calls whose error is ignored or only
  logged use `BestEffort`, whose failure is the write not applied. A failed write may also have been applied;
  that is the same state as success, except for `NextVersion`, where both are distinguished, and for
  `SetActiveModel`, where the write may also come later (`LateSet`), even after the request has been answered.
  `put[t]` says what became of the write of train t. `SetCachedPred` ends with the start of the goroutine that
  logs the prediction, `Respond` is the answer, and `SavePrediction` may come before or after it; `PushLatency`
  and `TrimLatencies` are the middleware's. `CrashRedis` goes back to the last `Snapshot`.
  `data[t]` are the trips that train t loads; what becomes of them is `TrainDistributed` of Fit.

## 3. Runs

| Run | Instance | Question |
|---|---|---|
| `sgd` | 10 rows, 3 workers (3, 3 and 4 rows), batches of 2, 3 epochs, `gradCh` of 3 for 9 messages an epoch | barrier, races, full gradient, refinement, back pressure, termination |
| `loader` | 16 lines, limit 15, batches of 2, 2 workers, `outCh` of 2; or a file with a line that panics | conservation of lines, closes, the report (LoadReport), shutdown |
| `loader_order` | the same files, batches of one line | *violation*: the order of the trips |
| `stats` | up to 3 trips of 4 kinds, then one of some 300 lines that break a rule or two; 3 headers; 1 failed write or connection | first rule broken, panics, aggregates, cells, errors of the exports |
| `stats_centre` | 1 trip | *violation*: the centre of a cell, in longitude |
| `cluster_faults` | 2 jobs, 2 nodes, 3 rows, 2 epochs, 2 faults, hangs among them | no partial or stale gradient, whatever fails |
| `cluster_recovery` | 2 jobs, 2 nodes, 1 row (none for the first node), 1 epoch, 2 faults, no hangs | contention for nodes: every job ends, as gradient descent or with an error, every node is freed |
| `cluster_leak` | 1 job, 2 nodes, 1 fault | *violation*: connections left open |
| `cluster_hang` | 1 job, 2 nodes, 1 epoch, 2 faults, hangs among them | *violation*: the deadline of an epoch does not end it |
| `service` | 2 trains, the first perhaps on a trip with a NaN, 2 predictions, 1 fault | versions and predictions name the right model; order of trains; clean data is always published; latencies keep to their cap |
| `service_order` | 2 trains, no fault | *violation*: `/model` is not the active model |
| `service_partial` | 1 train on one trip, with a NaN, or that diverges, no fault | *violation*: 200 without the model in Redis |

The bounds are chosen so that each interesting case happens: two epochs are enough for one to disturb the
next, and three for the aliasing of the first to be long over; two workers or nodes are enough for one to
be ahead of the other; the partitions are uneven, batches have a short last one, and the channels are small
enough to fill: 16 lines in batches of two fill `batchCh` (4), both workers and `outCh` (2) while the reader
has more. `OutPerWorker` stands for the 1024 of the code, `GradPerWorker` for 4, `Capacity` for the 200
latencies and `TopN` for the 50 cells: only whether they fill matters. `MaxFaults` bounds crashes, hangs,
expired deadlines and failed calls; two are enough for a crash during the recovery from another. With two
faults the liveness of the cluster is checked with one epoch, its safety with two. Two jobs that dial two
nodes in opposite orders would wait for each other: the mutant of `EveryJobEnds` does, so two of each are
enough for that question too; that no number of jobs disturbs the gradient descent of another is proved
(`JobsDescend`). Among the behaviours of a run with faults are those with none. A hung node really stops
the system, so `cluster_faults` and `cluster_hang` do not check for deadlock. In `stats` a discarded line,
which leaves nothing behind, is the last of its file, and the trips are so few because `Compute` treats each
by itself: three are enough for a tie and a cell with two. In `service` only the first train may have a NaN,
and no snapshot is taken when no crash can follow.

### What the violations show

1. **Trips arrive in no fixed order** (`loader_order`). The split into training and test set is by position,
   so with more than one loader worker the seed does not make a run reproducible, as `--seed` ("semilla para
   reproducibilidad") suggests.
2. **A failed distributed job leaks its connections** (`cluster_leak`). The nodes it had reached serve nobody
   until the garbage collector closes the connections. `cluster_recovery` shows that this is all that is
   lost: given the collector, later jobs do get the nodes.
3. **The older of two overlapping trains may stay active** (`service_order`), while `/model` shows the newer.
4. **`/train` answers 200 and Redis is never sent the model** (`service_partial`), without any failure of a
   store: `json.Marshal` refuses a number that is not finite. `CleanIsPublishable` says exactly which files
   do this: those with one valid trip, or with a NaN in a coordinate, which the parser lets through.
5. **The deadline of an epoch is not one** (`cluster_hang`): it is looked at only when an answer has arrived,
   so a node that neither answers nor closes its connection holds the job, and the request, for ever.
6. **`lon_centro` is not the centre of the cell** (`stats_centre`): `int()` cuts a negative longitude upwards,
   so the centre printed lies outside the cell, half a cell to one and a half to the east of its pickups. The
   latitudes are right (`LatitudesAreNearCentre`).

Two more facts that the passing properties state. A header with more than 19 columns can make a worker of
the loader panic, and with it the API, whose middleware recovers only panics of the request's own goroutine
(`NarrowHeaderNeverPanics`, the second file of `loader`). `seed-insights` says that all is loaded even if an
upsert failed (`InsightsAreIndependent`).

### Fairness

Weak fairness of each goroutine, of each node's loop and of the collector: the Go and OS schedulers run what
can run, and no mutual exclusion calls for strong fairness. In Cluster also of `RestartNode` (compose:
`restart: unless-stopped`) and of `Finalize` (the Go runtime forces a collection every two minutes, and a
`net.Conn` has a finalizer). Nothing is assumed of requests, crashes, hangs, deadlines or expiries, and
nothing of a process that has died (`Alive` in Loader) or hangs (the guard of `NodeNext`): `EveryJobEnds`
is checked without hangs, since with them it fails as in `cluster_hang`. Service and Stats state no liveness:
they are straight lines of calls.

## 4. Proofs

Every invariant and every refinement that a passing run checks is also a theorem, of `Spec` and for every
value of the constants; the theorem's comment names the code. `PROJECT.json` lists them.

| Module | Theorems |
|---|---|
| `Partitions_proofs` | Each partition lies within the rows, no row is in two, every row is in one |
| `ParallelSGD_proofs` | `TypeCorrect`, `RaceFree`, `BarrierHolds`, `GradientIsFull`, `DoneComesLast`, `NoBlockedBroadcast`; `RefinesGradientDescent` (`Spec => GD!Spec`) |
| `Loader_proofs` | `TypeCorrect`, `Conservation`, `ChannelsClosedInOrder`, `ResultIsComplete`; `LoadReports` (`Spec => Report!Spec`) |
| `Cluster_proofs` | `TypeCorrect`, `AnswersCurrent`; `JobsDescend` (every job is gradient descent, any faults) |
| `Stats_proofs` | `FirstRule`, `RuleCorrect`, `NoPanic`, `AggregatesCorrect`, `TopCellsCorrect`, `CentresCorrect`, `ExportCorrect`, `InsightsCorrect`, `TypeCorrect` |
| `Fit_proofs` | `CleanIsPublishable` |
| `Service_proofs` | `TypeCorrect`, `VersionsNameModels`, `PredictionsCorrect`, `NoOlderModel`, `LastTrainActive`, `LatenciesCapped` |

### What is assumed

Only the named assumptions on constants, which TLC evaluates on every run:

- `SizesAssumption` (ParallelSGD, Cluster, Loader): what `setDefaults`, the flags and the types guarantee.
  Rows may be none, or fewer than workers.
- `ThetaAssumption`: the set Theta is closed under a correct step; `Update` is any operator.
- `FilesAssumption` (Loader): each line of a file breaks one rule, none, or panics.
- `LinesAssumption`, `HeadersAssumption` (Stats): a line's fields, when they can be read, have values in
  their units, and a header is a sequence of names.
- `DataAssumption` (Service): a train has a sequence of trips, and at least one: `TrainDistributed` refuses
  none (coordinator.go:40), which is a train that fails before it takes a version, like any other.
- The sizes of Service and Stats, and that NaN, an unreadable field and an undefined cell are not integers.

### The arguments

Few of the safety properties are inductive as they stand. In each module that has steps `IInv` is a conjunction of named parts, with one lemma per action; TLC checked each `IInv` on the run's
instance, or a smaller one, before it was proved.

**Local trainer.** `CoordInv`: the aggregator is in the coordinator's epoch, or one ahead with the result in
the channel. `WorkerInv`: a worker has been given theta exactly when it has it in its channel, computes with
it, or has finished, and that theta is the one to be updated. `RowInv`: a row is still left, or its term is
queued or summed, and after the worker's `kindDone` it is queued or summed. `ChannelInv`: messages are about
rows of their sender, no row is in two, `kindDone` is the last. `SumInv`: a summed row has one term, at the
theta to be updated, and `totalN` and `doneCount` count the summed rows and the workers done. `LossInv`:
theta is the last recorded one, or one step ahead of it until the coordinator receives it.
The barrier follows when `doneCount = W`: by cardinality `doneBy` is all workers, so no message is left, so
by `RowInv` and the covering of the partitions every row is summed. Then the update is `Descend` of the
abstract specification; `AwaitResult` maps to its `Epoch`, the last `CloseParam` to its `Return`, and every
other step to a stutter. Empty, even and uneven partitions, fewer rows than workers and no rows at all are
covered by the proofs and need no run of their own.

**Loader.** `LinesConserved` counts the places of a line, so each move of a line (send, receive, parse,
collect) is two counts that change by one; `SeqFacts` says how a count over a queue changes at its ends. It
needs `BoundsInv` (what is in a queue was sent, and is there for its rule), `ReaderInv` (where the reader is
against `totalRead`, `sent` and the close of `batchCh`) and `WorkerInv` (`running` counts the workers that
have not ended; one that has ended has seen `batchCh` closed and empty; `outCh` is closed at 0). With `CountersInv`
a result is complete: at the return all queues are empty and no worker has a line, so each line sent
is in the trips or dropped, and all lines read were sent. `LoadReports` maps the collector's receive and a
worker's discard to the accounting of one line, and the return to the return.

**Distributed trainer.** Nothing in the protocol relates an answer to its question, so the invariant must
say why none is stale: while a goroutine of an epoch is in `Recv`, its connection holds the question or the
answer of this epoch, or nothing (`QueueInv`); otherwise it is empty, but for a `Stop` at the end. A job that has failed leaves
messages behind, all of the epoch at which it failed, and it makes no other (`LateInv`). `ServedInv`: a node whose
connection is open and that has answered the `DataInit` serves that job with that job's rows, whoever else
is in its backlog; this is what a crash, a restart and a connection that breaks must not disturb. `SumInv`
is that of the local trainer, except that a row may also be missing if an error is already queued or noted
(`Failing`): the reason why an epoch that ends without an error has every row. `HistoryInv` ties the theta to the
losses recorded. `JobsDescend` then maps the end of an epoch to `Epoch`, and the last `Stop` to `Return`.

**Statistics.** `AggregatesAgree` is about sums over a histogram, which the community modules define by
recursion, and the induction theorems cannot be used (below). The facts needed (a sum exists, does not
depend on the order, and grows by one with one bin) are proved from the least number at which they would
fail. `TripsInv` says which trips pass the rules: the bounds of R4, R6 and R9 put each in a bin, those of R5 make
the latitudes positive, on which `CentresCorrect` rests, and NaN is a case of its own. `ExportInv` is that the files written are
a prefix; `SeedInv` that no more datasets are missing than upserts have failed. `RuleCorrect` has a small
invariant of its own: `rule` is what `ParseLine` gives for the fields read last.

**Numbers of a model.** `CleanIsPublishable` goes by `RawFeatures` (a feature is NaN exactly if its field
is), `CleanScaler` and `CleanRows` (a scaler fitted to clean trips, even to none, makes finite rows of clean
trips only), and the arithmetic of the 80% split, which leaves the training set empty for one trip only and
the test set never.

**Service.** `VersionInv`: the versions of trains are different, and are there from `NextVersion` on.
`BeforeInv`: a train has a higher version than those that answered before it began. `StoresInv` and
`AnswersInv`: what the stores, the last snapshot of Redis and the requests under way hold names a train and its
version, which no later step changes. `PutInv` and `FaultlessInv`: a train writes to Redis once, after it has
its version, and without faults the write is made, not late, if the model can be marshalled; with
`CleanIsPublishable` that gives `LastTrainActive`: once a train on clean data has answered, the active model
is not that of a train that had answered before it began. `SeqInv` bounds the counter by the trains that have
passed it, and `LatencyInv` the list by the trims that are due, which is `LatenciesCapped`.

### Only model-checked

Liveness: `EveryGoroutineExits`, `LoadEnds`, `EveryJobEnds` and `NodesAreFreed`, and the
liveness part of `ImplementsGradientDescent`. They need ENABLED and fairness, which the prover does not
handle. It does not instantiate the library's induction theorems either, which take an operator as parameter;
where that was needed a least counterexample took its place.

## 5. Not modelled

The values of floating-point arithmetic (only whether a number is finite is kept), the files, baselines and
printed tables of a model (`model.go`), flag parsing and the subcommands that only call one part after the
other, HTTP parsing and formatting. `/model`, `/metrics` and `/insights` change no state. `/metrics` is to
serve the metrics of the cluster (README.md:169), but `SetClusterMetrics`, which would write them, has no
caller, so there is nothing to model. In Cluster a write to a socket never blocks, the addresses of the
nodes are different, and all jobs have the same number of rows and epochs. Nothing states how old a kept
prediction may be, or that two inputs that round to the same cache key may share one, so no property does.
The entries of the program's log are not modelled. In Service, MongoDB keeps what it has acknowledged: its
crashes, and writes that its client or that of Redis sends twice, are left out, so `VersionNamesOneModel`
holds whatever calls fail, but not whatever MongoDB loses. In Stats, what the operating system has accepted
of a file is written: the deferred `Close` (stats.go:145), whose error is ignored, does not fail. In Loader a
batch is its first and last line, so that the reader starts a new slice for each batch (loader.go:175), and
does not write to the one it sent, is taken from the code and not checked.

## 6. Plan

Done: Partitions, GradientDescent, ParallelSGD; LoadReport, Loader; Parser, Stats; Cluster with crashes and
hangs; Fit; Service; and the proofs of the safety properties of each. Next:

1. Lemmas that bound what the violations cost: after `service_order` the active model is one whose train
   overlapped the newest (a consequence of `NoOlderModel`), and without failed jobs no connection is left.
2. An abstract specification of the registry of models (a version counter and one active model), which
   Service would implement up to the reordering that `service_order` shows.
3. More of what Stats keeps of each trip: that the mean speed of an hour lies between its least and its
   greatest, which needs a model of the accumulated floats.
