-------------------------------- MODULE Loader ---------------------------------
(***************************************************************************)
(* The concurrent loading of the CSV file (internal/loader/loader.go,      *)
(* Load): one reader, W workers, a goroutine that closes outCh, and the    *)
(* caller, which collects the trips.                                       *)
(*                                                                         *)
(*   reader --batchCh--> worker w --outCh--> collector                     *)
(*                          '--> discard counters                          *)
(*                                                                         *)
(* A data line of the file is what parseLine (module Parser) makes of it:  *)
(* the rule it breaks, 0 for none, or Panic.  Lines are numbered from 1; a *)
(* batch holds consecutive lines, and is represented by the first and the  *)
(* last.                                                                   *)
(***************************************************************************)
EXTENDS Integers, Sequences, FiniteSets

CONSTANTS
  Files,         \* the files that may be loaded
  W,             \* opts.Workers
  BatchSize,     \* opts.BatchSize
  Limit,         \* opts.Limit; no limit unless positive
  OutPerWorker   \* capacity of outCh per worker (1024 in the code)

Workers == 1 .. W
Rules   == 1 .. 9
Panic   == -1

ASSUME SizesAssumption ==
  /\ W \in Nat \ {0}
  /\ BatchSize \in Nat \ {0}
  /\ Limit \in Int
  /\ OutPerWorker \in Nat \ {0}

ASSUME FilesAssumption == Files \subseteq Seq(Panic .. 9)

VARIABLES
  file,
  pc,         \* the caller: "start", "collect", "returned", "failed"; or
              \* "panicked", when a worker has taken the process down
  rpc,        \* reader: "idle", "scan", "send", "flush", "close", "exit"
  totalRead,  \* lines read and counted
  truncated,  \* the scanner has failed before the end of the file
  sent,       \* lines sent in batches; its batch has sent+1 .. totalRead
  batchCh,    \* channel of capacity 2 * W
  batchClosed,
  wpc,        \* worker: "idle", "recv", "parse", "exit"
  cur,        \* worker: the line it parses next
  last,       \* worker: the last line of its batch
  counters,   \* lines discarded per rule
  dropped,    \* auxiliary: the lines discarded
  running,    \* the count of the WaitGroup
  outCh,      \* channel of capacity W * OutPerWorker
  outClosed,
  trips       \* what the caller has collected

readerVars == <<rpc, totalRead, truncated, sent>>
workerVars == <<wpc, cur, last, counters, dropped, running>>
vars == <<file, pc, readerVars, batchCh, batchClosed, workerVars, outCh, outClosed, trips>>

NumLines  == Len(file)
RuleOf(i) == file[i]

Init ==
  /\ file \in Files
  /\ pc = "start"
  /\ rpc = "idle" /\ totalRead = 0 /\ truncated = FALSE /\ sent = 0
  /\ batchCh = <<>> /\ batchClosed = FALSE
  /\ wpc = [w \in Workers |-> "idle"]
  /\ cur = [w \in Workers |-> 0]
  /\ last = [w \in Workers |-> 0]
  /\ counters = [r \in Rules |-> 0] /\ dropped = {}
  /\ running = 0
  /\ outCh = <<>> /\ outClosed = FALSE
  /\ trips = <<>>

--------------------------------------------------------------------------------
(***************************************************************************)
(* The caller.                                                             *)
(***************************************************************************)

(***************************************************************************)
(* No file, no header, or a column missing from it: an error, and no       *)
(* goroutine started.                                                      *)
(***************************************************************************)
Fail ==
  /\ pc = "start"
  /\ pc' = "failed"
  /\ UNCHANGED <<file, readerVars, batchCh, batchClosed, workerVars, outCh, outClosed, trips>>

Start ==
  /\ pc = "start"
  /\ pc' = "collect"
  /\ rpc' = "scan"
  /\ wpc' = [w \in Workers |-> "recv"]
  /\ running' = W
  /\ UNCHANGED <<file, totalRead, truncated, sent, batchCh, batchClosed, cur, last, counters,
                 dropped, outCh, outClosed, trips>>

Collect ==
  /\ pc = "collect"
  /\ outCh # <<>>
  /\ trips' = Append(trips, Head(outCh))
  /\ outCh' = Tail(outCh)
  /\ UNCHANGED <<file, pc, readerVars, batchCh, batchClosed, workerVars, outClosed>>

(***************************************************************************)
(* The range over outCh ends when it is closed and drained; the result has *)
(* trips, totalRead and a snapshot of the counters.                        *)
(***************************************************************************)
Return ==
  /\ pc = "collect"
  /\ outCh = <<>>
  /\ outClosed
  /\ pc' = "returned"
  /\ UNCHANGED <<file, readerVars, batchCh, batchClosed, workerVars, outCh, outClosed, trips>>

CallerNext == Fail \/ Start \/ Collect \/ Return

--------------------------------------------------------------------------------
(***************************************************************************)
(* The reader.                                                             *)
(***************************************************************************)

(***************************************************************************)
(* Fault: the limit is tested after the line is counted.                   *)
(***************************************************************************)
LimitReached_OneMore == Limit > 0 /\ totalRead > Limit
LimitReached == Limit > 0 /\ totalRead >= Limit

ScanLine ==
  /\ rpc = "scan"
  /\ totalRead < NumLines
  /\ ~LimitReached
  /\ totalRead' = totalRead + 1
  /\ rpc' = IF totalRead' - sent = BatchSize THEN "send" ELSE "scan"
  /\ UNCHANGED <<file, pc, truncated, sent, batchCh, batchClosed, workerVars, outCh, outClosed, trips>>

StopScan ==
  /\ rpc = "scan"
  /\ totalRead = NumLines \/ LimitReached
  /\ rpc' = "flush"
  /\ UNCHANGED <<file, pc, totalRead, truncated, sent, batchCh, batchClosed, workerVars, outCh, outClosed,
                 trips>>

(***************************************************************************)
(* A line longer than the buffer of 1 MB, or a read error: the rest of the *)
(* file is lost, and the error only logged.                                *)
(***************************************************************************)
ScanFails ==
  /\ rpc = "scan"
  /\ totalRead < NumLines
  /\ truncated' = TRUE
  /\ rpc' = "flush"
  /\ UNCHANGED <<file, pc, totalRead, sent, batchCh, batchClosed, workerVars, outCh,
                 outClosed, trips>>

(***************************************************************************)
(* Fault: the channel holds a batch more than 2 * W.                       *)
(***************************************************************************)
BatchChHasRoom_PlusOne == Len(batchCh) <= 2 * W
BatchChHasRoom == Len(batchCh) < 2 * W

(***************************************************************************)
(* A full batch, and the rest of the lines when the scan has ended.        *)
(* Faults: the last line of the batch is left out; the batch starts with   *)
(* the last line of the one before.                                        *)
(***************************************************************************)
PutBatch_OffByOne ==
  /\ BatchChHasRoom
  /\ batchCh' = Append(batchCh, [lo |-> sent + 1,
                                 hi |-> IF totalRead > sent + 1 THEN totalRead - 1 ELSE totalRead])
  /\ sent' = totalRead
PutBatch_RepeatLast ==
  /\ BatchChHasRoom
  /\ batchCh' = Append(batchCh, [lo |-> IF sent = 0 THEN 1 ELSE sent, hi |-> totalRead])
  /\ sent' = totalRead
PutBatch ==
  /\ BatchChHasRoom
  /\ batchCh' = Append(batchCh, [lo |-> sent + 1, hi |-> totalRead])
  /\ sent' = totalRead

SendBatch ==
  /\ rpc = "send"
  /\ PutBatch
  /\ rpc' = "scan"
  /\ UNCHANGED <<file, pc, totalRead, truncated, batchClosed, workerVars, outCh, outClosed, trips>>

Flush ==
  /\ rpc = "flush"
  /\ IF sent < totalRead THEN PutBatch ELSE UNCHANGED <<batchCh, sent>>
  /\ rpc' = "close"
  /\ UNCHANGED <<file, pc, totalRead, truncated, batchClosed, workerVars, outCh, outClosed, trips>>

(***************************************************************************)
(* Fault: batchCh is left open.                                            *)
(***************************************************************************)
CloseBatchCh_Forgotten ==
  /\ rpc = "close"
  /\ rpc' = "exit"
  /\ UNCHANGED <<file, pc, totalRead, truncated, sent, batchCh, batchClosed, workerVars, outCh, outClosed,
                 trips>>
CloseBatchCh ==
  /\ rpc = "close"
  /\ rpc' = "exit"
  /\ batchClosed' = TRUE
  /\ UNCHANGED <<file, pc, totalRead, truncated, sent, batchCh, workerVars, outCh, outClosed, trips>>

ReaderNext == ScanLine \/ StopScan \/ ScanFails \/ SendBatch \/ Flush \/ CloseBatchCh

--------------------------------------------------------------------------------
(***************************************************************************)
(* Worker w.                                                               *)
(***************************************************************************)

TakeBatch(w) ==
  /\ wpc[w] = "recv"
  /\ batchCh # <<>>
  /\ cur' = [cur EXCEPT ![w] = Head(batchCh).lo]
  /\ last' = [last EXCEPT ![w] = Head(batchCh).hi]
  /\ batchCh' = Tail(batchCh)
  /\ wpc' = [wpc EXCEPT ![w] = "parse"]
  /\ UNCHANGED <<file, pc, readerVars, batchClosed, counters, dropped, running, outCh, outClosed,
                 trips>>

(***************************************************************************)
(* The end of the loop over the lines of a batch.                          *)
(***************************************************************************)
NextLine(w) ==
  /\ cur' = [cur EXCEPT ![w] = @ + 1]
  /\ wpc' = [wpc EXCEPT ![w] = IF cur[w] = last[w] THEN "recv" ELSE "parse"]
  /\ UNCHANGED last

EmitTrip(w) ==
  /\ wpc[w] = "parse"
  /\ RuleOf(cur[w]) = 0
  /\ Len(outCh) < W * OutPerWorker
  /\ outCh' = Append(outCh, cur[w])
  /\ NextLine(w)
  /\ UNCHANGED <<file, pc, readerVars, batchCh, batchClosed, counters, dropped, running, outClosed,
                 trips>>

(***************************************************************************)
(* Fault: the counter array has no room for the last rule.                 *)
(***************************************************************************)
Count_EightRules(rule) ==
  counters' = IF rule \in 1 .. 8 THEN [counters EXCEPT ![rule] = @ + 1] ELSE counters
Count(rule) ==
  counters' = IF rule \in Rules THEN [counters EXCEPT ![rule] = @ + 1] ELSE counters

Discard(w) ==
  /\ wpc[w] = "parse"
  /\ RuleOf(cur[w]) \in Rules
  /\ Count(RuleOf(cur[w]))
  /\ dropped' = dropped \union {cur[w]}
  /\ NextLine(w)
  /\ UNCHANGED <<file, pc, readerVars, batchCh, batchClosed, running, outCh, outClosed, trips>>

(***************************************************************************)
(* parseLine panics in a goroutine that does not recover.                  *)
(***************************************************************************)
CrashOnLine(w) ==
  /\ wpc[w] = "parse"
  /\ RuleOf(cur[w]) = Panic
  /\ pc' = "panicked"
  /\ UNCHANGED <<file, readerVars, batchCh, batchClosed, workerVars, outCh, outClosed, trips>>

NoMoreBatches == batchCh = <<>> /\ batchClosed

ExitWorker(w) ==
  /\ wpc[w] = "recv"
  /\ NoMoreBatches
  /\ wpc' = [wpc EXCEPT ![w] = "exit"]
  /\ running' = running - 1
  /\ UNCHANGED <<file, pc, readerVars, batchCh, batchClosed, cur, last, counters, dropped, outCh,
                 outClosed, trips>>

WorkerNext(w) == \/ TakeBatch(w) \/ EmitTrip(w) \/ Discard(w) \/ CrashOnLine(w)
                 \/ ExitWorker(w)

--------------------------------------------------------------------------------
(***************************************************************************)
(* The goroutine that closes outCh.  Fault: it does not wait for the last  *)
(* worker.                                                                 *)
(***************************************************************************)
WorkersDone_OneShort == running <= 1
WorkersDone == running = 0

CloseOutCh ==
  /\ pc # "start" /\ pc # "failed"
  /\ WorkersDone
  /\ ~outClosed
  /\ outClosed' = TRUE
  /\ UNCHANGED <<file, pc, readerVars, batchCh, batchClosed, workerVars, outCh, trips>>

--------------------------------------------------------------------------------

AllExited == /\ pc = "returned"
             /\ rpc = "exit"
             /\ \A w \in Workers : wpc[w] = "exit"

Ended == pc \in {"failed", "panicked"} \/ AllExited

Terminated == Ended /\ UNCHANGED vars

(***************************************************************************)
(* Every goroutine dies with the process.                                  *)
(***************************************************************************)
Alive == pc # "panicked"

Next == \/ Alive /\ CallerNext
        \/ Alive /\ ReaderNext
        \/ Alive /\ \E w \in Workers : WorkerNext(w)
        \/ Alive /\ CloseOutCh
        \/ Terminated

Spec == Init /\ [][Next]_vars

(***************************************************************************)
(* The Go scheduler runs every goroutine that can go on.                   *)
(***************************************************************************)
Fairness == /\ WF_vars(Alive /\ CallerNext)
            /\ WF_vars(Alive /\ ReaderNext)
            /\ \A w \in Workers : WF_vars(Alive /\ WorkerNext(w))
            /\ WF_vars(Alive /\ CloseOutCh)

FairSpec == Spec /\ Fairness

--------------------------------------------------------------------------------
(***************************************************************************)
(* Properties.                                                             *)
(***************************************************************************)

(***************************************************************************)
(* Types of the variables, with the capacities of the channels.            *)
(***************************************************************************)
TypeOK ==
  /\ file \in Files
  /\ pc \in {"start", "collect", "returned", "failed", "panicked"}
  /\ rpc \in {"idle", "scan", "send", "flush", "close", "exit"}
  /\ totalRead \in 0 .. NumLines
  /\ truncated \in BOOLEAN
  /\ sent \in 0 .. totalRead
  /\ batchCh \in Seq([lo : 1 .. NumLines, hi : 1 .. NumLines])
  /\ Len(batchCh) <= 2 * W
  /\ batchClosed \in BOOLEAN
  /\ wpc \in [Workers -> {"idle", "recv", "parse", "exit"}]
  /\ cur \in [Workers -> 0 .. NumLines+1]
  /\ last \in [Workers -> 0 .. NumLines]
  /\ counters \in [Rules -> Nat]
  /\ dropped \subseteq 1 .. NumLines
  /\ running \in 0 .. W
  /\ outCh \in Seq(1 .. NumLines)
  /\ Len(outCh) <= W * OutPerWorker
  /\ outClosed \in BOOLEAN
  /\ trips \in Seq(1 .. NumLines)

(***************************************************************************)
(* outCh is closed only when no worker is left that could send to it,      *)
(* which would panic, and when no batch is left (loader.go:151-153).       *)
(***************************************************************************)
NoSendAfterClose ==
  outClosed => /\ \A w \in Workers : wpc[w] = "exit"
               /\ batchCh = <<>>
               /\ rpc = "exit"

(***************************************************************************)
(* Whatever the interleaving, Load does what LoadReport says: the trips    *)
(* and the counters only ever grow by lines not accounted for before, and  *)
(* the result is that of a prefix of the file (loader.go:189-201).         *)
(***************************************************************************)
Report == INSTANCE LoadReport WITH
  status <- IF pc \in {"start", "collect"} THEN "loading" ELSE pc,
  total  <- IF pc = "returned" THEN totalRead ELSE 0

ImplementsLoadReport == Report!Spec

(***************************************************************************)
(* The report adds up: the result has every line read exactly once, in     *)
(* Trips if it is valid and in the counter of the rule it breaks if not;   *)
(* TotalRead is the limit or the number of lines, or less if the scanner   *)
(* has failed, which the result does not tell.                             *)
(***************************************************************************)
EveryLineAccounted ==
  pc = "returned" =>
    /\ totalRead = Report!Wanted \/ (truncated /\ totalRead < Report!Wanted)
    /\ \A i \in 1 .. totalRead :
         Cardinality({k \in 1 .. Len(trips) : trips[k] = i}) = IF RuleOf(i) = 0 THEN 1 ELSE 0
    /\ Len(trips) = Cardinality({i \in 1 .. totalRead : RuleOf(i) = 0})
    /\ \A r \in Rules : counters[r] = Cardinality({i \in 1 .. totalRead : RuleOf(i) = r})

(***************************************************************************)
(* No line sent by the reader is lost or in two places: a batch on the     *)
(* way, the rest of a worker's batch, outCh, the trips, the discarded.     *)
(***************************************************************************)
AtWorker(w) == IF wpc[w] = "parse" THEN cur[w] .. last[w] ELSE {}

Places(i) ==
  Cardinality({k \in 1 .. Len(batchCh) : i \in batchCh[k].lo .. batchCh[k].hi})
  + Cardinality({w \in Workers : i \in AtWorker(w)})
  + Cardinality({k \in 1 .. Len(outCh) : outCh[k] = i})
  + Cardinality({k \in 1 .. Len(trips) : trips[k] = i})
  + (IF i \in dropped THEN 1 ELSE 0)

LinesConserved == \A i \in 1 .. totalRead : Places(i) = IF i <= sent THEN 1 ELSE 0

(***************************************************************************)
(* The order of the trips is that of the file.  Both trainers split the    *)
(* trips by position, the local one after a shuffle that the seed fixes    *)
(* (sgd.go:84), the distributed one as they come (coordinator.go:53): the  *)
(* same file and seed give the same training rows only if this holds.      *)
(***************************************************************************)
TripsInFileOrder ==
  \A j, k \in 1 .. Len(trips) : j < k => trips[j] < trips[k]

(***************************************************************************)
(* Load ends, with every goroutine it started.                             *)
(***************************************************************************)
LoadEnds == <>[]Ended

================================================================================
