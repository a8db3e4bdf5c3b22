--------------------------------- MODULE Stats ---------------------------------
(***************************************************************************)
(* The exploratory data (internal/stats/stats.go and the subcommands       *)
(* "stats" and "seed-insights" of cmd/taxi/main.go): the lines of the file *)
(* are parsed, the trips counted in histograms and cells, and the result   *)
(* written to six CSV files, or to six documents of MongoDB.  The          *)
(* goroutines of the loading are the subject of Loader.                    *)
(***************************************************************************)
EXTENDS Parser, FiniteSets, Functions

CONSTANTS
  Headers,   \* headers the file may have
  Lines(_),  \* lines it may have under a header
  MaxTrips,  \* bound: trips in a file
  TopN,      \* cells kept (50 in the code)
  NoCell,    \* int(NaN), which Go leaves to the implementation
  MaxFaults  \* bound: failed writes

ASSUME StatsAssumption ==
  /\ MaxTrips \in Nat
  /\ TopN \in Nat \ {0}
  /\ NoCell \notin Int
  /\ MaxFaults \in Nat

ASSUME HeadersAssumption == \A h \in Headers : h \in Seq(STRING)

ASSUME LinesAssumption ==
  \A h \in Headers : \A line \in Lines(h) :
    LET idx == BuildIndex(h)
    IN  /\ line \in Seq(Int \union {NaN, Bad})
        /\ HasColumns(h) /\ Len(line) = NumFields /\ (\A c \in Columns : InFields(line, idx, c))
             => Values(line, idx) \in FieldValues

(***************************************************************************)
(* The six datasets, in the order in which ExportCSVs writes them.         *)
(***************************************************************************)
Datasets == << "trips_por_hora", "trips_por_dia_semana", "histograma_duracion",
               "histograma_distancia", "velocidad_media_por_hora", "top_celdas_pickup" >>
Names == Range(Datasets)

VARIABLES
  cmd,       \* "stats" or "seed"
  header,
  pc,        \* "load", "compute", "write", "ok", "error" or "panic"
  fields,    \* the line read last
  rule,      \* what parseLine returned for it
  trips,     \* the trips loaded
  counted,   \* how many of them Compute has counted
  byHour, byWeekday, durationHist, distanceHist,
  speedCount, \* trips in the mean speed of each hour
  cellMap,   \* the cells of the pickups, with their counts
  topCells,  \* the cells kept, with their counts, in the order of the file
  stored,    \* dataset: "old", "partial" (a file cut short) or "new"
  tried,     \* datasets written or tried
  faults

fileVars  == <<cmd, header>>
lineVars  == <<fields, rule>>
countVars == <<counted, byHour, byWeekday, durationHist, distanceHist, speedCount, cellMap>>
outVars   == <<stored, tried, faults>>
vars == <<fileVars, pc, lineVars, trips, countVars, topCells, outVars>>

(***************************************************************************)
(* Fault: there is no bin for trips of exactly 180 minutes.                *)
(***************************************************************************)
NDurBins_NoLast == 180 \div 2
NDurBins  == 180 \div 2 + 1
NDistBins == 100 \div 1 + 1

Zeros(S) == [i \in S |-> 0]

Init ==
  /\ cmd \in {"stats", "seed"}
  /\ header \in Headers
  /\ pc = "load" /\ fields = <<>> /\ rule = 0 /\ trips = <<>>
  /\ counted = 0
  /\ byHour = Zeros(0 .. 23) /\ byWeekday = Zeros(0 .. 6)
  /\ durationHist = Zeros(0 .. NDurBins-1) /\ distanceHist = Zeros(0 .. NDistBins-1)
  /\ speedCount = Zeros(0 .. 23) /\ cellMap = <<>>
  /\ topCells = <<>>
  /\ stored = [d \in Names |-> "old"] /\ tried = {} /\ faults = 0

--------------------------------------------------------------------------------
(***************************************************************************)
(* Loading.                                                                *)
(***************************************************************************)

BadHeader ==
  /\ pc = "load"
  /\ ~HasColumns(header)
  /\ pc' = "error"
  /\ UNCHANGED <<fileVars, lineVars, trips, countVars, topCells, outVars>>

(***************************************************************************)
(* Bound: a discarded line, which leaves nothing behind, is the last.      *)
(***************************************************************************)
ReadLine ==
  /\ pc = "load"
  /\ HasColumns(header)
  /\ rule = 0
  /\ Len(trips) < MaxTrips
  /\ fields' \in Lines(header)
  /\ LET idx == BuildIndex(header)
     IN  /\ rule' = ParseLine(fields', idx)
         /\ trips' = IF rule' = 0 THEN Append(trips, Trip(Values(fields', idx))) ELSE trips
  /\ pc' = IF rule' = Panic THEN "panic" ELSE "load"
  /\ UNCHANGED <<fileVars, countVars, topCells, outVars>>

Loaded ==
  /\ pc = "load"
  /\ HasColumns(header)
  /\ fields' = <<>> /\ rule' = 0
  /\ pc' = "compute"
  /\ UNCHANGED <<fileVars, trips, countVars, topCells, outVars>>

--------------------------------------------------------------------------------
(***************************************************************************)
(* Compute.                                                                *)
(***************************************************************************)

Inc(f, i) == [f EXCEPT ![i] = @ + 1]

(***************************************************************************)
(* A bin that is out of range is ignored.                                  *)
(***************************************************************************)
IncBin(hist, bin) == IF bin \in DOMAIN hist THEN Inc(hist, bin) ELSE hist

(***************************************************************************)
(* int(100 * coordinate), truncated toward zero; the product of an exact   *)
(* multiple of 0.01 may fall on either side of the integer.                *)
(***************************************************************************)
Truncate(a) == IF a >= 0 THEN a \div 10 ELSE -((-a) \div 10)
CellsOf(a) ==
  IF a = NaN THEN {NoCell}
  ELSE {Truncate(a)} \union
       (IF a % 10 = 0 THEN {Truncate(IF a > 0 THEN a - 1 ELSE a + 1)} ELSE {})

AddCell(map, cell) ==
  IF cell \in DOMAIN map THEN Inc(map, cell)
  ELSE [c \in DOMAIN map \union {cell} |-> IF c = cell THEN 1 ELSE map[c]]

CountTrip ==
  /\ pc = "compute"
  /\ counted < Len(trips)
  /\ counted' = counted + 1
  /\ LET t == trips[counted']
     IN  /\ byHour' = Inc(byHour, t.hour)
         /\ byWeekday' = Inc(byWeekday, t.day)
         /\ durationHist' = IncBin(durationHist, t.duration \div 120)
         /\ distanceHist' = IncBin(distanceHist, t.distance \div 100)
         /\ speedCount' = IF t.duration > 0 THEN Inc(speedCount, t.hour) ELSE speedCount
         /\ \E lat \in CellsOf(t.lat), lon \in CellsOf(t.lon) :
              cellMap' = AddCell(cellMap, <<lat, lon>>)
  /\ UNCHANGED <<fileVars, pc, lineVars, trips, topCells, outVars>>

(***************************************************************************)
(* The cells in the order of their counts; those with the same count come  *)
(* in any order, since a map is ranged over and the sort is not stable.    *)
(* Fault: in ascending order.                                              *)
(***************************************************************************)
Sorted_Ascending(map) ==
  LET n == Cardinality(DOMAIN map)
  IN  {s \in Bijection(1 .. n, DOMAIN map) :
         \A i, j \in 1 .. n : i < j => map[s[i]] <= map[s[j]]}
Sorted(map) ==
  LET n == Cardinality(DOMAIN map)
  IN  {s \in Bijection(1 .. n, DOMAIN map) :
         \A i, j \in 1 .. n : i < j => map[s[i]] >= map[s[j]]}

(***************************************************************************)
(* How many of n cells are kept.  Fault: one too many.                     *)
(***************************************************************************)
Kept_OneMore(n) == Min({TopN + 1, n})
Kept(n) == Min({TopN, n})

SortCells ==
  /\ pc = "compute"
  /\ counted = Len(trips)
  /\ \E s \in Sorted(cellMap) :
       topCells' = [i \in 1 .. Kept(Cardinality(DOMAIN s)) |->
                      [cell |-> s[i], count |-> cellMap[s[i]]]]
  /\ pc' = "write"
  /\ UNCHANGED <<fileVars, lineVars, trips, countVars, outVars>>

--------------------------------------------------------------------------------
(***************************************************************************)
(* Writing the datasets.                                                   *)
(***************************************************************************)

Fault == faults < MaxFaults /\ faults' = faults + 1

(***************************************************************************)
(* writeCSV: the file is created, emptied if there was one, and filled     *)
(* when the buffer is flushed; the errors of the writes before show there. *)
(* What the operating system has accepted is written: that the deferred    *)
(* Close may still fail, and its error is ignored, is left out.            *)
(***************************************************************************)
WriteCSV(d) ==
  \/ stored' = [stored EXCEPT ![d] = "new"] /\ UNCHANGED faults
  \/ stored' = [stored EXCEPT ![d] = "partial"] /\ Fault
  \/ UNCHANGED stored /\ Fault

(***************************************************************************)
(* ExportCSVs ends at the first error, and so does the program.  Fault:    *)
(* errors are only logged.                                                 *)
(***************************************************************************)
AfterWrite_Logged == IF Cardinality(tried') = 6 THEN "ok" ELSE "write"
AfterWrite == IF faults' # faults THEN "error"
              ELSE IF Cardinality(tried') = 6 THEN "ok" ELSE "write"

ExportCSV ==
  /\ pc = "write" /\ cmd = "stats"
  /\ LET d == Datasets[Cardinality(tried) + 1]
     IN  tried' = tried \union {d} /\ WriteCSV(d)
  /\ pc' = AfterWrite
  /\ UNCHANGED <<fileVars, lineVars, trips, countVars, topCells>>

(***************************************************************************)
(* The connection to MongoDB comes after Compute, and is not tried again.  *)
(***************************************************************************)
ConnectFails ==
  /\ pc = "write" /\ cmd = "seed" /\ tried = {}
  /\ Fault
  /\ pc' = "error"
  /\ UNCHANGED <<fileVars, lineVars, trips, countVars, topCells, stored, tried>>

(***************************************************************************)
(* UpsertInsight replaces a whole document, or fails, perhaps after it     *)
(* has; the error is logged and the next dataset tried, in the random      *)
(* order of a map.  Fault: the others are left out.                        *)
(***************************************************************************)
AfterUpsert_Break == IF faults' # faults \/ tried' = Names THEN "ok" ELSE "write"
AfterUpsert == IF tried' = Names THEN "ok" ELSE "write"

UpsertInsight ==
  /\ pc = "write" /\ cmd = "seed"
  /\ \E d \in Names \ tried :
       /\ tried' = tried \union {d}
       /\ \/ stored' = [stored EXCEPT ![d] = "new"] /\ UNCHANGED faults
          \/ stored' \in {stored, [stored EXCEPT ![d] = "new"]} /\ Fault
  /\ pc' = AfterUpsert
  /\ UNCHANGED <<fileVars, lineVars, trips, countVars, topCells>>

--------------------------------------------------------------------------------

(***************************************************************************)
(* The program has ended.                                                  *)
(***************************************************************************)
Ended == pc \in {"ok", "error", "panic"} /\ UNCHANGED vars

Next == \/ BadHeader \/ ReadLine \/ Loaded
        \/ CountTrip \/ SortCells
        \/ ExportCSV \/ ConnectFails \/ UpsertInsight
        \/ Ended

Spec == Init /\ [][Next]_vars

--------------------------------------------------------------------------------
(***************************************************************************)
(* Properties.                                                             *)
(***************************************************************************)

(***************************************************************************)
(* Types of the variables.                                                 *)
(***************************************************************************)
TypeOK ==
  /\ cmd \in {"stats", "seed"}
  /\ header \in Headers
  /\ pc \in {"load", "compute", "write", "ok", "error", "panic"}
  /\ fields \in Lines(header) \union {<<>>}
  /\ rule \in Panic .. 9
  /\ Len(trips) <= MaxTrips
  /\ counted \in 0 .. Len(trips)
  /\ byHour \in [0 .. 23 -> Nat] /\ byWeekday \in [0 .. 6 -> Nat]
  /\ durationHist \in [0 .. NDurBins-1 -> Nat] /\ distanceHist \in [0 .. NDistBins-1 -> Nat]
  /\ speedCount \in [0 .. 23 -> Nat]
  /\ \A c \in DOMAIN cellMap : cellMap[c] \in 1 .. counted
  /\ topCells \in Seq([cell : DOMAIN cellMap, count : Nat])
  /\ Len(topCells) <= TopN
  /\ stored \in [Names -> {"old", "partial", "new"}]
  /\ tried \subseteq Names
  /\ faults \in 0 .. MaxFaults

(***************************************************************************)
(* A line is discarded under the first rule it breaks, and a line that     *)
(* breaks one is a trip only if the rule is R5 or R7 and the value is NaN: *)
(* a distance that is NaN gets past R6 but not past R9.                    *)
(***************************************************************************)
RuleIsFirstBroken ==
  Len(fields) = NumFields /\ rule # Panic =>
    IsFirstBroken(Values(fields, BuildIndex(header)), rule)

(***************************************************************************)
(* Only a header wider than the lines makes parseLine index a field that   *)
(* is not there, which takes the process down.                             *)
(***************************************************************************)
NarrowHeaderNeverPanics == Len(header) <= NumFields => pc # "panic"

(***************************************************************************)
(* The aggregates are about the same trips: the bounds of the parser keep  *)
(* every trip within the bins, the last of which hold exactly 180 minutes  *)
(* and 100 miles, so the tests of Compute never leave one out.             *)
(***************************************************************************)
Total(f) == SumFunctionOnSet(f, {i \in DOMAIN f : f[i] # 0})

AggregatesAgree ==
  \A f \in {byHour, byWeekday, durationHist, distanceHist, speedCount, cellMap} :
    Total(f) = counted

(***************************************************************************)
(* No cell left out has more pickups than one that is kept, and the counts *)
(* shown are those of Compute, however ties are broken.                    *)
(***************************************************************************)
TopCellsAreLargest ==
  pc \in {"write", "ok", "error"} /\ HasColumns(header) =>
    LET kept == {topCells[i].cell : i \in 1 .. Len(topCells)}
    IN  /\ Cardinality(kept) = Len(topCells)
        /\ kept = DOMAIN cellMap \/ Len(topCells) = TopN
        /\ \A i \in 1 .. Len(topCells) : topCells[i].count = cellMap[topCells[i].cell]
        /\ \A c \in DOMAIN cellMap \ kept, k \in kept : cellMap[c] <= cellMap[k]

(***************************************************************************)
(* The centre that writeCellsCSV prints for cell c.  Fault: the corner.    *)
(***************************************************************************)
Centre_Corner(c) == 10 * c
Centre(c) == 10 * c + 5

IsNearCentre(a) == a # NaN => \A c \in CellsOf(a) : Within(Centre(c) - a, -5, 5)

(***************************************************************************)
(* A pickup is no further than half a cell from the lat_centro printed for *)
(* its cell (stats.go:96, 201): latitudes are positive, and cut down.      *)
(***************************************************************************)
LatitudesAreNearCentre == \A i \in 1 .. Len(trips) : IsNearCentre(trips[i].lat)

(***************************************************************************)
(* The same of lon_centro (stats.go:96, 202), which the column promises.   *)
(* It is false: a negative longitude is cut upwards, so that its cell is   *)
(* (c-1, c], while the centre printed is that of [c, c+1).                 *)
(***************************************************************************)
LongitudesAreNearCentre == \A i \in 1 .. Len(trips) : IsNearCentre(trips[i].lon)

(***************************************************************************)
(* The subcommand "stats" ends without an error only when all six files    *)
(* are written; after an error the files before the one that failed are    *)
(* new, and those after it are of an earlier run.                          *)
(***************************************************************************)
ExportReported ==
  cmd = "stats" =>
    /\ pc = "ok" => \A d \in Names : stored[d] = "new"
    /\ \A i, j \in 1 .. 6 : i < j /\ stored[Datasets[i]] # "new" => stored[Datasets[j]] = "old"

(***************************************************************************)
(* An upsert that fails costs its own dataset and no other.  The program   *)
(* reports success in any case (main.go:314).                              *)
(***************************************************************************)
InsightsAreIndependent ==
  cmd = "seed" /\ pc = "ok" => Cardinality({d \in Names : stored[d] # "new"}) <= faults

================================================================================
