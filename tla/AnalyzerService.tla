---------------------------- MODULE AnalyzerService ----------------------------
(***************************************************************************)
(* The analyzer (services/analyzer): AnalyzeStream and AnalyzeBatch store  *)
(* their results from detached goroutines, the one behind its answer, the  *)
(* other ahead of it (internal/service/analyzer_service.go), results are   *)
(* written and read by internal/repository/analysis_repository.go, and     *)
(* GetZoneAnalysis shows a cell's latest results again and again.          *)
(*                                                                         *)
(* A result is stamped with the clock when its goroutine runs, so rows may *)
(* enter the table out of the order of their stamps.  The process may stop *)
(* at any moment, and main hands the service a repository without a pool   *)
(* (cmd/main.go:77): a call on that one panics and ends the process.       *)
(***************************************************************************)
EXTENDS Naturals, Sequences, FiniteSets

CONSTANTS
  Readings,   \* requests, each submitted once
  CellOf,     \* the H3 cell of a reading
  DecibelOf,  \* the level of a reading
  Batches,    \* the batches a client may submit: sequences of readings
  Streams,    \* slots for AnalyzeStream calls
  Zones,      \* slots for GetZoneAnalysis calls
  Pools,      \* how main may have built the repository: with a pool or without
  ZoneLimit,  \* how many rows a zone view reads, 100
  MaxTime,    \* bound on the clock
  NoView      \* a zone view has sent nothing yet

Cells == {CellOf[r] : r \in Readings}
Times == 0..MaxTime
Levels == 1..4   \* nature and safe, ..., industrial and critical

ASSUME AnalyzerAssumption ==
  /\ IsFiniteSet(Readings) /\ Readings # {}
  /\ DecibelOf \in [Readings -> Nat]
  /\ Batches \subseteq Seq(Readings)
  /\ \A b \in Batches : \A i, j \in DOMAIN b : b[i] = b[j] => i = j
  /\ Pools \subseteq BOOLEAN
  /\ ZoneLimit \in Nat \ {0} /\ MaxTime \in Nat

VARIABLES
  results,  \* the rows of analysis_results
  now,      \* the clock of the service
  up,       \* the process runs
  pool,     \* its repository has a pool
  stream,   \* stream[s]: the AnalyzeStream call in slot s
  saves,    \* the goroutines that save results
  zone,     \* zone[z]: the GetZoneAnalysis call in slot z
  status,   \* status[r]: what became of reading r (history)
  lost,     \* readings whose save failed or died with the process (history)
  batches   \* the sets of readings that came in as a batch (history)

analyzerVars ==
  <<results, now, up, pool, stream, saves, zone, status, lost, batches>>

Row == [reading : Readings, cell : Cells, level : Levels, at : Times]
View == [at : Times, risk : Levels, category : Levels, count : 1..ZoneLimit]
Idle == [open |-> FALSE, todo |-> <<>>]
Closed == [open |-> FALSE, cell |-> CHOOSE c \in Cells : TRUE, seen |-> NoView]

AnalyzerTypeOK ==
  /\ results \subseteq Row
  /\ now \in Times /\ up \in BOOLEAN /\ pool \in Pools
  /\ stream \in [Streams -> [open : BOOLEAN, todo : {<<>>} \union {<<r>> : r \in Readings}]]
  /\ \A sv \in saves : /\ sv.todo \in Seq(Readings)
                       /\ sv.rows \subseteq Row
                       /\ sv.of \in Streams \union {"batch"}
  /\ zone \in [Zones -> [open : BOOLEAN, cell : Cells, seen : View \union {NoView}]]
  /\ status \in [Readings -> {"new", "received", "answered", "dropped"}]
  /\ lost \subseteq Readings /\ batches \subseteq SUBSET Readings

AnalyzerInit ==
  /\ results = {} /\ now = 0 /\ up = TRUE /\ pool \in Pools
  /\ stream = [s \in Streams |-> Idle]
  /\ saves = {}
  /\ zone = [z \in Zones |-> Closed]
  /\ status = [r \in Readings |-> "new"]
  /\ lost = {} /\ batches = {}

-------------------------------------------------------------------------------
(* The analysis *)

\* The noise category of a level, which is also its risk level.
Analyze(decibel) == 1 + Cardinality({t \in {40, 60, 80} : decibel >= t})

\* The risk score that goes with it.
Score == <<10, 35, 65, 90>>

\* Mutant of calculateRiskLevel: the bounds of the decibels.
calculateRiskLevelByDecibels(total, n) == 1 + Cardinality({t \in {40, 60, 80} : total >= t * n})

\* The risk level of an average score, given as total and count.
calculateRiskLevel(total, n) == 1 + Cardinality({t \in {25, 50, 75} : total >= t * n})

\* How many of the rows have a level.
Count(rows, l) == Cardinality({x \in rows : x.level = l})

TotalScore(rows) == Count(rows, 1) * Score[1] + Count(rows, 2) * Score[2]
                      + Count(rows, 3) * Score[3] + Count(rows, 4) * Score[4]

-------------------------------------------------------------------------------
(* AnalyzeStream and AnalyzeBatch *)

Open(s) ==
  /\ up /\ ~stream[s].open
  /\ stream' = [stream EXCEPT ![s].open = TRUE]
  /\ UNCHANGED <<results, now, up, pool, saves, zone, status, lost, batches>>

Recv(s, r) ==
  /\ stream[s].open /\ stream[s].todo = <<>>
  /\ status[r] = "new"
  /\ stream' = [stream EXCEPT ![s].todo = <<r>>]
  /\ status' = [status EXCEPT ![r] = "received"]
  /\ UNCHANGED <<results, now, up, pool, saves, zone, lost, batches>>

\* The answer is sent, then the goroutine that saves the result is started.
Send(s) ==
  /\ stream[s].todo # <<>>
  /\ stream' = [stream EXCEPT ![s].todo = <<>>]
  /\ saves' = saves \union {[todo |-> stream[s].todo, rows |-> {}, of |-> s]}
  /\ status' = [status EXCEPT ![Head(stream[s].todo)] = "answered"]
  /\ UNCHANGED <<results, now, up, pool, zone, lost, batches>>

\* Mutant of SendFails: the save is started before the answer is sent.
SendFailsSaving(s) ==
  /\ stream[s].todo # <<>>
  /\ stream' = [stream EXCEPT ![s] = Idle]
  /\ saves' = saves \union {[todo |-> stream[s].todo, rows |-> {}, of |-> s]}
  /\ status' = [status EXCEPT ![Head(stream[s].todo)] = "dropped"]
  /\ UNCHANGED <<results, now, up, pool, zone, lost, batches>>

\* The client is gone: the call returns without saving what it could not send.
SendFails(s) ==
  /\ stream[s].todo # <<>>
  /\ stream' = [stream EXCEPT ![s] = Idle]
  /\ status' = [status EXCEPT ![Head(stream[s].todo)] = "dropped"]
  /\ UNCHANGED <<results, now, up, pool, saves, zone, lost, batches>>

\* Mutant of EndStream: the saves use the context of the stream.
EndStreamCancelling(s) ==
  /\ stream[s].open /\ stream[s].todo = <<>>
  /\ stream' = [stream EXCEPT ![s] = Idle]
  /\ saves' = {sv \in saves : sv.of # s}
  /\ UNCHANGED <<results, now, up, pool, zone, status, lost, batches>>

\* End of the client's stream, its cancellation, or a failed Recv.
EndStream(s) ==
  /\ stream[s].open /\ stream[s].todo = <<>>
  /\ stream' = [stream EXCEPT ![s] = Idle]
  /\ UNCHANGED <<results, now, up, pool, saves, zone, status, lost, batches>>

\* A batch without readings is refused and changes nothing.  The goroutine that
\* saves the results starts before the response is on its way.
AnalyzeBatch(b) ==
  /\ up /\ b # <<>>
  /\ \A i \in DOMAIN b : status[b[i]] = "new"
  /\ LET all == {b[i] : i \in DOMAIN b} IN
       /\ status' = [r \in Readings |-> IF r \in all THEN "received" ELSE status[r]]
       /\ batches' = batches \union {all}
  /\ saves' = saves \union {[todo |-> b, rows |-> {}, of |-> "batch"]}
  /\ UNCHANGED <<results, now, up, pool, stream, zone, lost>>

\* The response to a batch reaches the client, or it does not.
BatchReturns(all) ==
  /\ all \in batches /\ \A r \in all : status[r] = "received"
  /\ \E end \in {"answered", "dropped"} :
       status' = [r \in Readings |-> IF r \in all THEN end ELSE status[r]]
  /\ UNCHANGED <<results, now, up, pool, stream, saves, zone, lost, batches>>

-------------------------------------------------------------------------------
(* saveAnalysisResult and saveBatchResults *)

\* The record of a reading as it is stamped.
RowOf(r) == [reading |-> r, cell |-> CellOf[r], level |-> Analyze(DecibelOf[r]), at |-> now]

\* The goroutine builds its next record.
Stamp(sv) ==
  /\ sv.todo # <<>>
  /\ saves' = (saves \ {sv}) \union
                {[sv EXCEPT !.todo = Tail(@), !.rows = @ \union {RowOf(Head(sv.todo))}]}
  /\ UNCHANGED <<results, now, up, pool, stream, zone, status, lost, batches>>

SavedBy(sv) == {x.reading : x \in sv.rows} \union {sv.todo[i] : i \in DOMAIN sv.todo}

\* Mutant of Commit: a batch is inserted row by row without a transaction.
CommitRowByRow(sv) ==
  /\ pool /\ sv.todo = <<>>
  /\ \E x \in sv.rows :
       /\ results' = results \union {x}
       /\ saves' = (saves \ {sv}) \union
            (IF sv.rows = {x} THEN {} ELSE {[sv EXCEPT !.rows = @ \ {x}]})
  /\ UNCHANGED <<now, up, pool, stream, zone, status, lost, batches>>

\* One INSERT, or one transaction for the records of a batch.
Commit(sv) ==
  /\ pool /\ sv.todo = <<>>
  /\ results' = results \union sv.rows
  /\ saves' = saves \ {sv}
  /\ UNCHANGED <<now, up, pool, stream, zone, status, lost, batches>>

\* The database fails or the deadline passes: the error is logged, that is all.
\* If only the answer of the INSERT or of the COMMIT is lost, the rows are there.
SaveFails(sv) ==
  /\ pool /\ sv.todo = <<>>
  /\ results' \in {results, results \union sv.rows}
  /\ lost' = lost \union SavedBy(sv)
  /\ saves' = saves \ {sv}
  /\ UNCHANGED <<now, up, pool, stream, zone, status, batches>>

-------------------------------------------------------------------------------
(* GetZoneAnalysis *)

Watch(z, c) ==
  /\ up /\ ~zone[z].open
  /\ zone' = [zone EXCEPT ![z] = [open |-> TRUE, cell |-> c, seen |-> NoView]]
  /\ UNCHANGED <<results, now, up, pool, stream, saves, status, lost, batches>>

\* Mutants of Newest: no ORDER BY, and an ascending one.
NewestUnordered(rows) == rows
NewestAscending(rows) == {x \in rows : \A y \in rows : x.at <= y.at}

\* ORDER BY analyzed_at DESC: the rows that may come first.
Newest(rows) == {x \in rows : \A y \in rows : x.at >= y.at}

\* What the query may return: the latest rows of the cell, up to the limit.
GetLatestByH3Index(c) ==
  LET rows == {x \in results : x.cell = c} IN
  {top \in SUBSET rows :
     /\ Cardinality(top) <= ZoneLimit
     /\ top # rows => Cardinality(top) = ZoneLimit
     /\ \A x \in top, y \in rows \ top : x.at >= y.at}

\* A category with the highest count; the order of a Go map breaks ties.
Dominant(rows) == {l \in Levels : /\ Count(rows, l) > 0
                                  /\ \A k \in Levels : Count(rows, k) <= Count(rows, l)}

\* The ticker fires: without rows, or when the query fails, nothing is sent.
ZoneUpdate(z) ==
  /\ zone[z].open /\ pool
  /\ \E top \in GetLatestByH3Index(zone[z].cell) :
       /\ top # {}
       /\ \E latest \in Newest(top), category \in Dominant(top) :
            zone' = [zone EXCEPT ![z].seen =
                       [at |-> latest.at, category |-> category, count |-> Cardinality(top),
                        risk |-> calculateRiskLevel(TotalScore(top), Cardinality(top))]]
  /\ UNCHANGED <<results, now, up, pool, stream, saves, status, lost, batches>>

\* The client leaves, or a send fails.
Unwatch(z) ==
  /\ zone[z].open
  /\ zone' = [zone EXCEPT ![z] = Closed]
  /\ UNCHANGED <<results, now, up, pool, stream, saves, status, lost, batches>>

-------------------------------------------------------------------------------
(* The process *)

\* Everything in memory goes, the calls that wait for an answer too.
Down ==
  /\ up' = FALSE
  /\ stream' = [s \in Streams |-> Idle]
  /\ saves' = {}
  /\ zone' = [z \in Zones |-> Closed]
  /\ lost' = lost \union UNION {SavedBy(sv) : sv \in saves}
  /\ status' = [r \in Readings |-> IF status[r] = "received" THEN "dropped" ELSE status[r]]
  /\ UNCHANGED <<results, now, pool, batches>>

Crash == up /\ Down

\* A repository without a pool is used.
Panic ==
  /\ ~pool
  /\ (\E sv \in saves : sv.todo = <<>>) \/ (\E z \in Zones : zone[z].open)
  /\ Down

Restart ==
  /\ ~up
  /\ up' = TRUE
  /\ UNCHANGED <<results, now, pool, stream, saves, zone, status, lost, batches>>

Tick ==
  /\ now < MaxTime
  /\ now' = now + 1
  /\ UNCHANGED <<results, up, pool, stream, saves, zone, status, lost, batches>>

AnalyzerNext ==
  \/ \E s \in Streams : Open(s) \/ Send(s) \/ SendFails(s) \/ EndStream(s)
  \/ \E s \in Streams, r \in Readings : Recv(s, r)
  \/ \E b \in Batches : AnalyzeBatch(b)
  \/ \E all \in batches : BatchReturns(all)
  \/ \E sv \in saves : Stamp(sv) \/ Commit(sv) \/ SaveFails(sv)
  \/ \E z \in Zones : ZoneUpdate(z) \/ Unwatch(z)
  \/ \E z \in Zones, c \in Cells : Watch(z, c)
  \/ Crash \/ Panic \/ Restart \/ Tick

-------------------------------------------------------------------------------
(* Properties *)

Saved == {x.reading : x \in results}

\* A streamed reading is in the table, or about to be, only if its answer was
\* sent: the save is started behind a successful Send.  (A batch is saved whether
\* its response arrives or not.)  A reading is stored once, although a save may
\* report an error and have stored its rows.
SavedIsAnswered ==
  /\ \A r \in Saved \union UNION {SavedBy(sv) : sv \in saves} :
       status[r] = "answered" \/ r \in UNION batches
  /\ \A x, y \in results : x.reading = y.reading => x = y

\* The results of a batch are stored all or none, whatever fails in between.
BatchIsWhole == \A b \in batches : b \subseteq Saved \/ b \cap Saved = {}

\* A view shows a risk and a category that its cell's rows justify: no milder
\* than the mildest of them and no worse than the worst, although the scores of
\* the analysis and the bounds of the average are two separate tables.
ViewIsWithinRows ==
  \A z \in Zones : zone[z].seen # NoView =>
    LET levels == {x.level : x \in {y \in results : y.cell = zone[z].cell}} IN
      /\ zone[z].seen.category \in levels
      /\ \E l \in levels : l <= zone[z].seen.risk
      /\ \E l \in levels : l >= zone[z].seen.risk

\* The latest result a zone view shows is never older than the one it showed
\* before, in whatever order the goroutines store their rows.
ViewForward ==
  \A z \in Zones :
    zone[z].seen # NoView /\ zone'[z].seen # NoView => zone'[z].seen.at >= zone[z].seen.at

===============================================================================
