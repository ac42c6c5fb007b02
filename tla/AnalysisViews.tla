----------------------------- MODULE AnalysisViews -----------------------------
(***************************************************************************)
(* analysis_results as the other services read it while the analyzer       *)
(* writes it: StreamCellUpdates of the geo index (services/geo-index,      *)
(* geo_service.go and geo_repository.go) and GenerateCityReport of the     *)
(* report service (services/report, report_service.go and                  *)
(* report_repository.go).  Each is a process of its own that shares only   *)
(* the table with the analyzer.                                            *)
(***************************************************************************)
EXTENDS AnalyzerService

CONSTANTS
  Followers,  \* slots for StreamCellUpdates calls
  TopN,       \* top_n_hotspots of the reports
  ChunkSize,  \* zones per chunk, 10
  Unseen      \* a cell a follower has had no update for

ASSUME ViewsAssumption ==
  TopN \in 1..100 /\ ChunkSize \in Nat \ {0} /\ Unseen \notin Times

VARIABLES
  follow,  \* follow[f]: the StreamCellUpdates call in slot f
  report   \* a GenerateCityReport call

viewVars == <<follow, report>>
vars == <<analyzerVars, follow, report>>

Away == [open |-> FALSE, queue |-> {}, seen |-> [c \in Cells |-> Unseen]]
NoReport == [sending |-> FALSE, zones |-> <<>>, sent |-> 0, chunk |-> <<>>]

TypeOK ==
  /\ AnalyzerTypeOK
  /\ follow \in [Followers -> [open : BOOLEAN, queue : SUBSET Row,
                               seen : [Cells -> Times \union {Unseen}]]]
  /\ report.sending \in BOOLEAN /\ report.sent \in 0..Len(report.zones)
  /\ report.zones \in Seq(Cells) /\ report.chunk \in {<<>>, report.zones}

Init ==
  /\ AnalyzerInit
  /\ follow = [f \in Followers |-> Away]
  /\ report = NoReport

-------------------------------------------------------------------------------
(* StreamCellUpdates, over all the cells *)

Follow(f) ==
  /\ ~follow[f].open
  /\ follow' = [follow EXCEPT ![f].open = TRUE]
  /\ UNCHANGED report

\* What the query may return: for each cell that has rows, one of its newest.
GetLatestCellUpdate ==
  LET rows(c) == {x \in results : x.cell = c}
      known == {c \in Cells : rows(c) # {}}
  IN {{pick[c] : c \in known} :
        pick \in {p \in [known -> results] : \A c \in known : p[c] \in Newest(rows(c))}}

\* The ticker fires and the query succeeds.
FollowTick(f) ==
  /\ follow[f].open /\ follow[f].queue = {}
  /\ \E q \in GetLatestCellUpdate : follow' = [follow EXCEPT ![f].queue = q]
  /\ UNCHANGED report

\* The updates are sent one at a time; nothing is read until all are sent.
SendUpdate(f) ==
  /\ \E x \in follow[f].queue :
       follow' = [follow EXCEPT ![f].queue = @ \ {x}, ![f].seen[x.cell] = x.at]
  /\ UNCHANGED report

\* The client leaves, or a send fails half-way through the updates.
Unfollow(f) ==
  /\ follow[f].open
  /\ follow' = [follow EXCEPT ![f] = Away]
  /\ UNCHANGED report

-------------------------------------------------------------------------------
(* GenerateCityReport, for the time from a stamp on *)

\* The rows of a cell in the time range of a report.
RowsOf(c, from) == {x \in results : x.cell = c /\ x.at >= from}

\* The average of cell a is not below that of cell b.
AsLoud(a, b, from) ==
  TotalScore(RowsOf(a, from)) * Cardinality(RowsOf(b, from)) >=
    TotalScore(RowsOf(b, from)) * Cardinality(RowsOf(a, from))

\* What the query may return: the cells by average, the loudest first, no more
\* than TopN.
GetCityZoneStats(from) ==
  LET known == {c \in Cells : RowsOf(c, from) # {}}
      n == IF Cardinality(known) < TopN THEN Cardinality(known) ELSE TopN
  IN {list \in [1..n -> known] :
        /\ \A i, j \in 1..n : i < j => list[i] # list[j] /\ AsLoud(list[i], list[j], from)
        /\ \A c \in known, i \in 1..n :
             (\A j \in 1..n : list[j] # c) => AsLoud(list[i], c, from)}

totalChunks(zones) == (Len(zones) + ChunkSize - 1) \div ChunkSize

\* A query that fails, or a row that cannot be scanned, ends the call.
QueryReport ==
  /\ ~report.sending
  /\ \E from \in Times : \E list \in GetCityZoneStats(from) :
       report' = [NoReport EXCEPT !.sending = TRUE, !.zones = list]
  /\ UNCHANGED follow

\* One chunk; between two of them the handler sleeps.  The zones of the chunk are
\* cut from the list and given recommendations, and then the whole list is sent.
SendChunk ==
  /\ report.sending /\ report.sent < totalChunks(report.zones)
  /\ report' = [report EXCEPT !.sent = @ + 1, !.chunk = report.zones]
  /\ UNCHANGED follow

\* All chunks are sent: the call succeeds.
EndReport ==
  /\ report.sending /\ report.sent = totalChunks(report.zones)
  /\ report' = NoReport
  /\ UNCHANGED follow

\* The client is gone.
ChunkFails ==
  /\ report.sending /\ report.sent < totalChunks(report.zones)
  /\ report' = NoReport
  /\ UNCHANGED follow

ViewsNext ==
  \/ \E f \in Followers : Follow(f) \/ FollowTick(f) \/ SendUpdate(f) \/ Unfollow(f)
  \/ QueryReport \/ SendChunk \/ EndReport \/ ChunkFails

Next == \/ AnalyzerNext /\ UNCHANGED viewVars
        \/ ViewsNext /\ UNCHANGED analyzerVars

Spec == Init /\ [][Next]_vars

\* The goroutines of a process that is up run, a database call returns in the
\* end, tickers fire and their queries succeed again and again; clients, crashes
\* and restarts owe nothing.
Saving == \E sv \in saves : Stamp(sv) \/ Commit(sv) \/ SaveFails(sv)

Fairness ==
  /\ WF_vars(Saving /\ UNCHANGED viewVars)
  /\ WF_vars(Panic /\ UNCHANGED viewVars)
  /\ \A z \in Zones : WF_vars(ZoneUpdate(z) /\ UNCHANGED viewVars)
  /\ \A f \in Followers : WF_vars((FollowTick(f) \/ SendUpdate(f)) /\ UNCHANGED analyzerVars)

FairSpec == Spec /\ Fairness

-------------------------------------------------------------------------------
(* Properties *)

\* Neither kind of live view goes back in time, although rows enter the table
\* out of order and the updates of a tick are sent one by one.
ViewsMoveForward ==
  [][ /\ ViewForward
      /\ \A f \in Followers, c \in Cells :
           follow[f].seen[c] # Unseen /\ follow'[f].open =>
             /\ follow'[f].seen[c] # Unseen
             /\ follow'[f].seen[c] >= follow[f].seen[c] ]_vars

\* An answer is saved even if its stream ends meanwhile: only a failing
\* database or the end of the process loses it.
AnsweredIsSaved ==
  \A r \in Readings : status[r] = "answered" ~> r \in Saved \union lost

\* Whoever keeps watching catches up with the table: no row stays newer than
\* what a live view shows.  (The clock of the instance is bounded, so new rows
\* stop being newer in the end.)
NewerRow(c, seen) == \E x \in results : x.cell = c /\ (seen \in Times => x.at > seen)

ViewsCatchUp ==
  /\ \A z \in Zones :
       LET at == IF zone[z].seen = NoView THEN NoView ELSE zone[z].seen.at
           behind == zone[z].open /\ NewerRow(zone[z].cell, at)
       IN behind ~> ~behind
  /\ \A f \in Followers :
       LET behind == follow[f].open /\ \E c \in Cells : NewerRow(c, follow[f].seen[c])
       IN behind ~> ~behind

===============================================================================
