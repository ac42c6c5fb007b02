------------------------------- MODULE GeoCache -------------------------------
(***************************************************************************)
(* The cache-aside reads of the geo index: QueryHotspots and               *)
(* GetHexCellStats (services/geo-index/internal/service/geo_service.go),   *)
(* their Redis cache (internal/cache/redis_cache.go) and the queries on    *)
(* analysis_results behind it (internal/repository/geo_repository.go).     *)
(*                                                                         *)
(* Both operations store what they read from a detached goroutine, under   *)
(* the key of the cell alone, and nothing invalidates an entry but its     *)
(* expiry.  What a query read ages on its way: until the call has all its  *)
(* rows, in the fill goroutine, in Redis, and in the call that found it    *)
(* there.  Time passes in ticks; what a call does between its reads and    *)
(* its answer is taken to fit in one.  A cell's average is a level, 0 when *)
(* it has no result; other components change the table at any moment.      *)
(***************************************************************************)
EXTENDS Naturals, FiniteSets

CONSTANTS
  Cells,        \* H3 cells
  Calls,        \* slots for concurrent QueryHotspots calls
  Requests,     \* the valid QueryHotspotsRequests: [cells, min, limit]
  Ranges,       \* the time_range_hours GetHexCellStats is called with
  Day,          \* 24 hours: the range of QueryHotspots
  MaxLevel,     \* the highest average
  Rows,         \* the averages over the ranges that a cell may have at one time
  NoEntry,      \* nothing cached under the key
  Expiry,       \* cacheExpiry, in ticks
  FillTimeout,  \* timeout of a fill goroutine, 5 s, in ticks
  ReadTimeout,  \* timeout of the reads of a call, 5 s for its queries, in ticks
  MaxFills      \* bound on the statistics and fills under way

Averages == 0..MaxLevel
Levels   == 1..MaxLevel

ASSUME GeoCacheAssumption ==
  /\ Requests \subseteq [cells : (SUBSET Cells) \ {{}}, min : Averages, limit : Nat]
  /\ Day \in Ranges
  /\ Rows \subseteq [Ranges -> Averages]
  /\ NoEntry \notin [level : Levels, range : Ranges]
  /\ MaxLevel \in Nat /\ MaxFills \in Nat
  /\ Expiry \in Nat \ {0} /\ FillTimeout \in Nat /\ ReadTimeout \in Nat

VARIABLES
  table,   \* table[c][h]: the average of cell c over range h, now
  cache,   \* cache[c]: what Redis holds under cell:<c>, with its ttl
  fills,   \* writes of fill goroutines that Redis has not applied yet
  call,    \* call[k]: the QueryHotspots call in slot k
  stats,   \* what GetHexCellStats calls have read and not handed to a fill yet
  steady   \* steady[c]: ticks since the row of c last changed (history)

vars == <<table, cache, fills, call, stats, steady>>

\* How many ticks an entry, and a value in an answer, can lag behind the table: it
\* was read by one call, filled, found by another and used by that.
EntryAge  == ReadTimeout + FillTimeout + Expiry - 1
Staleness == EntryAge + ReadTimeout

NoRequest == [cells |-> {}, min |-> 0, limit |-> 0]
HexCell  == [level : Levels, range : Ranges]
NoCells  == [c \in Cells |-> NoEntry]
IdleCall == [phase |-> "idle", req |-> NoRequest, cells |-> NoCells, rows |-> NoCells, left |-> 0]

TypeOK ==
  /\ table \in [Cells -> Rows]
  /\ cache \in [Cells -> [hex : HexCell, ttl : 1..Expiry] \union {NoEntry}]
  /\ fills \subseteq [cell : Cells, hex : HexCell, left : 0..FillTimeout]
  /\ call \in [Calls -> [phase : {"idle", "looked", "read", "answered"},
                         req   : Requests \union {NoRequest},
                         cells : [Cells -> HexCell \union {NoEntry}],
                         rows  : [Cells -> HexCell \union {NoEntry}],
                         left  : 0..ReadTimeout]]
  /\ stats \subseteq [cell : Cells, hex : HexCell, left : 0..ReadTimeout]
  /\ steady \in [Cells -> 0..Staleness + 1]

Init ==
  /\ table \in [Cells -> Rows]
  /\ cache = NoCells
  /\ fills = {}
  /\ call = [k \in Calls |-> IdleCall]
  /\ stats = {}
  /\ steady = [c \in Cells |-> 0]

-------------------------------------------------------------------------------
(* The environment: the table, Redis and the clock *)

\* The averages of a cell change: results are saved, others leave a range.
Change(c) ==
  /\ \E row \in Rows \ {table[c]} : table' = [table EXCEPT ![c] = row]
  /\ steady' = [steady EXCEPT ![c] = 0]
  /\ UNCHANGED <<cache, fills, call, stats>>

\* Redis evicts an entry, or restarts without it.
Evict(c) ==
  /\ cache[c] # NoEntry
  /\ cache' = [cache EXCEPT ![c] = NoEntry]
  /\ UNCHANGED <<table, fills, call, stats, steady>>

\* What is left of those whose time was not over, one tick later.
Older(reads) == {[r EXCEPT !.left = @ - 1] : r \in {q \in reads : q.left > 0}}

OlderEntries ==
  [c \in Cells |-> IF cache[c] = NoEntry \/ cache[c].ttl = 1 THEN NoEntry
                   ELSE [cache[c] EXCEPT !.ttl = @ - 1]]

Reading(k) == call[k].phase \in {"looked", "read"}

OlderCalls ==
  [k \in Calls |-> IF ~Reading(k) THEN call[k]
                   ELSE IF call[k].left = 0 THEN IdleCall
                   ELSE [call[k] EXCEPT !.left = @ - 1]]

OlderRows == [c \in Cells |-> IF steady[c] > Staleness THEN steady[c] ELSE steady[c] + 1]

\* Mutant of Tick: the fill goroutines have no timeout.
TickWithoutTimeout ==
  /\ cache' = OlderEntries
  /\ stats' = Older(stats)
  /\ call' = OlderCalls
  /\ steady' = OlderRows
  /\ UNCHANGED <<table, fills>>

\* An entry whose ttl is over is gone; a fill that has run into its timeout is
\* abandoned; a call whose queries have run into theirs fails with Internal.
Tick ==
  /\ cache' = OlderEntries
  /\ fills' = Older(fills)
  /\ stats' = Older(stats)
  /\ call' = OlderCalls
  /\ steady' = OlderRows
  /\ UNCHANGED table

-------------------------------------------------------------------------------
(* The fills: SetCells and SetCell in their goroutines *)

\* MaxFills bounds what is on its way to Redis.
WithinBound(ss, fs) == Cardinality(ss) + Cardinality(fs) <= MaxFills

Fill(c, hex) == [cell |-> c, hex |-> hex, left |-> FillTimeout]

\* Redis applies one Set.  Those of a pipeline are applied one by one, and the
\* goroutines of different calls run in any order.
ApplyFill(f) ==
  /\ f \in fills
  /\ cache' = [cache EXCEPT ![f.cell] = [hex |-> f.hex, ttl |-> Expiry]]
  /\ fills' = fills \ {f}
  /\ UNCHANGED <<table, call, stats, steady>>

\* Redis is down or the entry does not marshal: the error is logged.
LoseFill(f) ==
  /\ f \in fills
  /\ fills' = fills \ {f}
  /\ UNCHANGED <<table, cache, call, stats, steady>>

-------------------------------------------------------------------------------
(* QueryHotspots *)

Found(c) == IF cache[c] = NoEntry THEN NoEntry ELSE cache[c].hex

\* A request that is not valid, or whose radius holds no cell, is answered without
\* cache and database.  GetCells: one MGET for all cells of the radius.  An entry
\* that does not unmarshal counts as a miss, and an error of Redis as a miss of
\* every cell.
GetCells(k) ==
  /\ call[k].phase = "idle"
  /\ \E r \in Requests : \E hit \in SUBSET r.cells :
       call' = [call EXCEPT ![k] =
                  [phase |-> "looked", req |-> r, left |-> ReadTimeout, rows |-> NoCells,
                   cells |-> [c \in Cells |-> IF c \in hit THEN Found(c) ELSE NoEntry]]]
  /\ UNCHANGED <<table, cache, fills, stats, steady>>

Missing(k) == {c \in call[k].req.cells : call[k].cells[c] = NoEntry}

\* The average of a day reaches the minimum of the call, as the query checks it.
Hot(k, c) == table[c][Day] # 0 /\ table[c][Day] >= call[k].req.min

OverADay(c) == [level |-> table[c][Day], range |-> Day]

HotRows(k) == [c \in Cells |-> IF c \in Missing(k) /\ Hot(k, c) THEN OverADay(c) ELSE NoEntry]

\* The query for the cells without an entry; no query if there are none.  Its rows
\* are in flight under the timeout that began with it.  A row that does not scan
\* makes pgx end the rows with that error: the query fails.
GetHotspotsInCells(k) ==
  /\ call[k].phase = "looked"
  /\ call' = [call EXCEPT ![k] = [@ EXCEPT !.phase = "read", !.rows = HotRows(k)]]
  /\ UNCHANGED <<table, cache, fills, stats, steady>>

\* The cached cells with the rows the query returned.
Merged(k) ==
  [c \in Cells |-> IF call[k].rows[c] # NoEntry THEN call[k].rows[c] ELSE call[k].cells[c]]

\* Mutant of Hotspots: the filter is left to the query.
HotspotsUnfiltered(k) == {c \in Cells : Merged(k)[c] # NoEntry}

Hotspots(k) ==
  {c \in Cells : Merged(k)[c] # NoEntry /\ Merged(k)[c].level >= call[k].req.min}

\* Mutant of Limited: the limit cuts the map, before the sort.
LimitedUnsorted(k) ==
  LET n == call[k].req.limit
  IN  IF n = 0 \/ n >= Cardinality(Hotspots(k)) THEN {Hotspots(k)}
      ELSE {S \in SUBSET Hotspots(k) : Cardinality(S) = n}

\* The loudest `limit` of them, if there is a limit; the sort may break ties in
\* any way.
Limited(k) ==
  LET n == call[k].req.limit
  IN  IF n = 0 \/ n >= Cardinality(Hotspots(k)) THEN {Hotspots(k)}
      ELSE {S \in SUBSET Hotspots(k) :
              /\ Cardinality(S) = n
              /\ \A c \in S, d \in Hotspots(k) \ S : Merged(k)[c].level >= Merged(k)[d].level}

RowsToFill(k) == {c \in Cells : call[k].rows[c] # NoEntry}

\* The fill goroutine for the rows the query returned, and the response.
Answer(k) ==
  /\ call[k].phase = "read"
  /\ fills' = fills \union {Fill(c, call[k].rows[c]) : c \in RowsToFill(k)}
  /\ WithinBound(stats, fills')
  /\ \E S \in Limited(k) :
       call' = [call EXCEPT ![k] =
                  [@ EXCEPT !.phase = "answered", !.left = 0, !.rows = NoCells,
                            !.cells = [c \in Cells |-> IF c \in S THEN Merged(k)[c] ELSE NoEntry]]]
  /\ UNCHANGED <<table, cache, stats, steady>>

\* The query fails, or the reading of its rows does: Internal.
QueryFails(k) ==
  /\ Reading(k)
  /\ Missing(k) # {}
  /\ call' = [call EXCEPT ![k] = IdleCall]
  /\ UNCHANGED <<table, cache, fills, stats, steady>>

\* The response has left; the slot is free.
Finish(k) ==
  /\ call[k].phase = "answered"
  /\ call' = [call EXCEPT ![k] = IdleCall]
  /\ UNCHANGED <<table, cache, fills, stats, steady>>

-------------------------------------------------------------------------------
(* GetHexCellStats *)

Statistics(c, h) ==
  [cell |-> c, hex |-> [level |-> table[c][h], range |-> h], left |-> ReadTimeout]

\* Whatever the cache has, the answer is the query's; no result in the range is
\* an error.
QueryStats(c, h) ==
  /\ table[c][h] # 0
  /\ stats' = stats \union {Statistics(c, h)}
  /\ WithinBound(stats', fills)
  /\ UNCHANGED <<table, cache, fills, call, steady>>

\* The second query, for the hours, fails, and with it the call.
HourlyFails(s) ==
  /\ s \in stats
  /\ stats' = stats \ {s}
  /\ UNCHANGED <<table, cache, fills, call, steady>>

\* Both queries are done.  What the first returned is cached under the cell,
\* whatever the range.
GetHexCellStats(s) ==
  /\ s \in stats
  /\ stats' = stats \ {s}
  /\ fills' = fills \union {Fill(s.cell, s.hex)}
  /\ UNCHANGED <<table, cache, call, steady>>

-------------------------------------------------------------------------------
Next ==
  \/ Tick
  \/ \E c \in Cells : Change(c) \/ Evict(c)
  \/ \E f \in fills : ApplyFill(f) \/ LoseFill(f)
  \/ \E k \in Calls : GetCells(k) \/ GetHotspotsInCells(k) \/ Answer(k) \/ QueryFails(k) \/ Finish(k)
  \/ \E c \in Cells, h \in Ranges : QueryStats(c, h)
  \/ \E s \in stats : HourlyFails(s) \/ GetHexCellStats(s)

Spec == Init /\ [][Next]_vars

-------------------------------------------------------------------------------
(* Properties *)

\* Nothing but its expiry removes an entry, and fills are applied in any order,
\* each with rows that may be old already: still, once a row has not changed for the
\* time a read, a fill and an entry can take together, what is cached for its cell
\* is what the table says over the entry's range.
EntriesConverge ==
  \A c \in Cells :
    cache[c] # NoEntry /\ steady[c] > EntryAge
      => cache[c].hex.level = table[c][cache[c].hex.range]

Answers(k) == call[k].phase = "read" /\ call'[k].phase = "answered"

\* The entry that the call found for c, if any, was cached by a call for a day.
OfADay(k, c) == call[k].cells[c] = NoEntry \/ call[k].cells[c].range = Day

\* QueryHotspots without a limit is right about every cell that has not changed
\* for Staleness ticks: it returns the cell, with its level, exactly if the level
\* reaches the minimum, whatever other calls with other minimums cached and however
\* their reads and fills were delayed.  An entry that GetHexCellStats cached for
\* another range is excepted.
SteadyCellIsRight ==
  [][\A k \in Calls : Answers(k) /\ call[k].req.limit = 0 =>
       \A c \in call[k].req.cells : steady[c] > Staleness /\ OfADay(k, c) =>
         call'[k].cells[c] = IF Hot(k, c) THEN OverADay(c) ELSE NoEntry]_vars

\* A limit drops the quietest cells: an unchanged hot cell is left out of a full
\* answer only for cells that are reported at least as loud.
LimitKeepsLoudest ==
  [][\A k \in Calls : Answers(k) =>
       \A c \in call[k].req.cells, d \in Cells :
         /\ steady[c] > Staleness /\ OfADay(k, c) /\ Hot(k, c)
         /\ call'[k].cells[c] = NoEntry
         /\ call'[k].cells[d] # NoEntry
         => call'[k].cells[d].level >= table[c][Day]]_vars
================================================================================
