---------------------------- MODULE GeoCache_proofs ----------------------------
(***************************************************************************)
(* Proofs about GeoCache, for any cells, requests, timeouts and expiry.    *)
(***************************************************************************)
EXTENDS GeoCache, TLAPS

LEMMA StalenessType ==
  /\ Staleness \in Nat
  /\ EntryAge = ReadTimeout + FillTimeout + Expiry - 1
  /\ Staleness = EntryAge + ReadTimeout
  /\ Staleness >= ReadTimeout + FillTimeout
  /\ Expiry \in Nat \ {0} /\ FillTimeout \in Nat /\ ReadTimeout \in Nat
BY GeoCacheAssumption DEF Staleness, EntryAge

LEMMA RowType ==
  ASSUME TypeOK, NEW c \in Cells, NEW h \in Ranges
  PROVE  /\ table[c][h] \in Averages
         /\ table[c][h] # 0 => table[c][h] \in Levels
BY GeoCacheAssumption DEF TypeOK, Averages, Levels

CacheType == cache \in [Cells -> [hex : HexCell, ttl : 1..Expiry] \union {NoEntry}]
FillsType == fills \subseteq [cell : Cells, hex : HexCell, left : 0..FillTimeout]
StatsType == stats \subseteq [cell : Cells, hex : HexCell, left : 0..ReadTimeout]
Hexes     == [Cells -> HexCell \union {NoEntry}]
CallRecord ==
  [phase : {"idle", "looked", "read", "answered"},
   req   : Requests \union {NoRequest},
   cells : Hexes,
   rows  : Hexes,
   left  : 0..ReadTimeout]
CallType == call \in [Calls -> CallRecord]

LEMMA TypeParts ==
  TypeOK <=> /\ table \in [Cells -> Rows]
             /\ CacheType /\ FillsType /\ CallType /\ StatsType
             /\ steady \in [Cells -> 0..Staleness + 1]
BY DEF TypeOK, CacheType, FillsType, CallType, CallRecord, Hexes, StatsType

LEMMA IdleCallType == NoCells \in Hexes /\ IdleCall \in CallRecord
BY GeoCacheAssumption DEF IdleCall, NoCells, CallRecord, Hexes

\* Every call has a record of the type, and asks for cells.
LEMMA CallHasType ==
  ASSUME TypeOK, NEW k \in Calls
  PROVE  /\ call[k] \in CallRecord
         /\ call[k].cells \in Hexes /\ call[k].rows \in Hexes
         /\ call[k].left \in 0..ReadTimeout
         /\ call[k].req.cells \subseteq Cells
         /\ call[k].req.min \in Averages
<1>1. call[k] \in CallRecord
  BY TypeParts DEF CallType
<1> QED BY <1>1, GeoCacheAssumption DEF CallRecord, NoRequest, Averages

LEMMA OverADayType ==
  ASSUME TypeOK, NEW c \in Cells, table[c][Day] # 0
  PROVE  OverADay(c) \in HexCell
BY RowType, GeoCacheAssumption DEF OverADay, HexCell

LEMMA HotRowsType ==
  ASSUME TypeOK, NEW k \in Calls
  PROVE  HotRows(k) \in Hexes
<1>1. ASSUME NEW c \in Cells
      PROVE  (IF c \in Missing(k) /\ Hot(k, c) THEN OverADay(c) ELSE NoEntry)
               \in HexCell \union {NoEntry}
  BY OverADayType DEF Hot
<1> QED BY <1>1 DEF HotRows, Hexes

LEMMA MergedType ==
  ASSUME TypeOK, NEW k \in Calls
  PROVE  Merged(k) \in Hexes
BY CallHasType DEF Merged, Hexes

LEMMA AnswerType ==
  ASSUME NEW r \in CallRecord, NEW hexes \in Hexes
  PROVE  [r EXCEPT !.phase = "answered", !.left = 0, !.rows = NoCells, !.cells = hexes]
           \in CallRecord
<1>1. 0 \in 0..ReadTimeout
  BY StalenessType
<1> QED BY <1>1, IdleCallType DEF CallRecord

LEMMA TypeInit == Init => TypeOK
<1> SUFFICES ASSUME Init PROVE TypeOK
  OBVIOUS
<1>1. CallType
  BY IdleCallType DEF Init, CallType
<1>2. CacheType /\ FillsType /\ StatsType
  BY DEF Init, CacheType, FillsType, StatsType, NoCells
<1> QED BY <1>1, <1>2, TypeParts, StalenessType DEF Init

LEMMA TypeTick == TypeOK /\ Tick => TypeOK'
<1> SUFFICES ASSUME TypeOK, Tick PROVE TypeOK'
  OBVIOUS
<1>0. CacheType /\ FillsType /\ CallType /\ StatsType
  BY TypeParts
<1>1. CacheType'
  BY <1>0, StalenessType DEF Tick, OlderEntries, CacheType
<1>2. FillsType' /\ StatsType'
  BY <1>0, StalenessType DEF Tick, Older, FillsType, StatsType
<1>3. CallType'
  <2>1. ASSUME NEW k \in Calls PROVE OlderCalls[k] \in CallRecord
    <3>1. call[k] \in CallRecord
      BY <1>0 DEF CallType
    <3>2. ASSUME call[k].left # 0 PROVE [call[k] EXCEPT !.left = @ - 1] \in CallRecord
      BY <3>1, <3>2, StalenessType DEF CallRecord
    <3> QED BY <3>1, <3>2, IdleCallType DEF OlderCalls
  <2> QED BY <2>1 DEF Tick, OlderCalls, CallType
<1>4. steady' \in [Cells -> 0..Staleness + 1] /\ table' \in [Cells -> Rows]
  BY StalenessType DEF Tick, OlderRows, TypeOK
<1> QED BY <1>1, <1>2, <1>3, <1>4, TypeParts DEF TypeOK, CacheType, FillsType, CallType, CallRecord, Hexes, StatsType

LEMMA FillType ==
  ASSUME NEW c \in Cells, NEW hex \in HexCell
  PROVE  Fill(c, hex) \in [cell : Cells, hex : HexCell, left : 0..FillTimeout]
BY StalenessType DEF Fill

LEMMA TypeStep == TypeOK /\ [Next]_vars => TypeOK'
<1> SUFFICES ASSUME TypeOK, [Next]_vars PROVE TypeOK'
  OBVIOUS
<1>0. /\ table \in [Cells -> Rows] /\ steady \in [Cells -> 0..Staleness + 1]
      /\ CacheType /\ FillsType /\ CallType /\ StatsType
  BY TypeParts
<1> DEFINE T == /\ table' \in [Cells -> Rows] /\ steady' \in [Cells -> 0..Staleness + 1]
                /\ CacheType' /\ FillsType' /\ CallType' /\ StatsType'
<1>a. SUFFICES T
  BY DEF TypeOK, CacheType, FillsType, CallType, CallRecord, Hexes, StatsType
<1>1. ASSUME NEW c \in Cells, Change(c) \/ Evict(c) PROVE T
  BY <1>0, <1>1, StalenessType DEF Change, Evict, CacheType, FillsType, CallType, StatsType
<1>2. ASSUME NEW f \in fills, ApplyFill(f) \/ LoseFill(f) PROVE T
  BY <1>0, <1>2, StalenessType DEF ApplyFill, LoseFill, CacheType, FillsType, CallType, StatsType
<1>3. ASSUME NEW k \in Calls, GetCells(k) PROVE T
  <2>1. PICK r \in Requests : \E hit \in SUBSET r.cells :
          call' = [call EXCEPT ![k] =
                     [phase |-> "looked", req |-> r, left |-> ReadTimeout, rows |-> NoCells,
                      cells |-> [c \in Cells |-> IF c \in hit THEN Found(c) ELSE NoEntry]]]
    BY <1>3 DEF GetCells
  <2>2. \A c \in Cells : Found(c) \in HexCell \union {NoEntry}
    BY DEF Found, TypeOK
  <2>3. CallType'
    BY <1>0, <2>1, <2>2, IdleCallType, StalenessType DEF CallType, CallRecord, Hexes
  <2> QED BY <1>0, <1>3, <2>3 DEF GetCells, CacheType, FillsType, StatsType
<1>4. ASSUME NEW k \in Calls, GetHotspotsInCells(k) PROVE T
  <2>1. [call[k] EXCEPT !.phase = "read", !.rows = HotRows(k)] \in CallRecord
    BY HotRowsType, CallHasType DEF CallRecord
  <2> QED BY <1>0, <1>4, <2>1 DEF GetHotspotsInCells, CacheType, FillsType, CallType, StatsType
<1>5. ASSUME NEW k \in Calls, Answer(k) PROVE T
  <2>1. FillsType'
    <3>1. ASSUME NEW c \in RowsToFill(k)
          PROVE  Fill(c, call[k].rows[c]) \in [cell : Cells, hex : HexCell, left : 0..FillTimeout]
      BY CallHasType, FillType DEF RowsToFill, Hexes
    <3>2. fills' = fills \union {Fill(c, call[k].rows[c]) : c \in RowsToFill(k)}
      BY <1>5 DEF Answer
    <3>3. SUFFICES ASSUME NEW f \in fills'
                   PROVE  f \in [cell : Cells, hex : HexCell, left : 0..FillTimeout]
      BY DEF FillsType
    <3>4. CASE f \in fills
      BY <1>0, <3>4 DEF FillsType
    <3>5. CASE f \notin fills
      <4>1. PICK c \in RowsToFill(k) : f = Fill(c, call[k].rows[c])
        BY <3>2, <3>5
      <4> QED BY <4>1, <3>1
    <3> QED BY <3>4, <3>5
  <2>2. PICK S \in Limited(k) :
          call' = [call EXCEPT ![k] =
                     [@ EXCEPT !.phase = "answered", !.left = 0, !.rows = NoCells,
                               !.cells = [c \in Cells |-> IF c \in S THEN Merged(k)[c] ELSE NoEntry]]]
    BY <1>5 DEF Answer
  <2>3. CallType'
    <3> DEFINE hexes == [c \in Cells |-> IF c \in S THEN Merged(k)[c] ELSE NoEntry]
    <3>1. hexes \in Hexes
      BY MergedType DEF Hexes
    <3> HIDE DEF hexes
    <3>2. call' = [call EXCEPT ![k] = [call[k] EXCEPT !.phase = "answered", !.left = 0,
                                                      !.rows = NoCells, !.cells = hexes]]
      BY <2>2 DEF hexes
    <3>3. [call[k] EXCEPT !.phase = "answered", !.left = 0, !.rows = NoCells, !.cells = hexes]
            \in CallRecord
      BY <3>1, AnswerType, CallHasType
    <3> QED BY <1>0, <3>2, <3>3 DEF CallType
  <2> QED BY <1>0, <1>5, <2>1, <2>3 DEF Answer, CacheType, StatsType
<1>6. ASSUME NEW k \in Calls, QueryFails(k) \/ Finish(k) PROVE T
  BY <1>0, <1>6, IdleCallType DEF QueryFails, Finish, CacheType, FillsType, CallType, StatsType
<1>7. ASSUME NEW c \in Cells, NEW h \in Ranges, QueryStats(c, h) PROVE T
  <2>1. Statistics(c, h) \in [cell : Cells, hex : HexCell, left : 0..ReadTimeout]
    BY <1>7, RowType, StalenessType DEF QueryStats, Statistics, HexCell
  <2> QED BY <1>0, <1>7, <2>1 DEF QueryStats, CacheType, FillsType, CallType, StatsType
<1>8. ASSUME NEW s \in stats, HourlyFails(s) \/ GetHexCellStats(s) PROVE T
  <2>1. s.cell \in Cells /\ s.hex \in HexCell
    BY <1>0 DEF StatsType
  <2>2. Fill(s.cell, s.hex) \in [cell : Cells, hex : HexCell, left : 0..FillTimeout]
    BY <2>1, FillType
  <2> QED BY <1>0, <1>8, <2>2 DEF HourlyFails, GetHexCellStats, CacheType, FillsType, CallType, StatsType
<1>9. CASE Tick
  BY <1>9, TypeTick DEF TypeOK, CacheType, FillsType, CallType, CallRecord, Hexes, StatsType
<1>10. CASE UNCHANGED vars
  BY <1>0, <1>10 DEF vars, CacheType, FillsType, CallType, StatsType
<1> HIDE DEF T
<1> QED BY <1>1, <1>2, <1>3, <1>4, <1>5, <1>6, <1>7, <1>8, <1>9, <1>10 DEF Next

\* Every variable keeps its type; in particular nothing is cached for a cell
\* without a result, and no entry lives longer than its expiry.
THEOREM TypeCorrect == Spec => []TypeOK
BY TypeInit, TypeStep, PTL DEF Spec

-------------------------------------------------------------------------------
(* How old a value can be *)

\* A value that was read from the table before its row last changed is as old as
\* that change at least.  So a value is right if the row has been steady for longer
\* than the value exists: statistics wait for the second query, a fill waits, an
\* entry lives, a call holds what it found and what it queried.
Right(c, hex) == hex.level = table[c][hex.range]

StatsInv ==
  \A s \in stats : steady[s.cell] > ReadTimeout - s.left => Right(s.cell, s.hex)

FillsInv ==
  \A f \in fills : steady[f.cell] > ReadTimeout + FillTimeout - f.left => Right(f.cell, f.hex)

CacheInv ==
  \A c \in Cells : cache[c] # NoEntry =>
    (steady[c] > ReadTimeout + FillTimeout + Expiry - cache[c].ttl => Right(c, cache[c].hex))

CallsInv ==
  \A k \in Calls : Reading(k) =>
    \A c \in Cells : call[k].cells[c] # NoEntry =>
      (steady[c] > Staleness - call[k].left => Right(c, call[k].cells[c]))

\* What the query of a call returns for a cell.
DayRow(k, c) == IF c \in Missing(k) /\ Hot(k, c) THEN OverADay(c) ELSE NoEntry

RowsInv ==
  \A k \in Calls : call[k].phase = "read" =>
    \A c \in Cells :
      /\ c \notin Missing(k) => call[k].rows[c] = NoEntry
      /\ steady[c] > ReadTimeout - call[k].left => call[k].rows[c] = DayRow(k, c)

AgeInv == TypeOK /\ StatsInv /\ FillsInv /\ CacheInv /\ CallsInv /\ RowsInv

\* The records behind the invariants.
LEMMA Records ==
  ASSUME TypeOK
  PROVE  /\ \A c \in Cells : steady[c] \in 0..Staleness + 1
         /\ \A s \in stats : /\ s.cell \in Cells /\ s.left \in 0..ReadTimeout
         /\ \A f \in fills : /\ f.cell \in Cells /\ f.left \in 0..FillTimeout
         /\ \A c \in Cells : cache[c] # NoEntry =>
              cache[c].ttl \in 1..Expiry /\ cache[c].hex \in HexCell
BY DEF TypeOK

LEMMA AgeTick == AgeInv /\ Tick => AgeInv'
<1> SUFFICES ASSUME AgeInv, Tick PROVE AgeInv'
  OBVIOUS
<1>0. TypeOK
  BY DEF AgeInv
<1>1. TypeOK'
  BY <1>0, TypeTick
<1>2. ASSUME NEW c \in Cells
      PROVE  /\ steady[c] \in Nat /\ steady'[c] \in Nat
             /\ steady'[c] = steady[c] + 1 \/ (steady[c] > Staleness /\ steady'[c] = steady[c])
  BY <1>0, StalenessType DEF TypeOK, Tick, OlderRows
<1>3. \A c, hex : Right(c, hex)' = Right(c, hex)
  BY DEF Right, Tick
<1>4. FillsInv'
  <2> SUFFICES ASSUME NEW f \in fills', steady'[f.cell] > ReadTimeout + FillTimeout - f.left
               PROVE  Right(f.cell, f.hex)
    BY <1>3 DEF FillsInv
  <2>1. PICK g \in fills : g.left > 0 /\ f = [g EXCEPT !.left = @ - 1]
    BY DEF Tick, Older
  <2>2. /\ g \in [cell : Cells, hex : HexCell, left : 0..FillTimeout]
        /\ f.cell = g.cell /\ f.hex = g.hex /\ f.left = g.left - 1
    BY <2>1 DEF AgeInv, TypeOK
  <2>3. steady[g.cell] > ReadTimeout + FillTimeout - g.left
    BY <1>2, <2>1, <2>2, StalenessType
  <2> QED BY <2>2, <2>3 DEF AgeInv, FillsInv
<1>5. StatsInv'
  <2> SUFFICES ASSUME NEW f \in stats', steady'[f.cell] > ReadTimeout - f.left
               PROVE  Right(f.cell, f.hex)
    BY <1>3 DEF StatsInv
  <2>1. PICK g \in stats : g.left > 0 /\ f = [g EXCEPT !.left = @ - 1]
    BY DEF Tick, Older
  <2>2. /\ g \in [cell : Cells, hex : HexCell, left : 0..ReadTimeout]
        /\ f.cell = g.cell /\ f.hex = g.hex /\ f.left = g.left - 1
    BY <2>1 DEF AgeInv, TypeOK
  <2>3. steady[g.cell] > ReadTimeout - g.left
    BY <1>2, <2>1, <2>2, StalenessType
  <2> QED BY <2>2, <2>3 DEF AgeInv, StatsInv
<1>6. CacheInv'
  <2> SUFFICES ASSUME NEW c \in Cells, cache'[c] # NoEntry,
                      steady'[c] > ReadTimeout + FillTimeout + Expiry - cache'[c].ttl
               PROVE  Right(c, cache'[c].hex)
    BY <1>3 DEF CacheInv
  <2>1. /\ cache[c] # NoEntry /\ cache[c] \in [hex : HexCell, ttl : 1..Expiry]
        /\ cache'[c].hex = cache[c].hex /\ cache'[c].ttl = cache[c].ttl - 1
    BY DEF Tick, OlderEntries, AgeInv, TypeOK
  <2>2. steady[c] > ReadTimeout + FillTimeout + Expiry - cache[c].ttl
    <3>1. steady[c] > Staleness \/ steady'[c] = steady[c] + 1
      BY <1>2
    <3>2. /\ cache[c].ttl \in 1..Expiry /\ cache[c].ttl >= 1
          /\ Staleness >= ReadTimeout + FillTimeout + Expiry - 1
      BY <2>1, StalenessType
    <3> QED BY <1>2, <2>1, <3>1, <3>2, StalenessType
  <2> QED BY <2>1, <2>2 DEF AgeInv, CacheInv
<1>7. ASSUME NEW k \in Calls, Reading(k)'
      PROVE  /\ Reading(k) /\ call'[k].phase = call[k].phase /\ call'[k].req = call[k].req
             /\ call'[k].cells = call[k].cells /\ call'[k].rows = call[k].rows
             /\ call[k].left \in Nat /\ call[k].left # 0 /\ call'[k].left = call[k].left - 1
             /\ call[k].left <= ReadTimeout
  <2>1. call'[k] = OlderCalls[k] /\ OlderCalls[k].phase \in {"looked", "read"}
    BY <1>7 DEF Tick, Reading
  <2>2. Reading(k) /\ call[k].left # 0 /\ call'[k] = [call[k] EXCEPT !.left = @ - 1]
    BY <2>1 DEF OlderCalls, IdleCall, Reading
  <2> QED BY <1>0, <2>2, CallHasType, StalenessType DEF CallRecord
<1>8. CallsInv'
  <2> SUFFICES ASSUME NEW k \in Calls, Reading(k)', NEW c \in Cells,
                      call'[k].cells[c] # NoEntry, steady'[c] > Staleness - call'[k].left
               PROVE  Right(c, call'[k].cells[c])
    BY <1>3 DEF CallsInv
  <2>1. steady[c] > Staleness - call[k].left
    BY <1>2, <1>7, StalenessType
  <2> QED BY <1>7, <2>1 DEF AgeInv, CallsInv
<1>9. RowsInv'
  <2> SUFFICES ASSUME NEW k \in Calls, call'[k].phase = "read", NEW c \in Cells
               PROVE  /\ c \notin Missing(k)' => call'[k].rows[c] = NoEntry
                      /\ steady'[c] > ReadTimeout - call'[k].left => call'[k].rows[c] = DayRow(k, c)'
    BY DEF RowsInv
  <2>0. Reading(k)'
    BY DEF Reading
  <2>1. /\ call[k].phase = "read" /\ call'[k].req = call[k].req
        /\ call'[k].cells = call[k].cells /\ call'[k].rows = call[k].rows
    BY <1>7, <2>0
  <2>2. Missing(k)' = Missing(k) /\ DayRow(k, c)' = DayRow(k, c)
    BY <2>1 DEF Tick, Missing, DayRow, Hot, OverADay
  <2>3. steady'[c] > ReadTimeout - call'[k].left => steady[c] > ReadTimeout - call[k].left
    BY <1>2, <1>7, <2>0, StalenessType
  <2> QED BY <2>1, <2>2, <2>3 DEF AgeInv, RowsInv
<1> QED BY <1>1, <1>4, <1>5, <1>6, <1>8, <1>9 DEF AgeInv

\* A change starts the count of its cell anew, and no value is that young.
LEMMA AgeChange == ASSUME AgeInv, NEW c \in Cells, Change(c) PROVE AgeInv'
<1>0. TypeOK
  BY DEF AgeInv
<1>1. TypeOK'
  BY <1>0, TypeStep DEF Next
<1>2. steady' = [steady EXCEPT ![c] = 0] /\ UNCHANGED <<cache, fills, call, stats>>
  BY DEF Change
<1>3. \A d \in Cells \ {c} : table'[d] = table[d] /\ steady'[d] = steady[d]
  BY <1>0 DEF Change, TypeOK
<1>4. steady'[c] = 0
  BY <1>0, <1>2 DEF TypeOK
<1>5. FillsInv'
  BY <1>0, <1>2, <1>3, <1>4, Records, StalenessType DEF AgeInv, FillsInv, Right
<1>6. StatsInv'
  BY <1>0, <1>2, <1>3, <1>4, Records, StalenessType DEF AgeInv, StatsInv, Right
<1>7. CacheInv'
  <2> SUFFICES ASSUME NEW d \in Cells, cache[d] # NoEntry,
                      steady'[d] > ReadTimeout + FillTimeout + Expiry - cache[d].ttl
               PROVE  Right(d, cache[d].hex)'
    BY <1>2 DEF CacheInv, Right
  <2>1. d # c
    BY <1>0, <1>4, Records, StalenessType
  <2> QED BY <1>2, <1>3, <2>1 DEF AgeInv, CacheInv, Right
<1>8. CallsInv'
  <2> SUFFICES ASSUME NEW k \in Calls, Reading(k), NEW d \in Cells,
                      call[k].cells[d] # NoEntry, steady'[d] > Staleness - call[k].left
               PROVE  Right(d, call[k].cells[d])'
    BY <1>2 DEF CallsInv, Right, Reading
  <2>1. d # c
    BY <1>0, <1>4, CallHasType, StalenessType
  <2> QED BY <1>2, <1>3, <2>1 DEF AgeInv, CallsInv, Right
<1>9. RowsInv'
  <2> SUFFICES ASSUME NEW k \in Calls, call[k].phase = "read", NEW d \in Cells
               PROVE  /\ d \notin Missing(k) => call[k].rows[d] = NoEntry
                      /\ steady'[d] > ReadTimeout - call[k].left => call[k].rows[d] = DayRow(k, d)'
    BY <1>2 DEF RowsInv, Missing
  <2>1. d \notin Missing(k) => call[k].rows[d] = NoEntry
    BY DEF AgeInv, RowsInv
  <2>2. ASSUME steady'[d] > ReadTimeout - call[k].left PROVE call[k].rows[d] = DayRow(k, d)'
    <3>1. d # c
      BY <1>0, <1>4, <2>2, CallHasType, StalenessType
    <3>2. DayRow(k, d)' = DayRow(k, d)
      BY <1>2, <1>3, <3>1 DEF DayRow, Missing, Hot, OverADay
    <3> QED BY <1>3, <2>2, <3>1, <3>2 DEF AgeInv, RowsInv
  <2> QED BY <2>1, <2>2
<1> QED BY <1>1, <1>5, <1>6, <1>7, <1>8, <1>9 DEF AgeInv

LEMMA AgeApply == ASSUME AgeInv, NEW f \in fills, ApplyFill(f) PROVE AgeInv'
<1>0. TypeOK
  BY DEF AgeInv
<1>1. TypeOK'
  BY <1>0, TypeStep DEF Next
<1>2. /\ cache' = [cache EXCEPT ![f.cell] = [hex |-> f.hex, ttl |-> Expiry]]
      /\ fills' \subseteq fills /\ UNCHANGED <<table, call, stats, steady>>
  BY DEF ApplyFill
<1>3. CacheInv'
  <2> SUFFICES ASSUME NEW d \in Cells, cache'[d] # NoEntry,
                      steady[d] > ReadTimeout + FillTimeout + Expiry - cache'[d].ttl
               PROVE  Right(d, cache'[d].hex)
    BY <1>2 DEF CacheInv, Right
  <2>1. CASE d = f.cell
    <3>1. cache'[d].hex = f.hex /\ cache'[d].ttl = Expiry
      BY <1>0, <1>2, <2>1 DEF TypeOK
    <3>2. steady[d] > ReadTimeout + FillTimeout - f.left
      BY <1>0, <3>1, Records, StalenessType
    <3> QED BY <2>1, <3>1, <3>2 DEF AgeInv, FillsInv
  <2>2. CASE d # f.cell
    <3>1. cache'[d] = cache[d]
      BY <1>0, <1>2, <2>2 DEF TypeOK
    <3> QED BY <3>1 DEF AgeInv, CacheInv
  <2> QED BY <2>1, <2>2
<1>4. RowsInv'
  BY <1>2 DEF AgeInv, RowsInv, DayRow, Missing, Hot, OverADay
<1> QED BY <1>1, <1>2, <1>3, <1>4 DEF AgeInv, FillsInv, StatsInv, CallsInv, Right, Reading

\* A step that leaves table, cache and clock alone, makes only statistics and fills
\* that are right if they are to be, and touches no call that goes on reading.
LEMMA AgeFill ==
  ASSUME AgeInv, TypeOK', UNCHANGED <<table, steady, cache>>,
         \A s \in stats' \ stats :
           steady[s.cell] > ReadTimeout - s.left => Right(s.cell, s.hex),
         \A f \in fills' \ fills :
           steady[f.cell] > ReadTimeout + FillTimeout - f.left => Right(f.cell, f.hex),
         \A k \in Calls : Reading(k)' => call'[k] = call[k]
  PROVE  AgeInv'
<1>1. StatsInv' /\ FillsInv' /\ CacheInv'
  BY DEF AgeInv, StatsInv, FillsInv, CacheInv, Right
<1>2. CallsInv'
  BY DEF AgeInv, CallsInv, Right, Reading
<1>3. RowsInv'
  <2> SUFFICES ASSUME NEW k \in Calls, call'[k].phase = "read", NEW c \in Cells
               PROVE  /\ c \notin Missing(k)' => call'[k].rows[c] = NoEntry
                      /\ steady'[c] > ReadTimeout - call'[k].left => call'[k].rows[c] = DayRow(k, c)'
    BY DEF RowsInv
  <2>1. call'[k] = call[k]
    BY DEF Reading
  <2>2. Missing(k)' = Missing(k) /\ DayRow(k, c)' = DayRow(k, c)
    BY <2>1 DEF Missing, DayRow, Hot, OverADay
  <2> QED BY <2>1, <2>2 DEF AgeInv, RowsInv
<1> QED BY <1>1, <1>2, <1>3 DEF AgeInv

LEMMA AgeLook == ASSUME AgeInv, NEW k \in Calls, GetCells(k) PROVE AgeInv'
<1>0. TypeOK
  BY DEF AgeInv
<1>1. TypeOK'
  BY <1>0, TypeStep DEF Next
<1>2. PICK r \in Requests : \E hit \in SUBSET r.cells :
        call' = [call EXCEPT ![k] =
                   [phase |-> "looked", req |-> r, left |-> ReadTimeout, rows |-> NoCells,
                    cells |-> [c \in Cells |-> IF c \in hit THEN Found(c) ELSE NoEntry]]]
  BY DEF GetCells
<1>3. UNCHANGED <<table, cache, fills, stats, steady>>
  BY DEF GetCells
<1>a. \A j \in Calls \ {k} : call'[j] = call[j]
  BY <1>0, <1>2 DEF TypeOK
<1>4. CallsInv'
  <2> SUFFICES ASSUME NEW j \in Calls, Reading(j)', NEW c \in Cells,
                      call'[j].cells[c] # NoEntry, steady[c] > Staleness - call'[j].left
               PROVE  Right(c, call'[j].cells[c])
    BY <1>3 DEF CallsInv, Right
  <2>1. CASE j = k
    <3>1. call'[j].left = ReadTimeout /\ call'[j].cells[c] = Found(c) /\ cache[c] # NoEntry
      BY <1>0, <1>2, <2>1 DEF TypeOK, Found
    <3>2. cache[c].ttl \in 1..Expiry /\ Found(c) = cache[c].hex
      BY <1>0, <3>1, Records DEF Found
    <3>3. steady[c] > ReadTimeout + FillTimeout + Expiry - cache[c].ttl
      BY <1>0, <3>1, <3>2, Records, StalenessType
    <3> QED BY <3>1, <3>2, <3>3 DEF AgeInv, CacheInv
  <2>2. CASE j # k
    BY <1>a, <2>2 DEF AgeInv, CallsInv, Reading
  <2> QED BY <2>1, <2>2
<1>5. RowsInv'
  <2> SUFFICES ASSUME NEW j \in Calls, call'[j].phase = "read", NEW c \in Cells
               PROVE  /\ c \notin Missing(j)' => call'[j].rows[c] = NoEntry
                      /\ steady'[c] > ReadTimeout - call'[j].left => call'[j].rows[c] = DayRow(j, c)'
    BY DEF RowsInv
  <2>1. call'[j] = call[j]
    BY <1>0, <1>2, <1>a DEF TypeOK
  <2>2. Missing(j)' = Missing(j) /\ DayRow(j, c)' = DayRow(j, c)
    BY <1>3, <2>1 DEF Missing, DayRow, Hot, OverADay
  <2> QED BY <1>3, <2>1, <2>2 DEF AgeInv, RowsInv
<1> QED BY <1>1, <1>3, <1>4, <1>5 DEF AgeInv, FillsInv, StatsInv, CacheInv, Right

\* The rows of a query are those of the table at that moment.
LEMMA AgeQuery == ASSUME AgeInv, NEW k \in Calls, GetHotspotsInCells(k) PROVE AgeInv'
<1>0. TypeOK
  BY DEF AgeInv
<1>1. TypeOK'
  BY <1>0, TypeStep DEF Next
<1>2. /\ call[k].phase = "looked" /\ UNCHANGED <<table, cache, fills, stats, steady>>
      /\ call' = [call EXCEPT ![k] = [call[k] EXCEPT !.phase = "read", !.rows = HotRows(k)]]
  BY DEF GetHotspotsInCells
<1>3. \A j \in Calls \ {k} : call'[j] = call[j]
  BY <1>0, <1>2 DEF TypeOK
<1>4. /\ call'[k].req = call[k].req /\ call'[k].cells = call[k].cells
      /\ call'[k].left = call[k].left /\ call'[k].rows = HotRows(k)
  BY <1>0, <1>2, CallHasType DEF TypeOK, CallRecord
<1>5. CallsInv'
  BY <1>2, <1>3, <1>4 DEF AgeInv, CallsInv, Right, Reading
<1>6. RowsInv'
  <2> SUFFICES ASSUME NEW j \in Calls, call'[j].phase = "read", NEW c \in Cells
               PROVE  /\ c \notin Missing(j)' => call'[j].rows[c] = NoEntry
                      /\ steady'[c] > ReadTimeout - call'[j].left => call'[j].rows[c] = DayRow(j, c)'
    BY DEF RowsInv
  <2>1. call'[j].req = call[j].req /\ call'[j].cells = call[j].cells
    BY <1>3, <1>4
  <2>2. Missing(j)' = Missing(j) /\ DayRow(j, c)' = DayRow(j, c)
    BY <1>2, <2>1 DEF Missing, DayRow, Hot, OverADay
  <2>3. CASE j = k
    BY <1>4, <2>2, <2>3 DEF HotRows, DayRow
  <2>4. CASE j # k
    BY <1>2, <1>3, <2>2, <2>4 DEF AgeInv, RowsInv
  <2> QED BY <2>3, <2>4
<1> QED BY <1>1, <1>2, <1>5, <1>6 DEF AgeInv, FillsInv, StatsInv, CacheInv, Right

\* A row that was queried for a steady cell is right.
LEMMA RowIsRight ==
  ASSUME AgeInv, NEW k \in Calls, call[k].phase = "read", NEW c \in RowsToFill(k),
         steady[c] > ReadTimeout - call[k].left
  PROVE  Right(c, call[k].rows[c])
<1>1. c \in Cells /\ call[k].rows[c] # NoEntry
  BY DEF RowsToFill
<1>2. call[k].rows[c] = OverADay(c)
  BY <1>1 DEF AgeInv, RowsInv, DayRow
<1> QED BY <1>2 DEF Right, OverADay

LEMMA AgeStep == AgeInv /\ [Next]_vars => AgeInv'
<1> SUFFICES ASSUME AgeInv, [Next]_vars PROVE AgeInv'
  OBVIOUS
<1>0. TypeOK /\ TypeOK'
  BY TypeStep DEF AgeInv
<1>1. ASSUME NEW c \in Cells, Evict(c) PROVE AgeInv'
  <2>1. /\ UNCHANGED <<table, fills, call, stats, steady>>
        /\ \A d \in Cells : cache'[d] # NoEntry => cache'[d] = cache[d]
    BY <1>0, <1>1 DEF Evict, TypeOK
  <2>2. CacheInv'
    BY <2>1 DEF AgeInv, CacheInv, Right
  <2>3. RowsInv'
    BY <2>1 DEF AgeInv, RowsInv, DayRow, Missing, Hot, OverADay
  <2> QED BY <1>0, <2>1, <2>2, <2>3 DEF AgeInv, FillsInv, StatsInv, CallsInv, Right, Reading
<1>2. ASSUME NEW f \in fills, LoseFill(f) PROVE AgeInv'
  BY <1>0, <1>2, AgeFill DEF LoseFill
<1>3. ASSUME NEW k \in Calls, Answer(k) PROVE AgeInv'
  <2>1. \A f \in fills' \ fills : \E c \in RowsToFill(k) : f = Fill(c, call[k].rows[c])
    BY <1>3 DEF Answer
  <2>2. ASSUME NEW f \in fills' \ fills, steady[f.cell] > ReadTimeout + FillTimeout - f.left
        PROVE  Right(f.cell, f.hex)
    <3>1. PICK c \in RowsToFill(k) : f = Fill(c, call[k].rows[c])
      BY <2>1
    <3>2. f.cell = c /\ f.hex = call[k].rows[c] /\ f.left = FillTimeout /\ c \in Cells
      BY <3>1 DEF Fill, RowsToFill
    <3>3. steady[c] > ReadTimeout - call[k].left
      BY <1>0, <2>2, <3>2, CallHasType, Records, StalenessType
    <3> QED BY <1>3, <3>2, <3>3, RowIsRight DEF Answer
  <2>3. \A j \in Calls : Reading(j)' => call'[j] = call[j]
    BY <1>0, <1>3 DEF Answer, Reading, TypeOK
  <2>4. UNCHANGED <<table, steady, cache, stats>>
    BY <1>3 DEF Answer
  <2> QED BY <1>0, <2>2, <2>3, <2>4, AgeFill
<1>4. ASSUME NEW k \in Calls, QueryFails(k) \/ Finish(k) PROVE AgeInv'
  <2>1. \A j \in Calls : Reading(j)' => call'[j] = call[j]
    BY <1>0, <1>4 DEF QueryFails, Finish, IdleCall, Reading, TypeOK
  <2> QED BY <1>0, <1>4, <2>1, AgeFill DEF QueryFails, Finish
<1>5. ASSUME NEW c \in Cells, NEW h \in Ranges, QueryStats(c, h) PROVE AgeInv'
  <2>1. \A s \in stats' \ stats : s = Statistics(c, h)
    BY <1>5 DEF QueryStats
  <2>2. Right(Statistics(c, h).cell, Statistics(c, h).hex)
    BY DEF Statistics, Right
  <2>3. UNCHANGED <<table, steady, cache, fills, call>>
    BY <1>5 DEF QueryStats
  <2>4. \A s \in stats' \ stats : Right(s.cell, s.hex)
    BY <2>1, <2>2
  <2> QED BY <1>0, <2>3, <2>4, AgeFill
<1>6. ASSUME NEW s \in stats, HourlyFails(s) PROVE AgeInv'
  BY <1>0, <1>6, AgeFill DEF HourlyFails
<1>7. ASSUME NEW s \in stats, GetHexCellStats(s) PROVE AgeInv'
  <2>1. /\ UNCHANGED <<table, steady, cache, call>> /\ stats' \subseteq stats
        /\ fills' = fills \union {Fill(s.cell, s.hex)}
    BY <1>7 DEF GetHexCellStats
  <2>2. ASSUME NEW f \in fills' \ fills, steady[f.cell] > ReadTimeout + FillTimeout - f.left
        PROVE  Right(f.cell, f.hex)
    <3>1. f.cell = s.cell /\ f.hex = s.hex /\ f.left = FillTimeout
      BY <2>1 DEF Fill
    <3>2. steady[s.cell] > ReadTimeout - s.left
      BY <1>0, <2>2, <3>1, Records, StalenessType
    <3> QED BY <3>1, <3>2 DEF AgeInv, StatsInv
  <2> QED BY <1>0, <2>1, <2>2, AgeFill
<1>8. CASE UNCHANGED vars
  BY <1>0, <1>8, AgeFill DEF vars
<1> QED
  BY <1>1, <1>2, <1>3, <1>4, <1>5, <1>6, <1>7, <1>8, AgeTick, AgeChange, AgeApply, AgeLook, AgeQuery
  DEF Next

LEMMA AgeAlways == Spec => []AgeInv
<1>1. Init => AgeInv
  BY TypeInit DEF Init, AgeInv, StatsInv, FillsInv, CacheInv, CallsInv, RowsInv, NoCells, IdleCall,
                  Reading
<1> QED BY <1>1, AgeStep, PTL DEF Spec

\* However slow the queries and in whatever order fills are applied: a row that has
\* been steady for as long as a read, a fill and an entry can take together has
\* nothing else cached.
THEOREM CacheConverges == Spec => []EntriesConverge
<1>1. AgeInv => EntriesConverge
  <2> SUFFICES ASSUME AgeInv, NEW c \in Cells, cache[c] # NoEntry, steady[c] > EntryAge
               PROVE  Right(c, cache[c].hex)
    BY DEF EntriesConverge, Right
  <2>1. cache[c].ttl \in 1..Expiry /\ steady[c] \in 0..Staleness + 1
    BY Records DEF AgeInv
  <2>2. steady[c] > ReadTimeout + FillTimeout + Expiry - cache[c].ttl
    BY <2>1, StalenessType
  <2> QED BY <2>2 DEF AgeInv, CacheInv
<1> QED BY AgeAlways, <1>1, PTL

-------------------------------------------------------------------------------
(* Answers *)

\* No other step answers the call in slot k.
LEMMA OnlyAnswer ==
  ASSUME AgeInv, [Next]_vars, NEW k \in Calls, Answers(k)
  PROVE  Answer(k)
<1>0. call \in [Calls -> CallRecord]
  BY TypeParts DEF AgeInv, CallType
<1>1. ~Tick
  BY <1>0 DEF Tick, OlderCalls, Answers, IdleCall, Reading, CallRecord
<1>2. ASSUME NEW c \in Cells, Change(c) \/ Evict(c) PROVE FALSE
  BY <1>2 DEF Change, Evict, Answers
<1>3. ASSUME NEW f \in fills, ApplyFill(f) \/ LoseFill(f) PROVE FALSE
  BY <1>3 DEF ApplyFill, LoseFill, Answers
<1>4. ASSUME NEW j \in Calls, GetCells(j) \/ GetHotspotsInCells(j) PROVE FALSE
  BY <1>0, <1>4 DEF GetCells, GetHotspotsInCells, Answers, CallRecord
<1>5. ASSUME NEW j \in Calls, QueryFails(j) \/ Finish(j) PROVE FALSE
  BY <1>0, <1>5 DEF QueryFails, Finish, IdleCall, Answers
<1>6. ASSUME NEW j \in Calls, Answer(j) PROVE Answer(k)
  <2>1. j # k => call'[k] = call[k]
    BY <1>0, <1>6 DEF Answer
  <2> QED BY <1>6, <2>1 DEF Answers
<1>7. ASSUME NEW c \in Cells, NEW h \in Ranges, QueryStats(c, h) PROVE FALSE
  BY <1>7 DEF QueryStats, Answers
<1>8. ASSUME NEW s \in stats, HourlyFails(s) \/ GetHexCellStats(s) PROVE FALSE
  BY <1>8 DEF HourlyFails, GetHexCellStats, Answers
<1>9. vars' # vars
  BY DEF vars, Answers
<1> QED BY <1>1, <1>2, <1>3, <1>4, <1>5, <1>6, <1>7, <1>8, <1>9 DEF Next

\* Cached or queried: what an answer has to say about a steady cell is what the
\* table says.
LEMMA MergedIsRight ==
  ASSUME AgeInv, NEW k \in Calls, call[k].phase = "read",
         NEW c \in call[k].req.cells, steady[c] > Staleness, OfADay(k, c)
  PROVE  /\ Hot(k, c) => c \in Hotspots(k) /\ Merged(k)[c] = OverADay(c)
         /\ ~Hot(k, c) => c \notin Hotspots(k)
<1>0. TypeOK /\ Reading(k)
  BY DEF AgeInv, Reading
<1>1. c \in Cells /\ call[k].req.min \in Averages
  BY <1>0, CallHasType
<1>2. call[k].cells[c] \in HexCell \union {NoEntry} /\ call[k].left \in 0..ReadTimeout
  BY <1>0, <1>1, CallHasType DEF Hexes
<1>3. table[c][Day] \in Averages
  BY <1>0, <1>1, RowType, GeoCacheAssumption
<1>4. /\ steady[c] > ReadTimeout - call[k].left
      /\ steady[c] > Staleness - call[k].left
  BY <1>0, <1>1, <1>2, Records, StalenessType
<1>5. call[k].rows[c] = DayRow(k, c) /\ (c \notin Missing(k) => call[k].rows[c] = NoEntry)
  BY <1>1, <1>4 DEF AgeInv, RowsInv
<1>6. Hot(k, c) => OverADay(c) # NoEntry
  <2>1. Hot(k, c) => OverADay(c) \in HexCell
    BY <1>0, <1>1, OverADayType DEF Hot
  <2> QED BY <2>1, GeoCacheAssumption DEF HexCell
<1>7. Hot(k, c) => OverADay(c).level >= call[k].req.min
  BY DEF Hot, OverADay
<1>8. CASE c \in Missing(k)
  <2>1. Hot(k, c) => Merged(k)[c] = OverADay(c)
    BY <1>1, <1>5, <1>6, <1>8 DEF Merged, DayRow
  <2>2. ~Hot(k, c) => Merged(k)[c] = NoEntry
    BY <1>1, <1>5, <1>8 DEF Merged, DayRow, Missing
  <2> QED BY <1>1, <1>6, <1>7, <2>1, <2>2 DEF Hotspots
<1>9. CASE c \notin Missing(k)
  <2>1. call[k].cells[c] \in HexCell /\ call[k].cells[c] # NoEntry /\ call[k].cells[c].range = Day
    BY <1>2, <1>9 DEF OfADay, Missing
  <2>2. call[k].cells[c].level = table[c][Day]
    BY <1>0, <1>1, <1>4, <2>1 DEF AgeInv, CallsInv, Right
  <2>3. call[k].cells[c] = OverADay(c)
    BY <2>1, <2>2 DEF HexCell, OverADay
  <2>4. table[c][Day] # 0
    BY <2>1, <2>2 DEF HexCell, Levels
  <2>5. Merged(k)[c] = call[k].cells[c]
    BY <1>1, <1>5, <1>9 DEF Merged
  <2>6. Hot(k, c) <=> table[c][Day] >= call[k].req.min
    BY <2>4 DEF Hot
  <2>7. Merged(k)[c].level = table[c][Day]
    BY <2>2, <2>5
  <2> QED BY <1>1, <2>1, <2>3, <2>5, <2>6, <2>7 DEF Hotspots
<1> QED BY <1>8, <1>9

\* What an answer holds is one of the choices that the limit leaves.
LEMMA AnswerIsLimited ==
  ASSUME AgeInv, NEW k \in Calls, Answer(k)
  PROVE  \E S \in Limited(k) :
           \A c \in Cells : call'[k].cells[c] = IF c \in S THEN Merged(k)[c] ELSE NoEntry
<1>0. call \in [Calls -> CallRecord]
  BY TypeParts DEF AgeInv, CallType
<1>1. PICK S \in Limited(k) :
        call' = [call EXCEPT ![k] =
                   [@ EXCEPT !.phase = "answered", !.left = 0, !.rows = NoCells,
                             !.cells = [c \in Cells |-> IF c \in S THEN Merged(k)[c] ELSE NoEntry]]]
  BY DEF Answer
<1>2. call'[k].cells = [c \in Cells |-> IF c \in S THEN Merged(k)[c] ELSE NoEntry]
  BY <1>0, <1>1 DEF CallRecord
<1> QED BY <1>2

\* QueryHotspots without a limit is right about every cell that has been steady for
\* the time a read, a fill, an entry and a second read take together.
THEOREM AnswersAreRight == Spec => SteadyCellIsRight
<1> DEFINE A == \A k \in Calls : Answers(k) /\ call[k].req.limit = 0 =>
                  \A c \in call[k].req.cells : steady[c] > Staleness /\ OfADay(k, c) =>
                    call'[k].cells[c] = IF Hot(k, c) THEN OverADay(c) ELSE NoEntry
<1>1. AgeInv /\ [Next]_vars => A
  <2> SUFFICES ASSUME AgeInv, [Next]_vars, NEW k \in Calls, Answers(k),
                      call[k].req.limit = 0, NEW c \in call[k].req.cells,
                      steady[c] > Staleness, OfADay(k, c)
               PROVE  call'[k].cells[c] = IF Hot(k, c) THEN OverADay(c) ELSE NoEntry
    OBVIOUS
  <2>1. Answer(k) /\ call[k].phase = "read" /\ c \in Cells
    BY OnlyAnswer, CallHasType DEF Answers, AgeInv
  <2>2. Limited(k) = {Hotspots(k)}
    BY DEF Limited
  <2>3. call'[k].cells[c] = IF c \in Hotspots(k) THEN Merged(k)[c] ELSE NoEntry
    BY <2>1, <2>2, AnswerIsLimited
  <2> QED BY <2>1, <2>3, MergedIsRight
<1> QED BY <1>1, AgeAlways, PTL DEF Spec, SteadyCellIsRight

\* A limit never drops a steady hot cell for a quieter one.
THEOREM LoudestAreKept == Spec => LimitKeepsLoudest
<1> DEFINE A == \A k \in Calls : Answers(k) =>
                  \A c \in call[k].req.cells, d \in Cells :
                    /\ steady[c] > Staleness /\ OfADay(k, c) /\ Hot(k, c)
                    /\ call'[k].cells[c] = NoEntry
                    /\ call'[k].cells[d] # NoEntry
                    => call'[k].cells[d].level >= table[c][Day]
<1>1. AgeInv /\ [Next]_vars => A
  <2> SUFFICES ASSUME AgeInv, [Next]_vars, NEW k \in Calls, Answers(k),
                      NEW c \in call[k].req.cells, NEW d \in Cells,
                      steady[c] > Staleness, OfADay(k, c), Hot(k, c),
                      call'[k].cells[c] = NoEntry, call'[k].cells[d] # NoEntry
               PROVE  call'[k].cells[d].level >= table[c][Day]
    OBVIOUS
  <2>1. Answer(k) /\ call[k].phase = "read" /\ c \in Cells
    BY OnlyAnswer, CallHasType DEF Answers, AgeInv
  <2>2. PICK S \in Limited(k) :
          \A e \in Cells : call'[k].cells[e] = IF e \in S THEN Merged(k)[e] ELSE NoEntry
    BY <2>1, AnswerIsLimited
  <2>3. c \in Hotspots(k) /\ Merged(k)[c] = OverADay(c)
    BY <2>1, MergedIsRight
  <2>4. c \notin S
    BY <2>1, <2>2, <2>3 DEF Hotspots
  <2>5. d \in S /\ call'[k].cells[d] = Merged(k)[d]
    BY <2>2
  <2>6. \A e \in S, f \in Hotspots(k) \ S : Merged(k)[e].level >= Merged(k)[f].level
    BY <2>2, <2>3, <2>4 DEF Limited
  <2>7. Merged(k)[d].level >= Merged(k)[c].level
    BY <2>3, <2>4, <2>5, <2>6
  <2> QED BY <2>3, <2>5, <2>7 DEF OverADay
<1> QED BY <1>1, AgeAlways, PTL DEF Spec, LimitKeepsLoudest
================================================================================
