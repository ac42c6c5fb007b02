------------------------- MODULE AnalysisViews_proofs --------------------------
(***************************************************************************)
(* Proofs about AnalysisViews, for any readings, batches, slots and limits.*)
(***************************************************************************)
EXTENDS AnalysisViews, FiniteSetTheorems, SequenceTheorems, TLAPS

Save == [todo : Seq(Readings), rows : SUBSET Row, of : Streams \union {"batch"}]
Todo == {<<>>} \union {<<r>> : r \in Readings}

\* The part of the type invariant that the properties below rest on.
RowsInv ==
  /\ results \subseteq Row /\ IsFiniteSet(results)
  /\ saves \subseteq Save /\ \A sv \in saves : IsFiniteSet(sv.rows)
  /\ stream \in [Streams -> [open : BOOLEAN, todo : Todo]]
  /\ status \in [Readings -> {"new", "received", "answered", "dropped"}]
  /\ now \in Times

LEMMA ThreeElements ==
  ASSUME NEW a, NEW b, NEW c, a # b, b # c, a # c, NEW T, T \subseteq {a, b, c}
  PROVE  1 + Cardinality(T) \in Levels
<1>1. IsFiniteSet({}) /\ Cardinality({}) = 0
  BY FS_EmptySet
<1>2. IsFiniteSet({} \union {a}) /\ Cardinality({} \union {a}) = 1
  BY <1>1, FS_AddElement
<1>3. IsFiniteSet({a} \union {b}) /\ Cardinality({a} \union {b}) = 2
  <2>1. {} \union {a} = {a} /\ b \notin {a}
    OBVIOUS
  <2> QED BY <1>2, <2>1, FS_AddElement
<1>4. IsFiniteSet({a, b} \union {c}) /\ Cardinality({a, b} \union {c}) = 3
  <2>1. {a} \union {b} = {a, b} /\ c \notin {a, b}
    OBVIOUS
  <2> QED BY <1>3, <2>1, FS_AddElement
<1>5. {a, b} \union {c} = {a, b, c}
  OBVIOUS
<1>6. Cardinality(T) <= 3 /\ IsFiniteSet(T)
  BY <1>4, <1>5, FS_Subset
<1>7. Cardinality(T) \in Nat
  BY <1>6, FS_CardinalityType
<1> QED BY <1>6, <1>7 DEF Levels

LEMMA ThreeBounds ==
  ASSUME NEW T, T \subseteq {40, 60, 80} \/ T \subseteq {25, 50, 75}
  PROVE  1 + Cardinality(T) \in Levels
<1>1. 40 # 60 /\ 60 # 80 /\ 40 # 80 /\ 25 # 50 /\ 50 # 75 /\ 25 # 75
  OBVIOUS
<1>2. CASE T \subseteq {40, 60, 80}
  BY <1>1, <1>2, ThreeElements, Zenon
<1>3. CASE T \subseteq {25, 50, 75}
  BY <1>1, <1>3, ThreeElements, Zenon
<1> QED BY <1>2, <1>3

LEMMA RowType ==
  ASSUME NEW r \in Readings, now \in Times
  PROVE  RowOf(r) \in Row
<1>1. CellOf[r] \in Cells
  BY DEF Cells
<1>2. Analyze(DecibelOf[r]) \in Levels
  BY ThreeBounds DEF Analyze
<1> QED BY <1>1, <1>2 DEF RowOf, Row

LEMMA RowsInit == Init => RowsInv
BY FS_EmptySet, AnalyzerAssumption DEF Init, AnalyzerInit, RowsInv, Idle, Todo, Times

\* What a goroutine has stamped and has yet to stamp does not change as it stamps.
LEMMA StampSave ==
  ASSUME NEW sv \in Save, sv.todo # <<>>, IsFiniteSet(sv.rows), now \in Times,
         NEW new, new = [sv EXCEPT !.todo = Tail(@), !.rows = @ \union {RowOf(Head(sv.todo))}]
  PROVE  /\ new \in Save /\ IsFiniteSet(new.rows)
         /\ Head(sv.todo) \in Readings
         /\ new.todo = Tail(sv.todo) /\ new.rows = sv.rows \union {RowOf(Head(sv.todo))}
<1>1. sv.todo \in Seq(Readings) /\ sv.rows \subseteq Row
  BY DEF Save
<1>2. Head(sv.todo) \in Readings /\ Tail(sv.todo) \in Seq(Readings)
  BY <1>1, HeadTailProperties
<1>3. RowOf(Head(sv.todo)) \in Row
  BY <1>2, RowType
<1>4. new.todo = Tail(sv.todo) /\ new.rows = sv.rows \union {RowOf(Head(sv.todo))}
  BY DEF Save
<1>5. new \in Save
  BY <1>1, <1>2, <1>3 DEF Save
<1>6. IsFiniteSet(new.rows)
  BY <1>4, FS_AddElement
<1> QED BY <1>2, <1>4, <1>5, <1>6

LEMMA NewSave ==
  ASSUME RowsInv, NEW todo, NEW of, [todo |-> todo, rows |-> {}, of |-> of] \in Save,
         saves' = saves \union {[todo |-> todo, rows |-> {}, of |-> of]}
  PROVE  saves' \subseteq Save /\ \A sv \in saves' : IsFiniteSet(sv.rows)
<1> DEFINE new == [todo |-> todo, rows |-> {}, of |-> of]
<1>1. IsFiniteSet(new.rows)
  BY FS_EmptySet
<1> HIDE DEF new
<1>2. saves' = saves \union {new} /\ new \in Save
  BY DEF new
<1> QED BY <1>1, <1>2 DEF RowsInv

LEMMA RowsStep == RowsInv /\ [Next]_vars => RowsInv'
<1> SUFFICES ASSUME RowsInv, [Next]_vars PROVE RowsInv'
  OBVIOUS
<1>1. ASSUME NEW s \in Streams, Open(s) \/ SendFails(s) \/ EndStream(s) PROVE RowsInv'
  <2>1. stream' \in [Streams -> [open : BOOLEAN, todo : Todo]]
    <3>1. CASE Open(s)
      BY <3>1 DEF Open, RowsInv
    <3>2. CASE SendFails(s) \/ EndStream(s)
      <4>1. stream' = [stream EXCEPT ![s] = Idle] /\ Idle \in [open : BOOLEAN, todo : Todo]
        BY <3>2 DEF SendFails, EndStream, Idle, Todo
      <4> QED BY <4>1 DEF RowsInv
    <3> QED BY <1>1, <3>1, <3>2
  <2>2. status' \in [Readings -> {"new", "received", "answered", "dropped"}]
    BY <1>1 DEF Open, SendFails, EndStream, RowsInv
  <2> QED BY <1>1, <2>1, <2>2 DEF Open, SendFails, EndStream, RowsInv
<1>2. ASSUME NEW s \in Streams, NEW r \in Readings, Recv(s, r) PROVE RowsInv'
  BY <1>2 DEF Recv, RowsInv, Todo
<1>3. ASSUME NEW s \in Streams, Send(s) PROVE RowsInv'
  <2>1. PICK r \in Readings : stream[s].todo = <<r>>
    BY <1>3 DEF Send, RowsInv, Todo
  <2>2. [todo |-> stream[s].todo, rows |-> {}, of |-> s] \in Save
    BY <2>1 DEF Save
  <2>3. saves' \subseteq Save /\ \A sv \in saves' : IsFiniteSet(sv.rows)
    BY <1>3, <2>2, NewSave DEF Send, RowsInv
  <2>4. stream' \in [Streams -> [open : BOOLEAN, todo : Todo]]
    BY <1>3 DEF Send, RowsInv, Todo
  <2> QED BY <1>3, <2>1, <2>3, <2>4 DEF Send, RowsInv
<1>4. ASSUME NEW b \in Batches, AnalyzeBatch(b) PROVE RowsInv'
  <2>1. [todo |-> b, rows |-> {}, of |-> "batch"] \in Save
    BY AnalyzerAssumption DEF Save
  <2>2. saves' \subseteq Save /\ \A sv \in saves' : IsFiniteSet(sv.rows)
    BY <1>4, <2>1, NewSave DEF AnalyzeBatch, RowsInv
  <2> QED BY <1>4, <2>2 DEF AnalyzeBatch, RowsInv
<1>5. ASSUME NEW sv \in saves, Stamp(sv) PROVE RowsInv'
  <2> DEFINE new == [sv EXCEPT !.todo = Tail(@), !.rows = @ \union {RowOf(Head(sv.todo))}]
  <2>1. new \in Save /\ IsFiniteSet(new.rows)
    BY <1>5, StampSave DEF Stamp, RowsInv
  <2>2. saves' \subseteq saves \union {new} /\ UNCHANGED <<results, now, stream, status>>
    BY <1>5 DEF Stamp
  <2> HIDE DEF new
  <2> QED BY <2>1, <2>2 DEF RowsInv
<1>6. ASSUME NEW sv \in saves, Commit(sv) PROVE RowsInv'
  <2>1. results' \subseteq Row /\ IsFiniteSet(results')
    BY <1>6, FS_Union DEF Commit, RowsInv, Save
  <2> QED BY <1>6, <2>1 DEF Commit, RowsInv
<1>7. ASSUME NEW sv \in saves, SaveFails(sv) PROVE RowsInv'
  <2>1. results \union sv.rows \subseteq Row /\ IsFiniteSet(results \union sv.rows)
    BY FS_Union DEF RowsInv, Save
  <2>2. results' \subseteq Row /\ IsFiniteSet(results')
    BY <1>7, <2>1 DEF SaveFails, RowsInv
  <2> QED BY <1>7, <2>2 DEF SaveFails, RowsInv
<1>8. ASSUME Down PROVE RowsInv'
  BY <1>8 DEF Down, RowsInv, Idle, Todo
<1>a. ASSUME NEW all \in batches, BatchReturns(all) PROVE RowsInv'
  BY <1>a DEF BatchReturns, RowsInv
<1>9. CASE Restart \/ Tick
  BY <1>9, AnalyzerAssumption DEF Restart, Tick, RowsInv, Times
<1>10. CASE UNCHANGED <<results, now, stream, saves, status>>
  BY <1>10 DEF RowsInv
<1>11. ASSUME NEW z \in Zones, NEW c \in Cells, ZoneUpdate(z) \/ Unwatch(z) \/ Watch(z, c)
       PROVE  RowsInv'
  BY <1>10, <1>11 DEF ZoneUpdate, Unwatch, Watch
<1>12. ASSUME NEW z \in Zones, ZoneUpdate(z) \/ Unwatch(z) PROVE RowsInv'
  BY <1>10, <1>12 DEF ZoneUpdate, Unwatch
<1>13. CASE ViewsNext /\ UNCHANGED analyzerVars
  BY <1>10, <1>13 DEF analyzerVars
<1>14. CASE UNCHANGED vars
  BY <1>10, <1>14 DEF vars, analyzerVars
<1> QED
  BY <1>1, <1>2, <1>3, <1>4, <1>5, <1>6, <1>7, <1>8, <1>a, <1>9, <1>11, <1>12, <1>13, <1>14
  DEF Next, AnalyzerNext, Crash, Panic

LEMMA RowsAlways == Spec => []RowsInv
BY RowsInit, RowsStep, PTL DEF Spec

-------------------------------------------------------------------------------
(* What becomes of a reading *)

Ran(q) == {q[i] : i \in DOMAIN q}
Stamped(sv) == {x.reading : x \in sv.rows}

\* A goroutine has stamped a reading or has yet to do so, and has each one once.
OnceEach(sv) ==
  /\ \A x, y \in sv.rows : x.reading = y.reading => x = y
  /\ \A i, j \in DOMAIN sv.todo : sv.todo[i] = sv.todo[j] => i = j
  /\ Stamped(sv) \cap Ran(sv.todo) = {}

\* Whatever is saved was answered before, or came in a batch.
Due(r) == status[r] = "answered" \/ r \in UNION batches

\* A reading that is due is in one goroutine or in the table, once.
SavesInv ==
  /\ SavedIsAnswered
  /\ \A sv \in saves : OnceEach(sv) /\ SavedBy(sv) \cap Saved = {}
  /\ \A sv, tv \in saves : sv = tv \/ SavedBy(sv) \cap SavedBy(tv) = {}

\* A reading that is about to be answered is in one stream, and in no batch.
StreamsInv ==
  /\ \A s \in Streams : stream[s].todo # <<>> =>
       status[Head(stream[s].todo)] = "received" /\ Head(stream[s].todo) \notin UNION batches
  /\ \A s, t \in Streams : stream[s].todo # <<>> /\ stream[s].todo = stream[t].todo => s = t

\* The goroutine that has one reading of a batch has all of them.
BatchInv ==
  /\ BatchIsWhole
  /\ \A b \in batches, sv \in saves : b = SavedBy(sv) \/ b \cap SavedBy(sv) = {}
  /\ \A b \in batches : \A r \in b : r \in Readings /\ status[r] # "new"

LEMMA SavedByParts ==
  ASSUME NEW sv
  PROVE  SavedBy(sv) = Stamped(sv) \union Ran(sv.todo)
BY DEF SavedBy, Stamped, Ran

LEMMA TailRan ==
  ASSUME NEW q \in Seq(Readings), q # <<>>,
         \A i, j \in DOMAIN q : q[i] = q[j] => i = j
  PROVE  /\ Ran(q) = {Head(q)} \union Ran(Tail(q))
         /\ Head(q) \notin Ran(Tail(q))
         /\ \A i, j \in DOMAIN Tail(q) : Tail(q)[i] = Tail(q)[j] => i = j
<1>1. /\ Len(q) \in Nat \ {0} /\ DOMAIN q = 1..Len(q)
      /\ Head(q) = q[1] /\ Len(Tail(q)) = Len(q) - 1
      /\ DOMAIN Tail(q) = 1..Len(q) - 1
      /\ \A i \in 1..Len(q) - 1 : Tail(q)[i] = q[i + 1]
  BY HeadTailProperties, EmptySeq, LenProperties
<1>2. \A i, j \in DOMAIN Tail(q) : Tail(q)[i] = Tail(q)[j] => i = j
  BY <1>1
<1>3. Head(q) \notin Ran(Tail(q))
  BY <1>1 DEF Ran
<1>4. Ran(q) \subseteq {Head(q)} \union Ran(Tail(q))
  <2> SUFFICES ASSUME NEW i \in 1..Len(q), i # 1
               PROVE  \E j \in DOMAIN Tail(q) : q[i] = Tail(q)[j]
    BY <1>1 DEF Ran
  <2> QED BY <1>1, i - 1 \in 1..Len(q) - 1, (i - 1) + 1 = i
<1>5. {Head(q)} \union Ran(Tail(q)) \subseteq Ran(q)
  BY <1>1 DEF Ran
<1> QED BY <1>2, <1>3, <1>4, <1>5

\* Stamping keeps what a goroutine is to save.
LEMMA StampKeeps ==
  ASSUME RowsInv, NEW sv \in saves, OnceEach(sv), sv.todo # <<>>,
         NEW new, new = [sv EXCEPT !.todo = Tail(@), !.rows = @ \union {RowOf(Head(sv.todo))}]
  PROVE  OnceEach(new) /\ SavedBy(new) = SavedBy(sv)
<1>1. sv \in Save /\ sv.todo \in Seq(Readings)
  BY DEF RowsInv, Save
<1> DEFINE h == Head(sv.todo)
<1>2. new.todo = Tail(sv.todo) /\ new.rows = sv.rows \union {RowOf(h)}
  BY <1>1, StampSave DEF RowsInv
<1>3. /\ Ran(sv.todo) = {h} \union Ran(Tail(sv.todo)) /\ h \notin Ran(Tail(sv.todo))
      /\ \A i, j \in DOMAIN Tail(sv.todo) : Tail(sv.todo)[i] = Tail(sv.todo)[j] => i = j
  BY <1>1, TailRan DEF OnceEach
<1>4. RowOf(h).reading = h
  BY DEF RowOf
<1> HIDE DEF h
<1>5. Stamped(new) = Stamped(sv) \union {h}
  BY <1>2, <1>4 DEF Stamped
<1>6. h \notin Stamped(sv)
  BY <1>3 DEF OnceEach
<1>7. \A x, y \in new.rows : x.reading = y.reading => x = y
  BY <1>2, <1>4, <1>6 DEF OnceEach, Stamped
<1>8. SavedBy(new) = SavedBy(sv)
  BY <1>2, <1>3, <1>5, SavedByParts
<1>9. Stamped(new) \cap Ran(new.todo) = {}
  BY <1>2, <1>3, <1>5 DEF OnceEach
<1> QED BY <1>2, <1>3, <1>7, <1>8, <1>9 DEF OnceEach

\* What is in a goroutine or in the table is a reading that is due.
LEMMA DueFacts ==
  ASSUME RowsInv, SavesInv
  PROVE  /\ \A r \in Saved : r \in Readings /\ Due(r)
         /\ \A sv \in saves : \A r \in SavedBy(sv) : r \in Readings /\ Due(r)
<1>1. \A r \in Saved : r \in Readings
  BY DEF Saved, RowsInv, Row
<1>2. ASSUME NEW sv \in saves, NEW r \in SavedBy(sv) PROVE r \in Readings
  <2>1. sv.rows \subseteq Row /\ sv.todo \in Seq(Readings)
    BY DEF RowsInv, Save
  <2>2. Stamped(sv) \subseteq Readings
    BY <2>1 DEF Stamped, Row
  <2>3. Ran(sv.todo) \subseteq Readings
    BY <2>1 DEF Ran
  <2> QED BY <2>2, <2>3, SavedByParts
<1> QED BY <1>1, <1>2 DEF SavesInv, SavedIsAnswered, Due

\* Nothing starts and nothing is stored: goroutines may end.
LEMMA SavesKept ==
  ASSUME RowsInv, SavesInv, saves' \subseteq saves, results' = results,
         \A r \in Readings : Due(r) => Due(r)'
  PROVE  SavesInv'
<1>1. Saved' = Saved
  BY DEF Saved
<1>2. \A r \in Saved \union UNION {SavedBy(sv) : sv \in saves'} : Due(r)'
  BY <1>1, DueFacts
<1>3. SavedIsAnswered'
  BY <1>2 DEF SavedIsAnswered, SavesInv, Saved, SavedBy, Due
<1>4. \A sv \in saves' : OnceEach(sv) /\ SavedBy(sv) \cap Saved' = {}
  BY <1>1 DEF SavesInv
<1>5. \A sv, tv \in saves' : sv = tv \/ SavedBy(sv) \cap SavedBy(tv) = {}
  BY DEF SavesInv
<1> QED BY <1>3, <1>4, <1>5 DEF SavesInv, OnceEach, Stamped, Ran, SavedBy

\* A goroutine starts with readings that nobody else has.
LEMMA SavesNew ==
  ASSUME RowsInv, SavesInv, NEW new, saves' = saves \union {new}, results' = results,
         OnceEach(new), \A r \in SavedBy(new) : ~Due(r) /\ Due(r)',
         \A r \in Readings : Due(r) => Due(r)'
  PROVE  SavesInv'
<1>1. Saved' = Saved
  BY DEF Saved
<1>2. \A r \in Saved \union UNION {SavedBy(sv) : sv \in saves'} : Due(r)'
  BY <1>1, DueFacts
<1>3. SavedIsAnswered'
  BY <1>2 DEF SavedIsAnswered, SavesInv, Saved, SavedBy, Due
<1>4. \A sv \in saves' : OnceEach(sv) /\ SavedBy(sv) \cap Saved' = {}
  BY <1>1, DueFacts DEF SavesInv
<1>5. \A sv, tv \in saves' : sv = tv \/ SavedBy(sv) \cap SavedBy(tv) = {}
  BY DueFacts DEF SavesInv
<1> QED BY <1>3, <1>4, <1>5 DEF SavesInv, OnceEach, Stamped, Ran, SavedBy

LEMMA OwnersInit == Init => SavesInv /\ StreamsInv /\ BatchInv
BY DEF Init, AnalyzerInit, SavesInv, StreamsInv, BatchInv, SavedIsAnswered, BatchIsWhole, Saved, Idle

OwnersInv == SavesInv /\ StreamsInv /\ BatchInv

LEMMA OwnersSend == ASSUME RowsInv, OwnersInv, NEW s \in Streams, Send(s) PROVE OwnersInv'
<1>1. PICK r \in Readings : stream[s].todo = <<r>>
  BY DEF Send, RowsInv, Todo
<1> DEFINE new == [todo |-> <<r>>, rows |-> {}, of |-> s]
<1>2. /\ saves' = saves \union {new} /\ UNCHANGED <<results, batches>>
      /\ status' = [status EXCEPT ![r] = "answered"]
      /\ stream' = [stream EXCEPT ![s].todo = <<>>]
  BY <1>1 DEF Send
<1>3. Stamped(new) = {} /\ Ran(new.todo) = {r} /\ OnceEach(new)
  BY DEF Stamped, Ran, OnceEach
<1>4. SavedBy(new) = {r}
  BY <1>3, SavedByParts
<1> HIDE DEF new
<1>5. status[r] = "received" /\ r \notin UNION batches
  BY <1>1 DEF OwnersInv, StreamsInv
<1>6. \A q \in Readings : status'[q] = IF q = r THEN "answered" ELSE status[q]
  BY <1>2 DEF RowsInv
<1>a. ~Due(r) /\ Due(r)' /\ \A q \in Readings : Due(q) => Due(q)'
  BY <1>2, <1>5, <1>6 DEF Due
<1>7. SavesInv'
  BY <1>2, <1>3, <1>4, <1>a, SavesNew DEF OwnersInv
<1>8. StreamsInv'
  <2>1. \A t \in Streams : t # s => stream'[t] = stream[t]
    BY <1>2 DEF RowsInv
  <2>2. stream'[s].todo = <<>>
    BY <1>2 DEF RowsInv
  <2>3. ASSUME NEW t \in Streams, stream'[t].todo # <<>>
        PROVE  /\ status'[Head(stream'[t].todo)] = "received"
               /\ Head(stream'[t].todo) \notin UNION batches'
    <3>1. t # s /\ stream'[t] = stream[t]
      BY <2>1, <2>2, <2>3
    <3>2. PICK q \in Readings : stream[t].todo = <<q>>
      BY <2>3, <3>1 DEF RowsInv, Todo
    <3>3. q # r
      <4>1. stream[t].todo # <<>> /\ t # s
        BY <2>3, <3>1
      <4>2. stream[t].todo # stream[s].todo
        BY <4>1 DEF OwnersInv, StreamsInv
      <4> QED BY <1>1, <3>2, <4>2
    <3>4. status[q] = "received" /\ q \notin UNION batches
      BY <3>2 DEF OwnersInv, StreamsInv
    <3> QED BY <1>2, <1>6, <3>1, <3>2, <3>3, <3>4
  <2>4. \A t, u \in Streams : stream'[t].todo # <<>> /\ stream'[t].todo = stream'[u].todo => t = u
    BY <2>1, <2>2 DEF OwnersInv, StreamsInv
  <2> QED BY <2>3, <2>4 DEF StreamsInv
<1>9. BatchInv'
  <2>1. BatchIsWhole'
    BY <1>2 DEF OwnersInv, BatchInv, BatchIsWhole, Saved
  <2>2. \A b \in batches, sv \in saves' : b = SavedBy(sv) \/ b \cap SavedBy(sv) = {}
    BY <1>2, <1>4, <1>5 DEF OwnersInv, BatchInv
  <2>3. \A b \in batches : \A q \in b : q \in Readings /\ status'[q] # "new"
    BY <1>6 DEF OwnersInv, BatchInv
  <2> QED BY <1>2, <2>1, <2>2, <2>3 DEF BatchInv, SavedBy
<1> QED BY <1>7, <1>8, <1>9 DEF OwnersInv

LEMMA OwnersBatch == ASSUME RowsInv, OwnersInv, NEW b \in Batches, AnalyzeBatch(b) PROVE OwnersInv'
<1> DEFINE all == Ran(b)
<1> DEFINE new == [todo |-> b, rows |-> {}, of |-> "batch"]
<1>1. /\ saves' = saves \union {new} /\ UNCHANGED <<results, stream>>
      /\ batches' = batches \union {all}
      /\ status' = [r \in Readings |-> IF r \in all THEN "received" ELSE status[r]]
      /\ \A r \in all : status[r] = "new"
  BY DEF AnalyzeBatch, Ran
<1>2. all \subseteq Readings
  BY AnalyzerAssumption DEF Ran
<1>3. Stamped(new) = {} /\ Ran(new.todo) = all
  BY DEF Stamped
<1>4. OnceEach(new)
  BY <1>3, AnalyzerAssumption DEF OnceEach
<1>5. SavedBy(new) = all
  BY <1>3, SavedByParts
<1> HIDE DEF new, all
<1>a. \A r \in all : ~Due(r) /\ Due(r)'
  <2>1. \A r \in all : r \notin UNION batches
    BY <1>1 DEF OwnersInv, BatchInv
  <2> QED BY <1>1, <2>1 DEF Due
<1>b. \A r \in Readings : Due(r) => Due(r)'
  BY <1>1, <1>a DEF Due
<1>6. SavesInv'
  BY <1>1, <1>4, <1>5, <1>a, <1>b, SavesNew DEF OwnersInv
<1>7. StreamsInv'
  <2>1. ASSUME NEW t \in Streams, stream[t].todo # <<>>
        PROVE  /\ status'[Head(stream[t].todo)] = "received"
               /\ Head(stream[t].todo) \notin UNION batches'
    <3>1. PICK q \in Readings : stream[t].todo = <<q>>
      BY <2>1 DEF RowsInv, Todo
    <3>2. status[q] = "received" /\ q \notin UNION batches
      BY <3>1 DEF OwnersInv, StreamsInv
    <3>3. q \notin all
      BY <1>1, <3>2
    <3> QED BY <1>1, <3>1, <3>2, <3>3
  <2> QED BY <1>1, <2>1 DEF OwnersInv, StreamsInv
<1>8. BatchInv'
  <2>1. all \cap Saved = {} /\ \A sv \in saves : all \cap SavedBy(sv) = {}
    BY <1>a, DueFacts DEF OwnersInv
  <2>2. BatchIsWhole'
    BY <1>1, <2>1 DEF OwnersInv, BatchInv, BatchIsWhole, Saved
  <2>3. \A c \in batches : c \cap all = {}
    BY <1>1 DEF OwnersInv, BatchInv
  <2>4. \A c \in batches', sv \in saves' : c = SavedBy(sv) \/ c \cap SavedBy(sv) = {}
    BY <1>1, <1>5, <2>1, <2>3 DEF OwnersInv, BatchInv
  <2>5. \A c \in batches : \A q \in c : q \in Readings /\ status'[q] # "new"
    BY <1>1 DEF OwnersInv, BatchInv
  <2>6. \A c \in batches' : \A q \in c : q \in Readings /\ status'[q] # "new"
    BY <1>1, <1>2, <2>5
  <2> QED BY <2>2, <2>4, <2>6 DEF BatchInv, SavedBy
<1> QED BY <1>6, <1>7, <1>8 DEF OwnersInv

\* The response of a batch says nothing about streams, goroutines and the table.
LEMMA OwnersReturn ==
  ASSUME RowsInv, OwnersInv, NEW all \in batches, BatchReturns(all)
  PROVE  OwnersInv'
<1>1. UNCHANGED <<results, stream, saves, batches>>
  BY DEF BatchReturns
<1>2. \A r \in Readings : status'[r] = status[r] \/ (r \in all /\ status'[r] \in {"answered", "dropped"})
  BY DEF BatchReturns
<1>3. SavesInv'
  <2>1. \A r \in Readings : Due(r) => Due(r)'
    BY <1>1, <1>2 DEF Due
  <2> QED BY <1>1, <2>1, SavesKept DEF OwnersInv
<1>4. StreamsInv'
  <2>1. ASSUME NEW t \in Streams, stream[t].todo # <<>>
        PROVE  status'[Head(stream[t].todo)] = "received"
    <3>1. PICK q \in Readings : stream[t].todo = <<q>>
      BY <2>1 DEF RowsInv, Todo
    <3>2. status[q] = "received" /\ q \notin UNION batches
      BY <3>1 DEF OwnersInv, StreamsInv
    <3> QED BY <1>2, <3>1, <3>2
  <2> QED BY <1>1, <2>1 DEF OwnersInv, StreamsInv
<1>5. BatchInv'
  <2>1. \A b \in batches : \A r \in b : r \in Readings /\ status'[r] # "new"
    BY <1>2 DEF OwnersInv, BatchInv
  <2> QED BY <1>1, <2>1 DEF OwnersInv, BatchInv, BatchIsWhole, Saved, SavedBy
<1> QED BY <1>3, <1>4, <1>5 DEF OwnersInv

LEMMA OwnersStamp == ASSUME RowsInv, OwnersInv, NEW sv \in saves, Stamp(sv) PROVE OwnersInv'
<1> DEFINE new == [sv EXCEPT !.todo = Tail(@), !.rows = @ \union {RowOf(Head(sv.todo))}]
<1>1. saves' = (saves \ {sv}) \union {new} /\ UNCHANGED <<results, stream, status, batches>>
  BY DEF Stamp
<1>2. OnceEach(new) /\ SavedBy(new) = SavedBy(sv)
  BY StampKeeps DEF Stamp, OwnersInv, SavesInv
<1> HIDE DEF new
<1>3. Saved' = Saved
  BY <1>1 DEF Saved
<1>4. SavedIsAnswered'
  <2>1. \A r \in Saved \union UNION {SavedBy(tv) : tv \in saves'} : Due(r)'
    BY <1>1, <1>2, DueFacts DEF OwnersInv, Due
  <2> QED BY <1>1, <2>1 DEF SavedIsAnswered, OwnersInv, SavesInv, Saved, SavedBy, Due
<1>5. \A tv \in saves' : OnceEach(tv) /\ SavedBy(tv) \cap Saved' = {}
  BY <1>1, <1>2, <1>3 DEF OwnersInv, SavesInv
<1>6. \A tv, uv \in saves' : tv = uv \/ SavedBy(tv) \cap SavedBy(uv) = {}
  BY <1>1, <1>2 DEF OwnersInv, SavesInv
<1>7. SavesInv'
  BY <1>4, <1>5, <1>6 DEF SavesInv, OnceEach, Stamped, Ran, SavedBy
<1>8. \A b \in batches, tv \in saves' : b = SavedBy(tv) \/ b \cap SavedBy(tv) = {}
  BY <1>1, <1>2 DEF OwnersInv, BatchInv
<1>9. BatchInv'
  BY <1>1, <1>8 DEF OwnersInv, BatchInv, BatchIsWhole, Saved, SavedBy
<1> QED BY <1>1, <1>7, <1>9 DEF OwnersInv, StreamsInv

\* The rows of a goroutine are stored, whether it is told or not.
LEMMA OwnersCommit ==
  ASSUME RowsInv, OwnersInv, NEW sv \in saves, sv.todo = <<>>,
         results' = results \union sv.rows, saves' = saves \ {sv},
         UNCHANGED <<stream, status, batches>>
  PROVE  OwnersInv'
<1>1. /\ sv.todo = <<>> /\ results' = results \union sv.rows /\ saves' = saves \ {sv}
      /\ UNCHANGED <<stream, status, batches>>
  OBVIOUS
<1>2. SavedBy(sv) = Stamped(sv)
  <2>1. Ran(<<>>) = {}
    BY DEF Ran
  <2> QED BY <1>1, <2>1, SavedByParts
<1>3. Saved' = Saved \union Stamped(sv)
  BY <1>1 DEF Saved, Stamped
<1>4. OnceEach(sv) /\ SavedBy(sv) \cap Saved = {}
  BY DEF OwnersInv, SavesInv
<1>5. SavedIsAnswered'
  <2>1. \A r \in Saved' \union UNION {SavedBy(tv) : tv \in saves'} : Due(r)'
    BY <1>1, <1>2, <1>3, DueFacts DEF OwnersInv, Due
  <2>2. \A x, y \in results' : x.reading = y.reading => x = y
    <3>1. \A x \in results : x.reading \in Saved
      BY DEF Saved
    <3>2. \A x \in sv.rows : x.reading \in Stamped(sv)
      BY DEF Stamped
    <3> QED BY <1>1, <1>2, <1>4, <3>1, <3>2 DEF OwnersInv, SavesInv, SavedIsAnswered, OnceEach
  <2> QED BY <2>1, <2>2 DEF SavedIsAnswered, SavedBy, Due
<1>6. \A tv \in saves' : OnceEach(tv) /\ SavedBy(tv) \cap Saved' = {}
  BY <1>1, <1>2, <1>3 DEF OwnersInv, SavesInv
<1>a. \A tv, uv \in saves' : tv = uv \/ SavedBy(tv) \cap SavedBy(uv) = {}
  BY <1>1 DEF OwnersInv, SavesInv
<1>7. SavesInv'
  BY <1>5, <1>6, <1>a DEF SavesInv, OnceEach, Stamped, Ran, SavedBy
<1>8. \A b \in batches : b \subseteq Saved' \/ b \cap Saved' = {}
  BY <1>2, <1>3, <1>4 DEF OwnersInv, BatchInv, BatchIsWhole
<1>9. BatchInv'
  BY <1>1, <1>8 DEF OwnersInv, BatchInv, BatchIsWhole, SavedBy
<1> QED BY <1>1, <1>7, <1>9 DEF OwnersInv, StreamsInv

LEMMA OwnersQuiet ==
  ASSUME RowsInv, OwnersInv, saves' \subseteq saves, UNCHANGED <<results, status, batches>>,
         \A s \in Streams : stream'[s].todo = stream[s].todo \/ stream'[s].todo = <<>>
  PROVE  OwnersInv'
<1>1. SavesInv'
  <2>1. \A r \in Readings : Due(r) => Due(r)'
    BY DEF Due
  <2> QED BY <2>1, SavesKept DEF OwnersInv
<1>2. StreamsInv'
  BY DEF OwnersInv, StreamsInv
<1>3. BatchInv'
  BY DEF OwnersInv, BatchInv, BatchIsWhole, Saved, SavedBy
<1> QED BY <1>1, <1>2, <1>3 DEF OwnersInv

\* A reading comes in, or cannot be answered; goroutines may end.
LEMMA OwnersStatus ==
  ASSUME RowsInv, OwnersInv, saves' \subseteq saves, UNCHANGED <<results, batches>>,
         \A r \in Readings : /\ status[r] = "answered" => status'[r] = "answered"
                             /\ status[r] # "new" => status'[r] # "new",
         StreamsInv'
  PROVE  OwnersInv'
<1>1. SavesInv'
  <2>1. \A r \in Readings : Due(r) => Due(r)'
    BY DEF Due
  <2> QED BY <2>1, SavesKept DEF OwnersInv
<1>2. BatchInv'
  <2>1. \A b \in batches : \A r \in b : r \in Readings /\ status'[r] # "new"
    BY DEF OwnersInv, BatchInv
  <2> QED BY <2>1 DEF OwnersInv, BatchInv, BatchIsWhole, Saved, SavedBy
<1> QED BY <1>1, <1>2 DEF OwnersInv

LEMMA OwnersRecv ==
  ASSUME RowsInv, OwnersInv, NEW s \in Streams, NEW r \in Readings, Recv(s, r)
  PROVE  OwnersInv'
<1>1. /\ stream' = [stream EXCEPT ![s].todo = <<r>>] /\ status[r] = "new"
      /\ status' = [status EXCEPT ![r] = "received"] /\ UNCHANGED <<saves, results, batches>>
  BY DEF Recv
<1>2. \A q \in Readings : status'[q] = IF q = r THEN "received" ELSE status[q]
  BY <1>1 DEF RowsInv
<1>3. stream'[s].todo = <<r>> /\ \A t \in Streams : t # s => stream'[t] = stream[t]
  BY <1>1 DEF RowsInv
<1>4. ASSUME NEW t \in Streams, t # s, stream[t].todo # <<>>
      PROVE  /\ stream[t].todo # <<r>> /\ status'[Head(stream[t].todo)] = "received"
             /\ Head(stream[t].todo) \notin UNION batches
  <2>1. PICK q \in Readings : stream[t].todo = <<q>>
    BY <1>4 DEF RowsInv, Todo
  <2>2. status[q] = "received" /\ q \notin UNION batches
    BY <2>1 DEF OwnersInv, StreamsInv
  <2> QED BY <1>1, <1>2, <2>1, <2>2
<1>a. r \notin UNION batches
  BY <1>1 DEF OwnersInv, BatchInv
<1>5. StreamsInv'
  <2>1. \A t \in Streams : stream'[t].todo # <<>> =>
          /\ status'[Head(stream'[t].todo)] = "received"
          /\ Head(stream'[t].todo) \notin UNION batches'
    <3>1. Head(<<r>>) = r
      OBVIOUS
    <3> QED BY <1>1, <1>2, <1>3, <1>4, <1>a, <3>1
  <2>2. \A t, u \in Streams : stream'[t].todo # <<>> /\ stream'[t].todo = stream'[u].todo => t = u
    BY <1>3, <1>4 DEF OwnersInv, StreamsInv
  <2> QED BY <2>1, <2>2 DEF StreamsInv
<1> QED BY <1>1, <1>2, <1>5, OwnersStatus

LEMMA OwnersDrop == ASSUME RowsInv, OwnersInv, NEW s \in Streams, SendFails(s) PROVE OwnersInv'
<1>1. PICK r \in Readings : stream[s].todo = <<r>>
  BY DEF SendFails, RowsInv, Todo
<1>2. /\ stream' = [stream EXCEPT ![s] = Idle] /\ UNCHANGED <<saves, results, batches>>
      /\ status' = [status EXCEPT ![r] = "dropped"]
  BY <1>1 DEF SendFails
<1>3. status[r] = "received"
  BY <1>1 DEF OwnersInv, StreamsInv
<1>4. \A q \in Readings : status'[q] = IF q = r THEN "dropped" ELSE status[q]
  BY <1>2 DEF RowsInv
<1>5. stream'[s].todo = <<>> /\ \A t \in Streams : t # s => stream'[t] = stream[t]
  BY <1>2 DEF RowsInv, Idle
<1>6. ASSUME NEW t \in Streams, t # s, stream[t].todo # <<>>
      PROVE  /\ status'[Head(stream[t].todo)] = "received"
             /\ Head(stream[t].todo) \notin UNION batches
  <2>1. PICK q \in Readings : stream[t].todo = <<q>>
    BY <1>6 DEF RowsInv, Todo
  <2>2. status[q] = "received" /\ q \notin UNION batches
    BY <2>1 DEF OwnersInv, StreamsInv
  <2>3. stream[t].todo # stream[s].todo
    BY <1>6 DEF OwnersInv, StreamsInv
  <2> QED BY <1>1, <1>4, <2>1, <2>2, <2>3
<1>7. StreamsInv'
  BY <1>2, <1>5, <1>6 DEF OwnersInv, StreamsInv
<1> QED BY <1>2, <1>3, <1>4, <1>7, OwnersStatus

LEMMA OwnersStep == RowsInv /\ OwnersInv /\ [Next]_vars => OwnersInv'
<1> SUFFICES ASSUME RowsInv, OwnersInv, [Next]_vars PROVE OwnersInv'
  OBVIOUS
<1>1. ASSUME NEW s \in Streams, Open(s) \/ EndStream(s) PROVE OwnersInv'
  <2>1. \A t \in Streams : stream'[t].todo = stream[t].todo \/ stream'[t].todo = <<>>
    BY <1>1 DEF Open, EndStream, RowsInv, Idle
  <2> QED BY <1>1, <2>1, OwnersQuiet DEF Open, EndStream
<1>2. ASSUME NEW sv \in saves, SaveFails(sv) PROVE OwnersInv'
  <2>1. /\ sv.todo = <<>> /\ saves' = saves \ {sv} /\ UNCHANGED <<stream, status, batches>>
        /\ results' = results \/ results' = results \union sv.rows
    BY <1>2 DEF SaveFails
  <2> QED BY <2>1, OwnersQuiet, OwnersCommit
<1>3. ASSUME Down PROVE OwnersInv'
  <2>1. /\ saves' = {} /\ UNCHANGED <<results, batches>>
        /\ \A r \in Readings : /\ status[r] = "answered" => status'[r] = "answered"
                               /\ status[r] # "new" => status'[r] # "new"
    BY <1>3 DEF Down
  <2>2. StreamsInv'
    BY <1>3 DEF Down, StreamsInv, Idle
  <2> QED BY <2>1, <2>2, OwnersStatus
<1>a. ASSUME NEW sv \in saves, Commit(sv) PROVE OwnersInv'
  BY <1>a, OwnersCommit DEF Commit
<1>4. CASE UNCHANGED <<results, saves, stream, status, batches>>
  BY <1>4, OwnersQuiet
<1>5. CASE Restart \/ Tick
  BY <1>4, <1>5 DEF Restart, Tick
<1>6. ASSUME NEW z \in Zones, ZoneUpdate(z) \/ Unwatch(z) PROVE OwnersInv'
  BY <1>4, <1>6 DEF ZoneUpdate, Unwatch
<1>7. ASSUME NEW z \in Zones, NEW c \in Cells, Watch(z, c) PROVE OwnersInv'
  BY <1>4, <1>7 DEF Watch
<1>8. CASE (ViewsNext /\ UNCHANGED analyzerVars) \/ UNCHANGED vars
  BY <1>4, <1>8 DEF analyzerVars, vars
<1> QED
  BY <1>1, <1>2, <1>3, <1>5, <1>6, <1>7, <1>8, <1>a, OwnersSend, OwnersBatch, OwnersReturn,
     OwnersStamp, OwnersRecv, OwnersDrop
  DEF Next, AnalyzerNext, Crash, Panic

LEMMA OwnersAlways == Spec => []OwnersInv
<1>1. Init => OwnersInv
  BY OwnersInit DEF OwnersInv
<1> QED BY <1>1, OwnersStep, RowsAlways, PTL DEF Spec

\* Whatever goroutines overtake each other, fail or die with the process: what is
\* stored was answered or came in a batch, and it is stored once.
THEOREM StoredWasAnswered == Spec => []SavedIsAnswered
<1>1. OwnersInv => SavedIsAnswered
  BY DEF OwnersInv, SavesInv
<1> QED BY <1>1, OwnersAlways, PTL

\* Of a batch that was accepted, all readings are stored or none.
THEOREM BatchesAreWhole == Spec => []BatchIsWhole
<1>1. OwnersInv => BatchIsWhole
  BY DEF OwnersInv, BatchInv
<1> QED BY <1>1, OwnersAlways, PTL

-------------------------------------------------------------------------------
(* The types of the rest *)

RestType ==
  /\ up \in BOOLEAN /\ pool \in Pools
  /\ lost \subseteq Readings /\ batches \subseteq SUBSET Readings

ZoneType == zone \in [Zones -> [open : BOOLEAN, cell : Cells, seen : View \union {NoView}]]

FollowType ==
  follow \in [Followers -> [open : BOOLEAN, queue : SUBSET Row,
                           seen : [Cells -> Times \union {Unseen}]]]

ReportType ==
  /\ report \in [sending : BOOLEAN, zones : Seq(Cells), sent : Nat, chunk : Seq(Cells)]
  /\ report.sent <= Len(report.zones) /\ report.chunk \in {<<>>, report.zones}

TypeInv == RowsInv /\ RestType /\ ZoneType /\ FollowType /\ ReportType

LEMMA TypeInvImplies == TypeInv => TypeOK
BY DEF TypeInv, RowsInv, RestType, ZoneType, FollowType, ReportType, TypeOK, AnalyzerTypeOK,
   Save, Todo

LEMMA ClosedType == Closed \in [open : BOOLEAN, cell : Cells, seen : View \union {NoView}]
<1>1. PICK r \in Readings : TRUE
  BY AnalyzerAssumption
<1>2. CellOf[r] \in Cells
  BY DEF Cells
<1>3. (CHOOSE c \in Cells : TRUE) \in Cells
  BY <1>2
<1> QED BY <1>3 DEF Closed

LEMMA RestStep == RowsInv /\ RestType /\ [Next]_vars => RestType'
<1> SUFFICES ASSUME RowsInv, RestType, [Next]_vars PROVE RestType'
  OBVIOUS
<1>1. ASSUME NEW sv \in saves PROVE SavedBy(sv) \subseteq Readings
  <2>1. sv.rows \subseteq Row /\ sv.todo \in Seq(Readings)
    BY DEF RowsInv, Save
  <2>2. Stamped(sv) \subseteq Readings /\ Ran(sv.todo) \subseteq Readings
    BY <2>1 DEF Stamped, Ran, Row
  <2> QED BY <2>2, SavedByParts
<1>2. ASSUME NEW s \in Streams, Open(s) \/ Send(s) \/ SendFails(s) \/ EndStream(s) PROVE RestType'
  BY <1>2 DEF Open, Send, SendFails, EndStream, RestType
<1>3. ASSUME NEW s \in Streams, NEW r \in Readings, Recv(s, r) PROVE RestType'
  BY <1>3 DEF Recv, RestType
<1>4. ASSUME NEW b \in Batches, AnalyzeBatch(b) PROVE RestType'
  <2>1. {b[i] : i \in DOMAIN b} \subseteq Readings
    BY AnalyzerAssumption
  <2> QED BY <1>4, <2>1 DEF AnalyzeBatch, RestType
<1>a. ASSUME NEW all \in batches, BatchReturns(all) PROVE RestType'
  BY <1>a DEF BatchReturns, RestType
<1>5. ASSUME NEW sv \in saves, Stamp(sv) \/ Commit(sv) \/ SaveFails(sv) PROVE RestType'
  BY <1>1, <1>5 DEF Stamp, Commit, SaveFails, RestType
<1>6. ASSUME Down PROVE RestType'
  <2>1. UNION {SavedBy(sv) : sv \in saves} \subseteq Readings
    BY <1>1
  <2> QED BY <1>6, <2>1 DEF Down, RestType
<1>7. CASE Restart \/ Tick
  BY <1>7 DEF Restart, Tick, RestType
<1>8. ASSUME NEW z \in Zones, ZoneUpdate(z) \/ Unwatch(z) PROVE RestType'
  BY <1>8 DEF ZoneUpdate, Unwatch, RestType
<1>9. ASSUME NEW z \in Zones, NEW c \in Cells, Watch(z, c) PROVE RestType'
  BY <1>9 DEF Watch, RestType
<1>10. CASE (ViewsNext /\ UNCHANGED analyzerVars) \/ UNCHANGED vars
  BY <1>10 DEF analyzerVars, vars, RestType
<1> QED
  BY <1>2, <1>3, <1>4, <1>5, <1>6, <1>7, <1>8, <1>9, <1>10, <1>a DEF Next, AnalyzerNext, Crash, Panic

\* What a tick of a zone view finds: rows of its cell, none of which is older than
\* a row that is left out, and a newest one among them.
LEMMA ZoneUpdateFacts ==
  ASSUME RowsInv, ZoneType, NEW z \in Zones, ZoneUpdate(z)
  PROVE  \E x \in results, seen \in View :
           /\ x.cell = zone[z].cell /\ seen.at = x.at
           /\ \A y \in results : y.cell = zone[z].cell => x.at >= y.at
           /\ zone' = [zone EXCEPT ![z].seen = seen]
<1> DEFINE rows == {x \in results : x.cell = zone[z].cell}
<1>1. PICK top \in GetLatestByH3Index(zone[z].cell) :
        /\ top # {}
        /\ \E latest \in Newest(top), category \in Dominant(top) :
             zone' = [zone EXCEPT ![z].seen =
                        [at |-> latest.at, category |-> category, count |-> Cardinality(top),
                         risk |-> calculateRiskLevel(TotalScore(top), Cardinality(top))]]
  BY DEF ZoneUpdate
<1>2. PICK latest \in Newest(top), category \in Dominant(top) :
        zone' = [zone EXCEPT ![z].seen =
                   [at |-> latest.at, category |-> category, count |-> Cardinality(top),
                    risk |-> calculateRiskLevel(TotalScore(top), Cardinality(top))]]
  BY <1>1
<1>3. /\ top \subseteq rows /\ Cardinality(top) <= ZoneLimit
      /\ \A x \in top, y \in rows \ top : x.at >= y.at
  BY DEF GetLatestByH3Index
<1>4. latest \in top /\ \A y \in top : latest.at >= y.at
  BY DEF Newest
<1>5. latest \in results /\ latest.cell = zone[z].cell /\ latest.at \in Times
  BY <1>3, <1>4 DEF RowsInv, Row
<1>6. \A y \in rows : latest.at >= y.at
  BY <1>3, <1>4
<1>7. Cardinality(top) \in 1..ZoneLimit
  <2>1. IsFiniteSet(top)
    BY <1>3, FS_Subset DEF RowsInv
  <2>2. Cardinality(top) \in Nat /\ Cardinality(top) # 0
    BY <1>1, <2>1, FS_CardinalityType, FS_EmptySet
  <2> QED BY <1>3, <2>2, AnalyzerAssumption
<1>8. calculateRiskLevel(TotalScore(top), Cardinality(top)) \in Levels
  BY ThreeBounds DEF calculateRiskLevel
<1>9. category \in Levels
  BY DEF Dominant
<1> DEFINE seen == [at |-> latest.at, category |-> category, count |-> Cardinality(top),
                    risk |-> calculateRiskLevel(TotalScore(top), Cardinality(top))]
<1>10. seen \in View /\ seen.at = latest.at
  BY <1>5, <1>7, <1>8, <1>9 DEF View
<1> QED BY <1>2, <1>5, <1>6, <1>10

LEMMA ZoneStep == RowsInv /\ ZoneType /\ [Next]_vars => ZoneType'
<1> SUFFICES ASSUME RowsInv, ZoneType, [Next]_vars PROVE ZoneType'
  OBVIOUS
<1>1. ASSUME NEW z \in Zones, ZoneUpdate(z) PROVE ZoneType'
  <2>1. PICK seen \in View : zone' = [zone EXCEPT ![z].seen = seen]
    BY <1>1, ZoneUpdateFacts
  <2> QED BY <2>1 DEF ZoneType
<1>2. ASSUME NEW z \in Zones, Unwatch(z) PROVE ZoneType'
  BY <1>2, ClosedType DEF Unwatch, ZoneType
<1>3. ASSUME NEW z \in Zones, NEW c \in Cells, Watch(z, c) PROVE ZoneType'
  BY <1>3 DEF Watch, ZoneType
<1>4. ASSUME Down PROVE ZoneType'
  BY <1>4, ClosedType DEF Down, ZoneType
<1>5. CASE UNCHANGED zone
  BY <1>5 DEF ZoneType
<1> QED
  BY <1>1, <1>2, <1>3, <1>4, <1>5
  DEF Next, AnalyzerNext, Crash, Panic, vars, analyzerVars, Open, Send, SendFails, EndStream,
      Recv, AnalyzeBatch, BatchReturns, Stamp, Commit, SaveFails, Restart, Tick

\* What the query of a follower returns: for each cell at most one row, none older
\* than another row of the cell.
LEMMA LatestFacts ==
  ASSUME NEW q \in GetLatestCellUpdate
  PROVE  /\ q \subseteq results
         /\ \A x, y \in q : x.cell = y.cell => x = y
         /\ \A x \in q, y \in results : y.cell = x.cell => x.at >= y.at
<1> DEFINE rows(c) == {x \in results : x.cell = c}
           known == {c \in Cells : rows(c) # {}}
<1>1. PICK pick \in [known -> results] :
        /\ \A c \in known : pick[c] \in Newest(rows(c))
        /\ q = {pick[c] : c \in known}
  BY DEF GetLatestCellUpdate
<1>2. \A c \in known : /\ pick[c] \in results /\ pick[c].cell = c
                       /\ \A y \in results : y.cell = c => pick[c].at >= y.at
  BY <1>1 DEF Newest
<1> QED BY <1>1, <1>2

\* Sending an update takes it from the queue and sets what its cell was last seen at.
LEMMA SendFacts ==
  ASSUME FollowType, NEW f \in Followers, SendUpdate(f)
  PROVE  /\ FollowType'
         /\ \A g \in Followers : g # f => follow'[g] = follow[g]
         /\ follow'[f].open = follow[f].open
         /\ \E x \in follow[f].queue :
              /\ follow'[f].queue = follow[f].queue \ {x}
              /\ follow'[f].seen = [follow[f].seen EXCEPT ![x.cell] = x.at]
<1>1. PICK x \in follow[f].queue :
        follow' = [follow EXCEPT ![f].queue = follow[f].queue \ {x}, ![f].seen[x.cell] = x.at]
  BY DEF SendUpdate
<1> DEFINE seen == [follow[f].seen EXCEPT ![x.cell] = x.at]
           call == [open |-> follow[f].open, queue |-> follow[f].queue \ {x}, seen |-> seen]
<1>2. follow[f] \in [open : BOOLEAN, queue : SUBSET Row, seen : [Cells -> Times \union {Unseen}]]
  BY DEF FollowType
<1>3. x.cell \in Cells /\ x.at \in Times
  BY <1>2 DEF Row
<1>4. seen \in [Cells -> Times \union {Unseen}]
  BY <1>2, <1>3
<1> DEFINE mid == [follow EXCEPT ![f].queue = follow[f].queue \ {x}]
<1>5. follow' = [mid EXCEPT ![f].seen[x.cell] = x.at]
  BY <1>1
<1> DEFINE half == [open |-> follow[f].open, queue |-> follow[f].queue \ {x},
                    seen |-> follow[f].seen]
<1>6. mid = [follow EXCEPT ![f] = half]
  <2>1. [follow[f] EXCEPT !.queue = follow[f].queue \ {x}] = half
    BY <1>2
  <2> QED BY <2>1
<1>7. mid[f].seen = follow[f].seen
  BY <1>6 DEF FollowType
<1>8. follow' = [mid EXCEPT ![f] = [mid[f] EXCEPT !.seen = seen]]
  BY <1>5, <1>7
<1>9. [mid[f] EXCEPT !.seen = seen] = call
  <2>1. mid[f] = half
    BY <1>6 DEF FollowType
  <2>2. [half EXCEPT !.seen = seen] = call
    OBVIOUS
  <2> QED BY <2>1, <2>2
<1>10. /\ call \in [open : BOOLEAN, queue : SUBSET Row, seen : [Cells -> Times \union {Unseen}]]
       /\ call.open = follow[f].open /\ call.queue = follow[f].queue \ {x} /\ call.seen = seen
  BY <1>2, <1>4
<1> HIDE DEF call
<1>11. follow' = [g \in Followers |-> IF g = f THEN call ELSE follow[g]]
  BY <1>6, <1>8, <1>9 DEF FollowType
<1> HIDE DEF mid
<1>12. FollowType'
  BY <1>10, <1>11 DEF FollowType
<1>13. follow'[f] = call /\ \A g \in Followers : g # f => follow'[g] = follow[g]
  BY <1>11
<1> QED BY <1>10, <1>12, <1>13

LEMMA FollowStep == RowsInv /\ FollowType /\ [Next]_vars => FollowType'
<1> SUFFICES ASSUME RowsInv, FollowType, [Next]_vars PROVE FollowType'
  OBVIOUS
<1>1. ASSUME NEW f \in Followers, Follow(f) PROVE FollowType'
  BY <1>1 DEF Follow, FollowType
<1>2. ASSUME NEW f \in Followers, FollowTick(f) PROVE FollowType'
  <2>1. PICK q \in GetLatestCellUpdate : follow' = [follow EXCEPT ![f].queue = q]
    BY <1>2 DEF FollowTick
  <2>2. q \subseteq Row
    BY <2>1, LatestFacts DEF RowsInv
  <2> QED BY <2>1, <2>2 DEF FollowType
<1>3. ASSUME NEW f \in Followers, SendUpdate(f) PROVE FollowType'
  BY <1>3, SendFacts
<1>4. ASSUME NEW f \in Followers, Unfollow(f) PROVE FollowType'
  <2>1. Away \in [open : BOOLEAN, queue : SUBSET Row, seen : [Cells -> Times \union {Unseen}]]
    BY DEF Away
  <2> QED BY <1>4, <2>1 DEF Unfollow, FollowType
<1>5. CASE UNCHANGED follow
  BY <1>5 DEF FollowType
<1> QED
  BY <1>1, <1>2, <1>3, <1>4, <1>5
  DEF Next, ViewsNext, vars, viewVars, QueryReport, SendChunk, EndReport, ChunkFails

LEMMA ViewTypesAlways == Spec => [](ZoneType /\ FollowType)
<1>1. Init => ZoneType /\ FollowType
  BY ClosedType DEF Init, AnalyzerInit, Away, ZoneType, FollowType
<1> QED BY <1>1, ZoneStep, FollowStep, RowsAlways, PTL DEF Spec

-------------------------------------------------------------------------------
(* Live views move forward *)

\* What a zone view shows is as new as a row of its cell in the table.
ZoneInv ==
  \A z \in Zones : zone[z].seen # NoView =>
    \E x \in results : x.cell = zone[z].cell /\ x.at = zone[z].seen.at

\* What a follower has got is as new as a row in the table, and what it will get
\* of this tick is one row of a cell, no older than what it has.
FollowInv ==
  \A f \in Followers :
    /\ follow[f].queue \subseteq results
    /\ \A x, y \in follow[f].queue : x.cell = y.cell => x = y
    /\ \A x \in follow[f].queue :
         follow[f].seen[x.cell] # Unseen => x.at >= follow[f].seen[x.cell]
    /\ \A c \in Cells : follow[f].seen[c] # Unseen =>
         \E x \in results : x.cell = c /\ x.at = follow[f].seen[c]

LEMMA TableGrows == ASSUME [Next]_vars PROVE results \subseteq results'
BY DEF Next, AnalyzerNext, ViewsNext, vars, analyzerVars, Open, Recv, Send, SendFails, EndStream,
  AnalyzeBatch, BatchReturns, Stamp, Commit, SaveFails, Watch, ZoneUpdate, Unwatch, Crash, Panic,
  Down, Restart, Tick

\* One step of the zone views, with the invariant and the direction.
LEMMA ZoneInvStep == RowsInv /\ ZoneType /\ ZoneInv /\ [Next]_vars => ZoneInv' /\ ViewForward
<1> SUFFICES ASSUME RowsInv, ZoneType, ZoneInv, [Next]_vars PROVE ZoneInv' /\ ViewForward
  OBVIOUS
<1>1. results \subseteq results'
  BY TableGrows
<1>2. \A z \in Zones : zone[z].seen # NoView => zone[z].seen.at \in Times
  BY DEF ZoneType, View
<1>3. ASSUME NEW z \in Zones, ZoneUpdate(z) PROVE ZoneInv' /\ ViewForward
  <2>1. PICK x \in results, seen \in View :
           /\ x.cell = zone[z].cell /\ seen.at = x.at
           /\ \A y \in results : y.cell = zone[z].cell => x.at >= y.at
           /\ zone' = [zone EXCEPT ![z].seen = seen]
    BY <1>3, ZoneUpdateFacts
  <2>2. zone'[z].seen = seen /\ zone'[z].cell = zone[z].cell
    BY <2>1 DEF ZoneType
  <2>3. \A o \in Zones : o # z => zone'[o] = zone[o]
    BY <2>1 DEF ZoneType
  <2>4. zone[z].seen # NoView => seen.at >= zone[z].seen.at
    BY <2>1 DEF ZoneInv
  <2>5. ViewForward
    <3> SUFFICES ASSUME NEW o \in Zones, zone[o].seen # NoView, zone'[o].seen # NoView
                 PROVE  zone'[o].seen.at >= zone[o].seen.at
      BY DEF ViewForward
    <3>1. CASE o = z
      BY <2>2, <2>4, <3>1
    <3>2. CASE o # z
      BY <1>2, <2>3, <3>2 DEF Times
    <3> QED BY <3>1, <3>2
  <2>6. ZoneInv'
    <3> SUFFICES ASSUME NEW o \in Zones, zone'[o].seen # NoView
                 PROVE  \E y \in results' : y.cell = zone'[o].cell /\ y.at = zone'[o].seen.at
      BY DEF ZoneInv
    <3>1. CASE o = z
      BY <1>1, <2>1, <2>2, <3>1
    <3>2. CASE o # z
      BY <1>1, <2>3, <3>2 DEF ZoneInv
    <3> QED BY <3>1, <3>2
  <2> QED BY <2>5, <2>6
\* Any other step leaves a view alone or forgets what it has shown.
<1>4. ASSUME \A z \in Zones : zone'[z] = zone[z] \/ zone'[z].seen = NoView
      PROVE  ZoneInv' /\ ViewForward
  <2>1. ZoneInv'
    BY <1>1, <1>4 DEF ZoneInv
  <2>2. ViewForward
    BY <1>2, <1>4 DEF ViewForward, Times
  <2> QED BY <2>1, <2>2
<1>5. ASSUME NEW z \in Zones, Unwatch(z) PROVE ZoneInv' /\ ViewForward
  BY <1>4, <1>5 DEF Unwatch, Closed, ZoneType
<1>6. ASSUME NEW z \in Zones, NEW c \in Cells, Watch(z, c) PROVE ZoneInv' /\ ViewForward
  BY <1>4, <1>6 DEF Watch, ZoneType
<1>7. ASSUME Down PROVE ZoneInv' /\ ViewForward
  BY <1>4, <1>7 DEF Down, Closed
<1>8. CASE UNCHANGED zone
  BY <1>4, <1>8
<1> QED
  BY <1>3, <1>5, <1>6, <1>7, <1>8
  DEF Next, AnalyzerNext, Crash, Panic, vars, analyzerVars, Open, Send, SendFails, EndStream,
      Recv, AnalyzeBatch, BatchReturns, Stamp, Commit, SaveFails, Restart, Tick

FollowForward ==
  \A f \in Followers, c \in Cells :
    follow[f].seen[c] # Unseen /\ follow'[f].open =>
      /\ follow'[f].seen[c] # Unseen
      /\ follow'[f].seen[c] >= follow[f].seen[c]

\* One step of the followers, with the invariant and the direction.
LEMMA FollowInvStep ==
  RowsInv /\ FollowType /\ FollowInv /\ [Next]_vars => FollowInv' /\ FollowForward
<1> SUFFICES ASSUME RowsInv, FollowType, FollowInv, [Next]_vars PROVE FollowInv' /\ FollowForward
  OBVIOUS
<1> USE DEF Times
<1>1. results \subseteq results'
  BY TableGrows
<1>2. \A f \in Followers, c \in Cells : follow[f].seen[c] \in Times \union {Unseen}
  BY DEF FollowType
<1> DEFINE Kept(f) ==
      /\ follow'[f].queue \subseteq results'
      /\ \A x, y \in follow'[f].queue : x.cell = y.cell => x = y
      /\ \A x \in follow'[f].queue :
           follow'[f].seen[x.cell] # Unseen => x.at >= follow'[f].seen[x.cell]
      /\ \A c \in Cells : follow'[f].seen[c] # Unseen =>
           \E x \in results' : x.cell = c /\ x.at = follow'[f].seen[c]
           Forward(f) == \A c \in Cells : follow[f].seen[c] # Unseen /\ follow'[f].open =>
             /\ follow'[f].seen[c] # Unseen
             /\ follow'[f].seen[c] >= follow[f].seen[c]
<1>3. ASSUME NEW f \in Followers, follow'[f] = follow[f] PROVE Kept(f) /\ Forward(f)
  <2>1. Kept(f)
    BY <1>1, <1>3 DEF FollowInv
  <2>2. Forward(f)
    BY <1>2, <1>3
  <2> QED BY <2>1, <2>2
<1>4. ASSUME NEW f \in Followers, Follow(f) PROVE \A g \in Followers : Kept(g) /\ Forward(g)
  <2>1. \A g \in Followers : g # f => follow'[g] = follow[g]
    BY <1>4 DEF Follow, FollowType
  <2>2. follow'[f].queue = follow[f].queue /\ follow'[f].seen = follow[f].seen
    BY <1>4 DEF Follow, FollowType
  <2>3. Kept(f)
    BY <1>1, <2>2 DEF FollowInv
  <2>4. Forward(f)
    BY <1>2, <2>2
  <2> QED BY <1>3, <2>1, <2>3, <2>4
<1>5. ASSUME NEW f \in Followers, FollowTick(f) PROVE \A g \in Followers : Kept(g) /\ Forward(g)
  <2>1. PICK q \in GetLatestCellUpdate : follow' = [follow EXCEPT ![f].queue = q]
    BY <1>5 DEF FollowTick
  <2>2. \A g \in Followers : g # f => follow'[g] = follow[g]
    BY <2>1 DEF FollowType
  <2>3. follow'[f].queue = q /\ follow'[f].seen = follow[f].seen
    BY <2>1 DEF FollowType
  <2>4. Kept(f)
    <3>1. q \subseteq results /\ \A x, y \in q : x.cell = y.cell => x = y
      BY LatestFacts
    <3>2. ASSUME NEW x \in q, follow[f].seen[x.cell] # Unseen
          PROVE  x.at >= follow[f].seen[x.cell]
      <4>1. x.cell \in Cells
        BY <3>1 DEF RowsInv, Row
      <4>2. PICK y \in results : y.cell = x.cell /\ y.at = follow[f].seen[x.cell]
        BY <3>2, <4>1 DEF FollowInv
      <4> QED BY <4>2, LatestFacts
    <3>3. \A c \in Cells : follow[f].seen[c] # Unseen =>
            \E x \in results : x.cell = c /\ x.at = follow[f].seen[c]
      BY DEF FollowInv
    <3> QED BY <1>1, <2>3, <3>1, <3>2, <3>3
  <2>5. Forward(f)
    BY <1>2, <2>3
  <2> QED BY <1>3, <2>2, <2>4, <2>5
<1>6. ASSUME NEW f \in Followers, SendUpdate(f) PROVE \A g \in Followers : Kept(g) /\ Forward(g)
  <2>1. PICK x \in follow[f].queue :
          /\ follow'[f].queue = follow[f].queue \ {x}
          /\ follow'[f].seen = [follow[f].seen EXCEPT ![x.cell] = x.at]
    BY <1>6, SendFacts
  <2>2. \A g \in Followers : g # f => follow'[g] = follow[g]
    BY <1>6, SendFacts
  <2>3. /\ follow[f].queue \subseteq results
        /\ x \in results /\ x.cell \in Cells /\ x.at \in Times
    BY <2>1 DEF FollowInv, RowsInv, Row
  <2>4. /\ follow'[f].seen[x.cell] = x.at
        /\ \A c \in Cells : c # x.cell => follow'[f].seen[c] = follow[f].seen[c]
    BY <2>1, <2>3 DEF FollowType
  <2>5. \A y \in follow'[f].queue : y.cell # x.cell /\ y.cell \in Cells
    BY <2>1, <2>3 DEF FollowInv, RowsInv, Row
  <2>6. Kept(f)
    <3>1. \A c \in Cells : follow'[f].seen[c] # Unseen =>
            \E y \in results : y.cell = c /\ y.at = follow'[f].seen[c]
      BY <2>3, <2>4 DEF FollowInv
    <3>2. \A y \in follow'[f].queue :
            follow'[f].seen[y.cell] # Unseen => y.at >= follow'[f].seen[y.cell]
      BY <2>1, <2>4, <2>5 DEF FollowInv
    <3>3. \A y, o \in follow'[f].queue : y.cell = o.cell => y = o
      BY <2>1 DEF FollowInv
    <3>4. follow'[f].queue \subseteq results
      BY <2>1, <2>3
    <3> QED BY <1>1, <3>1, <3>2, <3>3, <3>4
  <2>7. Forward(f)
    <3> SUFFICES ASSUME NEW c \in Cells, follow[f].seen[c] # Unseen
                 PROVE  /\ follow'[f].seen[c] # Unseen
                        /\ follow'[f].seen[c] >= follow[f].seen[c]
      OBVIOUS
    <3>1. CASE c = x.cell
      BY <2>1, <2>3, <2>4, <3>1, ViewsAssumption DEF FollowInv
    <3>2. CASE c # x.cell
      BY <1>2, <2>4, <3>2
    <3> QED BY <3>1, <3>2
  <2> QED BY <1>3, <2>2, <2>6, <2>7
<1>7. ASSUME NEW f \in Followers, Unfollow(f) PROVE \A g \in Followers : Kept(g) /\ Forward(g)
  <2>1. follow'[f] = Away /\ \A g \in Followers : g # f => follow'[g] = follow[g]
    BY <1>7 DEF Unfollow, FollowType
  <2>2. Kept(f) /\ Forward(f)
    BY <2>1 DEF Away
  <2> QED BY <1>3, <2>1, <2>2
<1>8. ASSUME UNCHANGED follow PROVE \A f \in Followers : Kept(f) /\ Forward(f)
  BY <1>3, <1>8
<1>9. \A f \in Followers : Kept(f) /\ Forward(f)
  <2> HIDE DEF Kept, Forward
  <2> QED
    BY <1>4, <1>5, <1>6, <1>7, <1>8
    DEF Next, ViewsNext, vars, viewVars, QueryReport, SendChunk, EndReport, ChunkFails
<1>10. FollowInv'
  <2>1. \A f \in Followers : Kept(f)
    BY <1>9
  <2> QED BY <2>1 DEF FollowInv
<1>11. FollowForward
  <2>1. \A f \in Followers : Forward(f)
    BY <1>9
  <2> QED BY <2>1 DEF FollowForward
<1> QED BY <1>10, <1>11

LEMMA ViewsInit == Init => ZoneInv /\ FollowInv
<1> SUFFICES ASSUME Init PROVE ZoneInv /\ FollowInv
  OBVIOUS
<1>1. ZoneInv
  BY DEF Init, AnalyzerInit, Closed, ZoneInv
<1>2. FollowInv
  BY DEF Init, Away, FollowInv
<1> QED BY <1>1, <1>2

\* Although rows enter the table out of order and the updates of a tick go out one by
\* one, no live view goes back in time.
THEOREM LiveViewsMoveForward == Spec => ViewsMoveForward
<1> DEFINE A ==
      /\ ViewForward
      /\ \A f \in Followers, c \in Cells :
           follow[f].seen[c] # Unseen /\ follow'[f].open =>
             /\ follow'[f].seen[c] # Unseen
             /\ follow'[f].seen[c] >= follow[f].seen[c]
<1> DEFINE Inv == RowsInv /\ ZoneType /\ FollowType /\ ZoneInv /\ FollowInv
<1>1. Spec => [](ZoneInv /\ FollowInv)
  BY ViewsInit, ZoneInvStep, FollowInvStep, RowsAlways, ViewTypesAlways, PTL DEF Spec
<1>2. Inv /\ [Next]_vars => A
  BY ZoneInvStep, FollowInvStep DEF FollowForward
<1> QED BY <1>1, <1>2, RowsAlways, ViewTypesAlways, PTL DEF Spec, ViewsMoveForward

-------------------------------------------------------------------------------
(* What a view shows is within its rows *)

LEMMA DisjointCount ==
  ASSUME NEW S, NEW T, IsFiniteSet(S), IsFiniteSet(T), S \cap T = {}
  PROVE  /\ IsFiniteSet(S \union T)
         /\ Cardinality(S \union T) = Cardinality(S) + Cardinality(T)
<1>1. Cardinality(S \cap T) = 0
  BY FS_EmptySet
<1>2. Cardinality(S) \in Nat /\ Cardinality(T) \in Nat
  BY FS_CardinalityType
<1>3. /\ IsFiniteSet(S \union T)
      /\ Cardinality(S \union T) = Cardinality(S) + Cardinality(T) - Cardinality(S \cap T)
  BY FS_Union
<1> QED BY <1>1, <1>2, <1>3

\* The levels of a set of rows and how many rows have each.
LEMMA CountsOfRows ==
  ASSUME NEW rows, rows \subseteq Row, IsFiniteSet(rows), rows # {}
  PROVE  /\ \A l \in Levels : /\ Count(rows, l) \in Nat
                              /\ Count(rows, l) > 0 => \E x \in rows : x.level = l
         /\ Cardinality(rows) = Count(rows, 1) + Count(rows, 2) + Count(rows, 3) + Count(rows, 4)
         /\ Cardinality(rows) \in Nat /\ Cardinality(rows) > 0
<1> DEFINE Of(l) == {x \in rows : x.level = l}
<1>1. \A l \in Levels : IsFiniteSet(Of(l)) /\ Cardinality(Of(l)) \in Nat
  BY FS_Subset, FS_CardinalityType
<1>2. \A l \in Levels : Cardinality(Of(l)) > 0 => \E x \in rows : x.level = l
  BY FS_EmptySet
<1>3. /\ rows = ((Of(1) \union Of(2)) \union Of(3)) \union Of(4)
      /\ Of(1) \cap Of(2) = {}
      /\ (Of(1) \union Of(2)) \cap Of(3) = {}
      /\ ((Of(1) \union Of(2)) \union Of(3)) \cap Of(4) = {}
  <2>1. \A x \in rows : x.level = 1 \/ x.level = 2 \/ x.level = 3 \/ x.level = 4
    BY DEF Row, Levels
  <2> QED BY <2>1
<1>4. Cardinality(rows) \in Nat /\ Cardinality(rows) # 0
  BY FS_CardinalityType, FS_EmptySet
<1>5. \A l \in Levels : Cardinality(Of(l)) = Count(rows, l)
  BY DEF Count
<1>6. 1 \in Levels /\ 2 \in Levels /\ 3 \in Levels /\ 4 \in Levels
  BY DEF Levels
<1> HIDE DEF Of
<1> DEFINE A == Of(1) \union Of(2)
           B == A \union Of(3)
<1>7. IsFiniteSet(A) /\ Cardinality(A) = Cardinality(Of(1)) + Cardinality(Of(2))
  BY <1>1, <1>3, <1>6, DisjointCount
<1>8. A \cap Of(3) = {} /\ B \cap Of(4) = {} /\ rows = B \union Of(4)
  BY <1>3
<1> HIDE DEF A
<1>9. IsFiniteSet(B) /\ Cardinality(B) = Cardinality(A) + Cardinality(Of(3))
  BY <1>1, <1>6, <1>7, <1>8, DisjointCount
<1> HIDE DEF B
<1>10. Cardinality(rows) = Cardinality(B) + Cardinality(Of(4))
  BY <1>1, <1>6, <1>8, <1>9, DisjointCount
<1>11. Cardinality(rows) = Count(rows, 1) + Count(rows, 2) + Count(rows, 3) + Count(rows, 4)
  BY <1>5, <1>6, <1>7, <1>9, <1>10
<1>12. \A l \in Levels : /\ Count(rows, l) \in Nat
                         /\ Count(rows, l) > 0 => \E x \in rows : x.level = l
  BY <1>1, <1>2, <1>5
<1> QED BY <1>4, <1>11, <1>12

\* The bounds of the average, one by one.
LEMMA RiskLevels ==
  ASSUME NEW total \in Nat, NEW n \in Nat
  PROVE  /\ total < 25 * n => calculateRiskLevel(total, n) = 1
         /\ total >= 25 * n /\ total < 50 * n => calculateRiskLevel(total, n) = 2
         /\ total >= 50 * n /\ total < 75 * n => calculateRiskLevel(total, n) = 3
         /\ total >= 75 * n => calculateRiskLevel(total, n) = 4
<1> DEFINE T == {t \in {25, 50, 75} : total >= t * n}
<1>1. Cardinality({}) = 0 /\ Cardinality({25}) = 1
  BY FS_EmptySet, FS_Singleton
<1>2. Cardinality({25, 50}) = 2
  <2>1. {25, 50} = {25} \union {50} /\ 50 \notin {25} /\ IsFiniteSet({25})
    BY FS_Singleton
  <2> QED BY <1>1, <2>1, FS_AddElement
<1>3. Cardinality({25, 50, 75}) = 3
  <2>1. {25, 50} = {25} \union {50} /\ IsFiniteSet({25})
    BY FS_Singleton
  <2>2. IsFiniteSet({25, 50})
    BY <2>1, FS_AddElement
  <2>3. {25, 50, 75} = {25, 50} \union {75} /\ 75 \notin {25, 50}
    OBVIOUS
  <2> QED BY <1>2, <2>2, <2>3, FS_AddElement
<1>4. total < 25 * n => T = {}
  OBVIOUS
<1>5. total >= 25 * n /\ total < 50 * n => T = {25}
  OBVIOUS
<1>6. total >= 50 * n /\ total < 75 * n => T = {25, 50}
  OBVIOUS
<1>7. total >= 75 * n => T = {25, 50, 75}
  OBVIOUS
<1>8. calculateRiskLevel(total, n) = 1 + Cardinality(T)
  BY DEF calculateRiskLevel
<1> HIDE DEF T
<1> QED BY <1>1, <1>2, <1>3, <1>4, <1>5, <1>6, <1>7, <1>8

\* The two tables agree: the level of an average lies between those of its rows.
LEMMA AverageWithinRows ==
  ASSUME NEW rows, rows \subseteq Row, IsFiniteSet(rows), rows # {}
  PROVE  /\ \E x \in rows : x.level <= calculateRiskLevel(TotalScore(rows), Cardinality(rows))
         /\ \E x \in rows : x.level >= calculateRiskLevel(TotalScore(rows), Cardinality(rows))
<1> DEFINE a == Count(rows, 1)
           b == Count(rows, 2)
           c == Count(rows, 3)
           d == Count(rows, 4)
           n == Cardinality(rows)
           total == TotalScore(rows)
           risk == calculateRiskLevel(total, n)
<1>1. a \in Nat /\ b \in Nat /\ c \in Nat /\ d \in Nat /\ n = a + b + c + d /\ n > 0
  BY CountsOfRows DEF Levels
<1>2. /\ a > 0 => \E x \in rows : x.level = 1
      /\ b > 0 => \E x \in rows : x.level = 2
      /\ c > 0 => \E x \in rows : x.level = 3
      /\ d > 0 => \E x \in rows : x.level = 4
  BY CountsOfRows DEF Levels
<1>3. total = 10 * a + 35 * b + 65 * c + 90 * d
  <2>1. Score[1] = 10 /\ Score[2] = 35 /\ Score[3] = 65 /\ Score[4] = 90
    BY DEF Score
  <2>2. total = a * 10 + b * 35 + c * 65 + d * 90
    BY <2>1 DEF TotalScore
  <2> HIDE DEF a, b, c, d, total
  <2> QED BY <1>1, <2>2
<1> HIDE DEF a, b, c, d, n, total
<1>4. total \in Nat /\ n \in Nat
  BY <1>1, <1>3
<1>5. /\ total < 25 * n => risk = 1
      /\ total >= 25 * n /\ total < 50 * n => risk = 2
      /\ total >= 50 * n /\ total < 75 * n => risk = 3
      /\ total >= 75 * n => risk = 4
  BY <1>4, RiskLevels
<1> HIDE DEF risk
<1>6. /\ risk = 1 => a > 0
      /\ risk = 2 => (a > 0 \/ b > 0) /\ (b > 0 \/ c > 0 \/ d > 0)
      /\ risk = 3 => (a > 0 \/ b > 0 \/ c > 0) /\ (c > 0 \/ d > 0)
      /\ risk = 4 => d > 0
  BY <1>1, <1>3, <1>5
<1>7. risk = 1 \/ risk = 2 \/ risk = 3 \/ risk = 4
  BY <1>1, <1>3, <1>5
<1>8. \E x \in rows : x.level <= risk
  BY <1>1, <1>2, <1>6, <1>7
<1>9. \E x \in rows : x.level >= risk
  BY <1>1, <1>2, <1>6, <1>7
<1> QED BY <1>8, <1>9 DEF risk, total, n

\* ViewIsWithinRows with its witnesses named.
Within(z) ==
  zone[z].seen # NoView =>
    /\ \E x \in results : x.cell = zone[z].cell /\ x.level = zone[z].seen.category
    /\ \E x \in results : x.cell = zone[z].cell /\ x.level <= zone[z].seen.risk
    /\ \E x \in results : x.cell = zone[z].cell /\ x.level >= zone[z].seen.risk

WithinInv == \A z \in Zones : Within(z)

LEMMA WithinImplies == WithinInv => ViewIsWithinRows
<1> SUFFICES ASSUME WithinInv, NEW z \in Zones, zone[z].seen # NoView
             PROVE  LET levels == {x.level : x \in {y \in results : y.cell = zone[z].cell}} IN
                      /\ zone[z].seen.category \in levels
                      /\ \E l \in levels : l <= zone[z].seen.risk
                      /\ \E l \in levels : l >= zone[z].seen.risk
  BY DEF ViewIsWithinRows
<1> QED BY DEF WithinInv, Within

LEMMA ZoneUpdateWithin ==
  ASSUME RowsInv, ZoneType, NEW z \in Zones, ZoneUpdate(z)
  PROVE  Within(z)'
<1>1. PICK top \in GetLatestByH3Index(zone[z].cell) :
        /\ top # {}
        /\ \E latest \in Newest(top), category \in Dominant(top) :
             zone' = [zone EXCEPT ![z].seen =
                        [at |-> latest.at, category |-> category, count |-> Cardinality(top),
                         risk |-> calculateRiskLevel(TotalScore(top), Cardinality(top))]]
  BY DEF ZoneUpdate
<1> DEFINE risk == calculateRiskLevel(TotalScore(top), Cardinality(top))
<1>2. PICK latest \in Newest(top), category \in Dominant(top) :
        zone' = [zone EXCEPT ![z].seen =
                   [at |-> latest.at, category |-> category, count |-> Cardinality(top),
                    risk |-> risk]]
  BY <1>1
<1>3. /\ top \subseteq results /\ \A x \in top : x.cell = zone[z].cell
      /\ top \subseteq Row /\ IsFiniteSet(top)
  <2>1. top \subseteq results /\ \A x \in top : x.cell = zone[z].cell
    BY DEF GetLatestByH3Index
  <2> QED BY <2>1, FS_Subset DEF RowsInv
<1>4. \E x \in top : x.level = category
  BY <1>1, <1>3, CountsOfRows DEF Dominant
<1>5. (\E x \in top : x.level <= risk) /\ (\E x \in top : x.level >= risk)
  BY <1>1, <1>3, AverageWithinRows
<1> HIDE DEF risk
<1>6. /\ zone'[z].cell = zone[z].cell
      /\ zone'[z].seen.category = category /\ zone'[z].seen.risk = risk
  BY <1>2 DEF ZoneType
<1>7. results' = results
  BY DEF ZoneUpdate
<1> QED BY <1>3, <1>4, <1>5, <1>6, <1>7 DEF Within

LEMMA WithinStep == RowsInv /\ ZoneType /\ WithinInv /\ [Next]_vars => WithinInv'
<1> SUFFICES ASSUME RowsInv, ZoneType, WithinInv, [Next]_vars PROVE WithinInv'
  OBVIOUS
<1>1. results \subseteq results'
  BY TableGrows
<1>2. ASSUME NEW z \in Zones, zone'[z] = zone[z] \/ zone'[z].seen = NoView PROVE Within(z)'
  BY <1>1, <1>2 DEF WithinInv, Within
<1>3. ASSUME NEW z \in Zones, ZoneUpdate(z) PROVE WithinInv'
  <2>1. \A o \in Zones : o # z => zone'[o] = zone[o]
    BY <1>3 DEF ZoneUpdate, ZoneType
  <2>2. Within(z)'
    BY <1>3, ZoneUpdateWithin
  <2> QED BY <1>2, <2>1, <2>2 DEF WithinInv
<1>4. ASSUME \A z \in Zones : zone'[z] = zone[z] \/ zone'[z].seen = NoView PROVE WithinInv'
  BY <1>2, <1>4 DEF WithinInv
<1>5. ASSUME NEW z \in Zones, Unwatch(z) PROVE WithinInv'
  BY <1>4, <1>5 DEF Unwatch, Closed, ZoneType
<1>6. ASSUME NEW z \in Zones, NEW c \in Cells, Watch(z, c) PROVE WithinInv'
  BY <1>4, <1>6 DEF Watch, ZoneType
<1>7. ASSUME Down PROVE WithinInv'
  BY <1>4, <1>7 DEF Down, Closed
<1>8. CASE UNCHANGED zone
  BY <1>4, <1>8
<1> QED
  BY <1>3, <1>5, <1>6, <1>7, <1>8
  DEF Next, AnalyzerNext, Crash, Panic, vars, analyzerVars, Open, Send, SendFails, EndStream,
      Recv, AnalyzeBatch, BatchReturns, Stamp, Commit, SaveFails, Restart, Tick

\* A zone view shows a level and a category that rows of its cell justify, however
\* many rows it averages over.
THEOREM ViewsAreWithinRows == Spec => []ViewIsWithinRows
<1>1. Init => WithinInv
  <2> SUFFICES ASSUME Init PROVE WithinInv
    OBVIOUS
  <2>1. \A z \in Zones : zone[z].seen = NoView
    BY DEF Init, AnalyzerInit, Closed
  <2> QED BY <2>1 DEF WithinInv, Within
<1> QED BY <1>1, WithinStep, WithinImplies, RowsAlways, ViewTypesAlways, PTL DEF Spec

-------------------------------------------------------------------------------
(* The report, and all types *)

\* The chunks are no more than the zones, suffice for them, and are none only
\* without zones.
LEMMA ChunkFacts ==
  ASSUME NEW zones \in Seq(Cells)
  PROVE  /\ totalChunks(zones) \in 0..Len(zones)
         /\ totalChunks(zones) * ChunkSize >= Len(zones)
         /\ totalChunks(zones) = 0 <=> zones = <<>>
<1> DEFINE n == Len(zones)
           q == (n + ChunkSize - 1) \div ChunkSize
<1>1. n \in Nat /\ ChunkSize \in Nat /\ ChunkSize >= 1
  BY ViewsAssumption
<1>2. n = 0 <=> zones = <<>>
  BY EmptySeq
<1> HIDE DEF n
<1>3. q \in Nat /\ q * ChunkSize <= n + ChunkSize - 1 /\ q * ChunkSize >= n
  BY <1>1
<1> HIDE DEF q
<1>4. q <= n
  <2> SUFFICES ASSUME q >= n + 1 PROVE FALSE
    BY <1>1, <1>3
  <2>1. q * ChunkSize >= (n + 1) * ChunkSize
    BY <1>1, <1>3
  <2>2. (n + 1) * ChunkSize = n * ChunkSize + ChunkSize
    BY <1>1
  <2>3. n * ChunkSize >= n
    BY <1>1
  <2>4. n * ChunkSize \in Nat /\ q * ChunkSize \in Nat
    BY <1>1, <1>3
  <2> QED BY <1>1, <1>3, <2>1, <2>2, <2>3, <2>4
<1>5. q = 0 <=> n = 0
  BY <1>1, <1>3, <1>4
<1>6. q = totalChunks(zones)
  BY DEF totalChunks, n, q
<1> QED BY <1>1, <1>2, <1>3, <1>4, <1>5, <1>6 DEF n

LEMMA NoReportType ==
  /\ NoReport \in [sending : BOOLEAN, zones : Seq(Cells), sent : Nat, chunk : Seq(Cells)]
  /\ NoReport.sent <= Len(NoReport.zones) /\ NoReport.chunk = <<>>
<1>1. <<>> \in Seq(Cells) /\ Len(<<>>) = 0
  BY EmptySeq
<1> QED BY <1>1 DEF NoReport

LEMMA CellsFinite == IsFiniteSet(Cells)
<1> DEFINE at == [r \in Readings |-> CellOf[r]]
<1>1. at \in Surjection(Readings, Cells)
  BY DEF Surjection, Cells
<1> QED BY <1>1, AnalyzerAssumption, FS_Surjection

LEMMA ReportStep == ReportType /\ [Next]_vars => ReportType'
<1> SUFFICES ASSUME ReportType, [Next]_vars PROVE ReportType'
  OBVIOUS
<1>1. CASE QueryReport
  <2>0. PICK from \in Times : \E list \in GetCityZoneStats(from) :
          report' = [NoReport EXCEPT !.sending = TRUE, !.zones = list]
    BY <1>1 DEF QueryReport
  <2>1. PICK list \in GetCityZoneStats(from) :
          report' = [NoReport EXCEPT !.sending = TRUE, !.zones = list]
    BY <2>0
  <2> DEFINE known == {c \in Cells : RowsOf(c, from) # {}}
             n == IF Cardinality(known) < TopN THEN Cardinality(known) ELSE TopN
  <2>2. Cardinality(known) \in Nat
    <3>1. known \subseteq Cells
      OBVIOUS
    <3> HIDE DEF known
    <3> QED BY <3>1, CellsFinite, FS_Subset, FS_CardinalityType
  <2>3. n \in Nat
    <3> HIDE DEF known
    <3> QED BY <2>2, ViewsAssumption
  <2>4. list \in [1..n -> known]
    BY <2>1 DEF GetCityZoneStats
  <2>5. list \in Seq(Cells) /\ Len(list) \in Nat
    <3>1. known \subseteq Cells
      OBVIOUS
    <3> HIDE DEF known, n
    <3>2. list \in [1..n -> Cells]
      BY <2>4, <3>1
    <3> QED BY <2>3, <3>2
  <2>6. report' = [sending |-> TRUE, zones |-> list, sent |-> 0, chunk |-> <<>>]
    BY <2>1 DEF NoReport
  <2> QED BY <2>5, <2>6 DEF ReportType
<1>2. CASE SendChunk
  <2>1. totalChunks(report.zones) \in 0..Len(report.zones) /\ Len(report.zones) \in Nat
    BY ChunkFacts DEF ReportType
  <2>2. report.sent < totalChunks(report.zones) /\ report.sent \in Nat
    BY <1>2 DEF SendChunk, ReportType
  <2>3. report' = [report EXCEPT !.sent = report.sent + 1, !.chunk = report.zones]
    BY <1>2 DEF SendChunk
  <2>4. report.sent + 1 \in Nat
    BY <2>2
  <2>5. report' \in [sending : BOOLEAN, zones : Seq(Cells), sent : Nat, chunk : Seq(Cells)]
    BY <2>3, <2>4 DEF ReportType
  <2>6. report'.sent = report.sent + 1 /\ report'.zones = report.zones /\ report'.chunk = report.zones
    BY <2>3 DEF ReportType
  <2> QED BY <2>1, <2>2, <2>5, <2>6 DEF ReportType
<1>3. CASE EndReport \/ ChunkFails
  <2>1. report' = NoReport
    BY <1>3 DEF EndReport, ChunkFails
  <2> QED BY <2>1, NoReportType DEF ReportType
<1>4. CASE UNCHANGED report
  BY <1>4 DEF ReportType
<1> QED
  BY <1>1, <1>2, <1>3, <1>4
  DEF Next, ViewsNext, vars, viewVars, Follow, FollowTick, SendUpdate, Unfollow

LEMMA ReportAlways == Spec => []ReportType
<1>1. Init => ReportType
  BY NoReportType DEF Init, ReportType
<1> QED BY <1>1, ReportStep, PTL DEF Spec

\* Types, for any readings, batches, slots and limits: no view counts more rows than
\* its query may return, and no report sends more chunks than it has zones.
THEOREM TypeCorrect == Spec => []TypeOK
<1>1. Init => RestType
  BY DEF Init, AnalyzerInit, RestType
<1> QED
  BY <1>1, RestStep, ReportAlways, RowsAlways, ViewTypesAlways, TypeInvImplies, PTL
  DEF Spec, TypeInv
================================================================================
