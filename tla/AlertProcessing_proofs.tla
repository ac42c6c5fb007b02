------------------------- MODULE AlertProcessing_proofs -------------------------
(***************************************************************************)
(* Proofs about AlertProcessing, for any readings and thresholds, any      *)
(* limit on deliveries and any number of faults.                           *)
(***************************************************************************)
EXTENDS AlertProcessing, SequenceFacts

-------------------------------------------------------------------------------
(* The table fired_alerts *)

\* Rows are never deleted, and an update keeps the reading and the threshold.
FiredKept ==
  \A i \in DOMAIN fired :
    /\ i \in DOMAIN fired'
    /\ fired'[i].reading = fired[i].reading
    /\ fired'[i].threshold = fired[i].threshold

LEMMA NewAlertType ==
  ASSUME NEW r \in Readings, NEW t \in Thresholds
  PROVE  /\ NewAlert(r, t) \in Alert
         /\ NewAlert(r, t).reading = r /\ NewAlert(r, t).threshold = t
BY DEF NewAlert, Alert

\* An insert.
LEMMA InsertFacts ==
  ASSUME fired \in Seq(Alert), NEW r \in Readings, NEW t \in Thresholds,
         fired' = Append(fired, NewAlert(r, t))
  PROVE  /\ fired' \in Seq(Alert) /\ FiredKept
         /\ DOMAIN fired' \subseteq Nat
         /\ Len(fired) + 1 \in DOMAIN fired'
         /\ AlertsFor(r, t)' # {}
<1>1. NewAlert(r, t) \in Alert
  BY NewAlertType
<1> DEFINE a == NewAlert(r, t)
<1>2. /\ fired' \in Seq(Alert)
      /\ DOMAIN fired' = 1..Len(fired) + 1
      /\ \A i \in DOMAIN fired : fired'[i] = fired[i]
      /\ fired'[Len(fired) + 1] = a
      /\ DOMAIN fired = 1..Len(fired) /\ Len(fired) \in Nat
  BY <1>1, AppendFacts
<1>3. Len(fired) + 1 \in DOMAIN fired' /\ DOMAIN fired' \subseteq Nat
  BY <1>2
<1>4. FiredKept
  BY <1>2 DEF FiredKept
<1>5. fired'[Len(fired) + 1].reading = r /\ fired'[Len(fired) + 1].threshold = t
  BY <1>2, NewAlertType
<1>6. Len(fired) + 1 \in AlertsFor(r, t)'
  BY <1>3, <1>5 DEF AlertsFor
<1> QED BY <1>2, <1>3, <1>4, <1>6

\* The update of AcknowledgeAlert.
LEMMA UpdateFacts ==
  ASSUME fired \in Seq(Alert), NEW i \in DOMAIN fired, NEW u \in Users,
         fired' = [fired EXCEPT ![i].ackedBy = u]
  PROVE  fired' \in Seq(Alert) /\ FiredKept /\ DOMAIN fired' = DOMAIN fired
<1> DEFINE a == [fired[i] EXCEPT !.ackedBy = u]
<1>1. fired[i] \in Alert
  OBVIOUS
<1>2. a \in Alert /\ a.reading = fired[i].reading /\ a.threshold = fired[i].threshold
  BY <1>1 DEF Alert
<1>3. fired' = [fired EXCEPT ![i] = a]
  OBVIOUS
<1> HIDE DEF a
<1>4. fired' \in Seq(Alert) /\ DOMAIN fired' = DOMAIN fired
  BY <1>2, <1>3
<1>5. FiredKept
  BY <1>2, <1>3 DEF FiredKept
<1> QED BY <1>4, <1>5

LEMMA KeptWhenUnchanged == fired' = fired => FiredKept
BY DEF FiredKept

-------------------------------------------------------------------------------
(* Types *)

\* TypeOK in five parts, by who writes the variables.
JetstreamType ==
  /\ stream \subseteq Readings /\ acked \subseteq stream
  /\ durable \in BOOLEAN /\ owner \in BOOLEAN
  /\ deliveries \in [Readings -> 0..MaxDeliver]
  /\ handed \in [Readings -> Nat]

CallbackType ==
  /\ inbox \in Seq(stream)
  /\ cur \in stream \union {NoReading}
  /\ snapshot \subseteq Thresholds /\ todo \subseteq snapshot

EngineType ==
  /\ cache \subseteq Thresholds
  /\ rows = NoRows \/ rows \in [set : SUBSET Thresholds]
  /\ table \in [Thresholds -> {"none", "active", "inactive"}]

AlertsType ==
  /\ fired \in Seq(Alert)
  /\ unsent \subseteq DOMAIN fired
  /\ broadcast \subseteq Nat

HistoryType ==
  /\ ackedWith \in [Readings -> SUBSET Thresholds]
  /\ failed \subseteq Readings \X Thresholds
  /\ faults \in 0..MaxFaults
  /\ proc \in {"down", "running", "stopping", "unsubscribed"}

LEMMA TypeParts ==
  TypeOK <=> JetstreamType /\ CallbackType /\ EngineType /\ AlertsType /\ HistoryType
BY DEF TypeOK, JetstreamType, CallbackType, EngineType, AlertsType, HistoryType

\* What the reading in process and the rows read by a refresh are typed as.
LEMMA CurType == TypeOK /\ Busy => cur \in Readings /\ cur \in stream
BY DEF TypeOK, Busy

LEMMA TypeInit == Init => TypeOK
<1> SUFFICES ASSUME Init PROVE TypeOK
  OBVIOUS
<1> USE ProcessingAssumption DEF Init
<1>1. JetstreamType
  <2>1. stream = {} /\ acked = {} /\ durable \in BOOLEAN /\ owner \in BOOLEAN
    OBVIOUS
  <2>2. deliveries \in [Readings -> 0..MaxDeliver] /\ handed \in [Readings -> Nat]
    OBVIOUS
  <2> QED BY <2>1, <2>2 DEF JetstreamType
<1>2. CallbackType
  BY EmptyFacts DEF CallbackType
<1>3. EngineType
  BY DEF EngineType
<1>4. AlertsType
  BY EmptyFacts DEF AlertsType
<1>5. HistoryType
  BY DEF HistoryType
<1> QED BY <1>1, <1>2, <1>3, <1>4, <1>5, TypeParts

LEMMA JetstreamStep == TypeOK /\ [Next]_vars => JetstreamType'
<1> SUFFICES ASSUME TypeOK, [Next]_vars PROVE JetstreamType'
  OBVIOUS
<1> USE ProcessingAssumption DEF TypeOK, JetstreamType, jetstream, process
<1>1. CASE \E r \in Readings : Publish(r) \/ Deliver(r)
  BY <1>1 DEF Publish, Deliver
<1>2. CASE Ack
  BY <1>2, CurType DEF Ack, Done
<1>3. CASE Start
  BY <1>3 DEF Start
<1>4. CASE Unsubscribe \/ Die \/ Shutdown
  BY <1>4 DEF Unsubscribe, Die, Shutdown
<1>5. CASE \/ NakOnShutdown \/ NakMalformed \/ Begin \/ BroadcastAlert \/ AckLost
           \/ \E t \in Thresholds : SaveAlert(t) \/ SaveAlertFails(t)
  BY <1>5 DEF NakOnShutdown, NakMalformed, Begin, BroadcastAlert, AckLost, SaveAlert, SaveAlertFails
<1>6. CASE \/ RefreshRead \/ RefreshStore
           \/ \E t \in Thresholds : CreateThreshold(t) \/ Deactivate(t)
           \/ \E i \in DOMAIN fired, u \in Users : AcknowledgeAlert(i, u)
  BY <1>6 DEF RefreshRead, RefreshStore, CreateThreshold, Deactivate, AcknowledgeAlert
<1>7. CASE UNCHANGED vars
  BY <1>7 DEF vars
<1> QED BY <1>1, <1>2, <1>3, <1>4, <1>5, <1>6, <1>7 DEF Next, Callback

LEMMA CallbackStep == TypeOK /\ [Next]_vars => CallbackType'
<1> SUFFICES ASSUME TypeOK, [Next]_vars PROVE CallbackType'
  OBVIOUS
<1> USE ProcessingAssumption DEF TypeOK, CallbackType, jetstream, process, callback
<1>1. CASE \E r \in Readings : Publish(r)
  <2>1. stream \subseteq stream' /\ UNCHANGED <<inbox, callback>>
    BY <1>1 DEF Publish
  <2>2. inbox' \in Seq(stream')
    BY <2>1, SeqMono
  <2> QED BY <2>1, <2>2
<1>2. CASE \E r \in Readings : Deliver(r)
  <2>1. PICK r \in Readings : Deliver(r)
    BY <1>2
  <2>2. inbox' \in Seq(stream)
    BY <2>1, AppendFacts DEF Deliver
  <2> QED BY <2>1, <2>2 DEF Deliver
<1>3. CASE NakOnShutdown \/ NakMalformed
  <2>1. inbox # <<>> /\ inbox' = Tail(inbox) /\ UNCHANGED <<stream, callback>>
    BY <1>3 DEF NakOnShutdown, NakMalformed
  <2>2. inbox' \in Seq(stream)
    BY <2>1, TailFacts
  <2> QED BY <2>1, <2>2
<1>4. CASE Begin
  <2>1. inbox' \in Seq(stream) /\ cur' \in stream /\ stream' = stream
    BY <1>4, TailFacts DEF Begin
  <2>2. snapshot' \subseteq Thresholds /\ todo' = snapshot'
    BY <1>4 DEF Begin, Breached
  <2> QED BY <2>1, <2>2
<1>5. CASE \E t \in Thresholds : SaveAlert(t) \/ SaveAlertFails(t)
  BY <1>5 DEF SaveAlert, SaveAlertFails
<1>6. CASE BroadcastAlert
  BY <1>6 DEF BroadcastAlert
<1>7. CASE Ack \/ AckLost
  BY <1>7 DEF Ack, AckLost, Done
<1>8. CASE Start \/ Shutdown
  BY <1>8 DEF Start, Shutdown
<1>9. CASE Unsubscribe \/ Die
  <2>1. inbox' = <<>> /\ stream' = stream
    BY <1>9 DEF Unsubscribe, Die
  <2>2. inbox' \in Seq(stream)
    BY <2>1, EmptyFacts
  <2> QED BY <1>9, <2>1, <2>2 DEF Unsubscribe, Die
<1>10. CASE \/ RefreshRead \/ RefreshStore
            \/ \E t \in Thresholds : CreateThreshold(t) \/ Deactivate(t)
            \/ \E i \in DOMAIN fired, u \in Users : AcknowledgeAlert(i, u)
  BY <1>10 DEF RefreshRead, RefreshStore, CreateThreshold, Deactivate, AcknowledgeAlert
<1>11. CASE UNCHANGED vars
  BY <1>11 DEF vars
<1> QED
  BY <1>1, <1>2, <1>3, <1>4, <1>5, <1>6, <1>7, <1>8, <1>9, <1>10, <1>11 DEF Next, Callback

LEMMA EngineStep == TypeOK /\ [Next]_vars => EngineType'
<1> SUFFICES ASSUME TypeOK, [Next]_vars PROVE EngineType'
  OBVIOUS
<1> USE DEF TypeOK, EngineType, engine, database
<1>1. CASE RefreshRead \/ RefreshStore
  BY <1>1 DEF RefreshRead, RefreshStore, GetActiveThresholds, NoRows
<1>2. CASE \E t \in Thresholds : CreateThreshold(t) \/ Deactivate(t)
  BY <1>2 DEF CreateThreshold, Deactivate
<1>3. CASE Die
  BY <1>3 DEF Die
<1>4. CASE \/ \E r \in Readings : Publish(r) \/ Deliver(r)
           \/ Callback \/ AckLost
           \/ \E t \in Thresholds : SaveAlertFails(t)
           \/ \E i \in DOMAIN fired, u \in Users : AcknowledgeAlert(i, u)
           \/ Start \/ Shutdown \/ Unsubscribe
  BY <1>4
  DEF Publish, Deliver, Callback, NakOnShutdown, NakMalformed, Begin, SaveAlert, BroadcastAlert, Ack,
      AckLost, SaveAlertFails, AcknowledgeAlert, Start, Shutdown, Unsubscribe
<1>5. CASE UNCHANGED vars
  BY <1>5 DEF vars
<1> QED BY <1>1, <1>2, <1>3, <1>4, <1>5 DEF Next

\* Whatever the step, the rows there were are still there.
LEMMA AlertsStep == TypeOK /\ [Next]_vars => AlertsType' /\ FiredKept
<1> SUFFICES ASSUME TypeOK, [Next]_vars PROVE AlertsType' /\ FiredKept
  OBVIOUS
<1> USE DEF AlertsType, callback, database, history
<1>0. AlertsType
  BY TypeParts
<1>1. CASE \E t \in Thresholds : SaveAlert(t)
  <2>1. PICK t \in Thresholds : SaveAlert(t)
    BY <1>1
  <2>2. cur \in Readings /\ fired' = Append(fired, NewAlert(cur, t))
    BY <2>1, CurType DEF SaveAlert
  <2>3. /\ fired' \in Seq(Alert) /\ FiredKept /\ Len(fired) + 1 \in DOMAIN fired'
    BY <1>0, <2>2, InsertFacts
  <2> QED BY <1>0, <2>1, <2>3 DEF SaveAlert
<1>2. CASE \E t \in Thresholds : SaveAlertFails(t)
  <2>1. PICK t \in Thresholds : SaveAlertFails(t)
    BY <1>2
  <2>2. unsent' = {} /\ broadcast' = broadcast
    BY <2>1 DEF SaveAlertFails
  <2>3. CASE fired' = fired
    BY <1>0, <2>2, <2>3, KeptWhenUnchanged
  <2>4. CASE fired' = Append(fired, NewAlert(cur, t))
    <3>1. cur \in Readings
      BY <2>1, CurType DEF SaveAlertFails
    <3>2. fired' \in Seq(Alert) /\ FiredKept
      BY <1>0, <2>4, <3>1, InsertFacts
    <3> QED BY <1>0, <2>2, <3>2
  <2>5. fired' = fired \/ fired' = Append(fired, NewAlert(cur, t))
    BY <2>1 DEF SaveAlertFails
  <2> QED BY <2>3, <2>4, <2>5
<1>3. CASE \E i \in DOMAIN fired, u \in Users : AcknowledgeAlert(i, u)
  <2>1. PICK i \in DOMAIN fired, u \in Users : AcknowledgeAlert(i, u)
    BY <1>3
  <2>2. fired' = [fired EXCEPT ![i].ackedBy = u] /\ unsent' = unsent /\ broadcast' = broadcast
    BY <2>1 DEF AcknowledgeAlert
  <2>3. fired' \in Seq(Alert) /\ FiredKept /\ DOMAIN fired' = DOMAIN fired
    BY <1>0, <2>2, UpdateFacts
  <2> QED BY <1>0, <2>2, <2>3
<1>4. CASE BroadcastAlert
  <2>1. unsent \subseteq Nat
    BY <1>0
  <2>2. fired' = fired /\ unsent' = {} /\ broadcast' = broadcast \union unsent
    BY <1>4 DEF BroadcastAlert
  <2> QED BY <1>0, <2>1, <2>2, KeptWhenUnchanged
<1>5. CASE Die
  <2>1. fired' = fired /\ unsent' = {} /\ broadcast' = broadcast
    BY <1>5 DEF Die
  <2> QED BY <1>0, <2>1, KeptWhenUnchanged
<1>6. CASE \/ \E r \in Readings : Publish(r) \/ Deliver(r)
           \/ NakOnShutdown \/ NakMalformed \/ Begin \/ Ack \/ AckLost
           \/ RefreshRead \/ RefreshStore
           \/ \E t \in Thresholds : CreateThreshold(t) \/ Deactivate(t)
           \/ Start \/ Shutdown \/ Unsubscribe
  <2>1. UNCHANGED <<fired, unsent, broadcast>>
    BY <1>6
    DEF Publish, Deliver, NakOnShutdown, NakMalformed, Begin, Ack, AckLost, RefreshRead, RefreshStore,
        CreateThreshold, Deactivate, Start, Shutdown, Unsubscribe
  <2> QED BY <1>0, <2>1, KeptWhenUnchanged
<1>7. CASE UNCHANGED vars
  BY <1>0, <1>7, KeptWhenUnchanged DEF vars
<1> QED BY <1>1, <1>2, <1>3, <1>4, <1>5, <1>6, <1>7 DEF Next, Callback

LEMMA HistoryStep == TypeOK /\ [Next]_vars => HistoryType'
<1> SUFFICES ASSUME TypeOK, [Next]_vars PROVE HistoryType'
  OBVIOUS
<1> USE ProcessingAssumption DEF TypeOK, HistoryType, history, process
<1>1. CASE \E t \in Thresholds : SaveAlertFails(t)
  <2>1. PICK t \in Thresholds : SaveAlertFails(t)
    BY <1>1
  <2>2. cur \in Readings
    BY <2>1, CurType DEF SaveAlertFails
  <2> QED BY <2>1, <2>2 DEF SaveAlertFails
<1>2. CASE Ack
  BY <1>2 DEF Ack, Done
<1>3. CASE BroadcastAlert \/ AckLost
  BY <1>3 DEF BroadcastAlert, AckLost
<1>4. CASE Start \/ Shutdown \/ Unsubscribe \/ Die
  BY <1>4 DEF Start, Shutdown, Unsubscribe, Die
<1>5. CASE \/ \E r \in Readings : Publish(r) \/ Deliver(r)
           \/ NakOnShutdown \/ NakMalformed \/ Begin
           \/ \E t \in Thresholds : SaveAlert(t)
           \/ RefreshRead \/ RefreshStore
           \/ \E t \in Thresholds : CreateThreshold(t) \/ Deactivate(t)
           \/ \E i \in DOMAIN fired, u \in Users : AcknowledgeAlert(i, u)
  BY <1>5
  DEF Publish, Deliver, NakOnShutdown, NakMalformed, Begin, SaveAlert, RefreshRead, RefreshStore,
      CreateThreshold, Deactivate, AcknowledgeAlert
<1>6. CASE UNCHANGED vars
  BY <1>6 DEF vars
<1> QED BY <1>1, <1>2, <1>3, <1>4, <1>5, <1>6 DEF Next, Callback

LEMMA TypeStep == TypeOK /\ [Next]_vars => TypeOK'
<1> SUFFICES ASSUME TypeOK, [Next]_vars PROVE TypeOK'
  OBVIOUS
<1>1. JetstreamType' /\ CallbackType' /\ EngineType' /\ AlertsType' /\ HistoryType'
  BY JetstreamStep, CallbackStep, EngineStep, AlertsStep, HistoryStep
<1> QED BY <1>1 DEF TypeOK, JetstreamType, CallbackType, EngineType, AlertsType, HistoryType

\* Every variable keeps its type; in particular the consumer never delivers a
\* reading more than MaxDeliver times before it is created anew.
THEOREM TypeCorrect == Spec => []TypeOK
BY TypeInit, TypeStep, PTL DEF Spec

-------------------------------------------------------------------------------
(* Broadcast alerts are stored *)

LEMMA BroadcastStep == TypeOK /\ BroadcastIsStored /\ [Next]_vars => BroadcastIsStored'
<1> SUFFICES ASSUME TypeOK, BroadcastIsStored, [Next]_vars PROVE BroadcastIsStored'
  OBVIOUS
<1> USE DEF BroadcastIsStored, history
<1>1. DOMAIN fired \subseteq DOMAIN fired'
  BY AlertsStep DEF FiredKept
<1>2. CASE BroadcastAlert
  BY <1>1, <1>2 DEF BroadcastAlert, TypeOK
<1>3. CASE broadcast' = broadcast
  BY <1>1, <1>3
<1>4. BroadcastAlert \/ broadcast' = broadcast
  BY DEF Next, vars, Publish, Deliver, Callback, NakOnShutdown, NakMalformed, Begin, SaveAlert, Ack,
         AckLost, SaveAlertFails, RefreshRead, RefreshStore, CreateThreshold, Deactivate,
         AcknowledgeAlert, Start, Shutdown, Unsubscribe, Die
<1> QED BY <1>2, <1>3, <1>4

\* An alert that was pushed to subscribers has a row in fired_alerts, through any
\* number of failed saves, crashes, shutdowns and redeliveries.
THEOREM PushedIsStored == Spec => []BroadcastIsStored
<1>1. Init => BroadcastIsStored
  BY DEF Init, BroadcastIsStored
<1> QED BY <1>1, TypeInit, TypeStep, BroadcastStep, PTL DEF Spec

-------------------------------------------------------------------------------
(* Acknowledged readings are evaluated *)

\* fireAlert was called for r and t: there is a row, or the save failed.
Handled(r, t) == AlertsFor(r, t) # {} \/ <<r, t>> \in failed

\* The loop of ProcessReading has handled the thresholds it has passed.
LoopInv == cur # NoReading => \A t \in snapshot \ todo : Handled(cur, t)

EvaluationInv == TypeOK /\ LoopInv /\ AckedIsEvaluated

LEMMA HandledIsStable ==
  ASSUME TypeOK, [Next]_vars, NEW r, NEW t, Handled(r, t)
  PROVE  Handled(r, t)'
<1>1. FiredKept
  BY AlertsStep
<1>2. failed \subseteq failed'
  BY DEF Next, vars, history, Publish, Deliver, Callback, NakOnShutdown, NakMalformed, Begin, SaveAlert,
         BroadcastAlert, Ack, AckLost, SaveAlertFails, RefreshRead, RefreshStore, CreateThreshold,
         Deactivate, AcknowledgeAlert, Start, Shutdown, Unsubscribe, Die
<1>3. AlertsFor(r, t) \subseteq AlertsFor(r, t)'
  BY <1>1 DEF FiredKept, AlertsFor
<1> QED BY <1>2, <1>3 DEF Handled

LEMMA LoopStep == EvaluationInv /\ [Next]_vars => LoopInv'
<1> SUFFICES ASSUME TypeOK, LoopInv, [Next]_vars, cur' # NoReading, NEW s \in (snapshot \ todo)'
             PROVE  Handled(cur, s)'
  BY DEF EvaluationInv, LoopInv
<1> USE DEF LoopInv, callback
<1>1. CASE Begin
  BY <1>1 DEF Begin
<1>2. CASE \E t \in Thresholds : SaveAlert(t)
  <2>1. PICK t \in Thresholds : SaveAlert(t)
    BY <1>2
  <2>2. cur \in Readings /\ fired' = Append(fired, NewAlert(cur, t)) /\ cur' = cur
    BY <2>1, CurType DEF SaveAlert
  <2>3. AlertsFor(cur, t)' # {}
    <3>1. fired \in Seq(Alert)
      BY DEF TypeOK
    <3>2. \A r \in Readings : fired' = Append(fired, NewAlert(r, t)) =>
            \E i \in DOMAIN fired' : fired'[i].reading = r /\ fired'[i].threshold = t
      BY <3>1, InsertFacts DEF AlertsFor
    <3> QED BY <2>2, <3>2 DEF AlertsFor
  <2>4. s = t \/ s \in snapshot \ todo
    BY <2>1 DEF SaveAlert
  <2>5. CASE s = t
    BY <2>3, <2>5 DEF Handled
  <2>6. CASE s \in snapshot \ todo
    <3>1. Handled(cur, s)
      BY <2>1, <2>6 DEF SaveAlert, Busy
    <3> QED BY <2>2, <3>1, HandledIsStable DEF Handled, AlertsFor
  <2> QED BY <2>4, <2>5, <2>6
<1>3. CASE \E t \in Thresholds : SaveAlertFails(t)
  <2>1. PICK t \in Thresholds : SaveAlertFails(t)
    BY <1>3
  <2>2. cur' = cur /\ <<cur, t>> \in failed' /\ (s = t \/ s \in snapshot \ todo)
    BY <2>1 DEF SaveAlertFails
  <2>3. CASE s = t
    BY <2>2, <2>3 DEF Handled
  <2>4. CASE s \in snapshot \ todo
    <3>1. Handled(cur, s)
      BY <2>1, <2>4 DEF SaveAlertFails, Busy
    <3> QED BY <2>2, <3>1, HandledIsStable DEF Handled, AlertsFor
  <2> QED BY <2>2, <2>3, <2>4
<1>4. CASE UNCHANGED <<cur, snapshot, todo>>
  <2>1. Handled(cur, s)
    BY <1>4
  <2> QED BY <1>4, <2>1, HandledIsStable DEF Handled, AlertsFor
<1>5. CASE Ack \/ AckLost \/ Die
  BY <1>5 DEF Ack, AckLost, Die
<1>6. \/ Begin \/ \E t \in Thresholds : SaveAlert(t) \/ SaveAlertFails(t)
      \/ Ack \/ AckLost \/ Die \/ UNCHANGED <<cur, snapshot, todo>>
  BY DEF Next, vars, Publish, Deliver, Callback, NakOnShutdown, NakMalformed, BroadcastAlert,
         RefreshRead, RefreshStore, CreateThreshold, Deactivate, AcknowledgeAlert, Start, Shutdown,
         Unsubscribe
<1> QED BY <1>1, <1>2, <1>3, <1>4, <1>5, <1>6

LEMMA AckedStep == EvaluationInv /\ [Next]_vars => AckedIsEvaluated'
<1> SUFFICES ASSUME TypeOK, LoopInv, AckedIsEvaluated, [Next]_vars,
                    NEW r \in Readings, NEW t \in ackedWith'[r]
             PROVE  Handled(r, t)'
  BY DEF EvaluationInv, AckedIsEvaluated, Handled, AlertsFor
<1>1. Handled(r, t)
  <2>1. CASE Ack
    <3>1. cur # NoReading /\ todo = {} /\ ackedWith' = [ackedWith EXCEPT ![cur] = snapshot]
      BY <2>1 DEF Ack, Done, Busy
    <3>2. CASE r = cur
      BY <3>1, <3>2 DEF LoopInv, TypeOK
    <3>3. CASE r # cur
      BY <3>1, <3>3 DEF AckedIsEvaluated, Handled, TypeOK
    <3> QED BY <3>2, <3>3
  <2>2. CASE ackedWith' = ackedWith
    BY <2>2 DEF AckedIsEvaluated, Handled
  <2>3. Ack \/ ackedWith' = ackedWith
    BY DEF Next, vars, history, Publish, Deliver, Callback, NakOnShutdown, NakMalformed, Begin,
           SaveAlert, BroadcastAlert, AckLost, SaveAlertFails, RefreshRead, RefreshStore,
           CreateThreshold, Deactivate, AcknowledgeAlert, Start, Shutdown, Unsubscribe, Die
  <2> QED BY <2>1, <2>2, <2>3
<1> QED BY <1>1, HandledIsStable

\* Every threshold a reading exceeded has a row, or its save returned an error, by
\* the time the reading is acknowledged: no crash or redelivery can undo it.
THEOREM AckedMeansEvaluated == Spec => []AckedIsEvaluated
<1>1. Init => EvaluationInv
  BY TypeInit DEF Init, EvaluationInv, LoopInv, AckedIsEvaluated
<1>2. EvaluationInv /\ [Next]_vars => EvaluationInv'
  BY TypeStep, LoopStep, AckedStep DEF EvaluationInv
<1>3. EvaluationInv => AckedIsEvaluated
  BY DEF EvaluationInv
<1> QED BY <1>1, <1>2, <1>3, PTL DEF Spec

-------------------------------------------------------------------------------
(* Acknowledged alerts *)

StaysAcknowledged ==
  \A i \in DOMAIN fired : fired[i].ackedBy # Nobody =>
    i \in DOMAIN fired' /\ fired'[i].ackedBy # Nobody

LEMMA InsertKeepsAcknowledged ==
  ASSUME TypeOK, NEW a \in Alert, fired' = Append(fired, a)
  PROVE  StaysAcknowledged
<1>1. fired \in Seq(Alert)
  BY DEF TypeOK
<1> QED BY <1>1 DEF StaysAcknowledged

\* What a user acknowledged stays acknowledged: no insert, crash or redelivery
\* touches an old row, and an acknowledgement always names a user.
THEOREM AcknowledgementsStand == Spec => AcknowledgedStays
<1>1. TypeOK /\ [Next]_vars => [StaysAcknowledged]_vars
  <2> SUFFICES ASSUME TypeOK, Next PROVE StaysAcknowledged
    BY DEF vars, database
  <2> USE DEF database
  <2>1. CASE \E t \in Thresholds : SaveAlert(t) \/ SaveAlertFails(t)
    <3>1. PICK t \in Thresholds : SaveAlert(t) \/ SaveAlertFails(t)
      BY <2>1
    <3>2. fired' = fired \/ fired' = Append(fired, NewAlert(cur, t))
      BY <3>1 DEF SaveAlert, SaveAlertFails
    <3>3. NewAlert(cur, t) \in Alert
      BY <3>1, CurType DEF SaveAlert, SaveAlertFails, NewAlert, Alert
    <3> QED BY <3>2, <3>3, InsertKeepsAcknowledged DEF StaysAcknowledged
  <2>2. CASE \E i \in DOMAIN fired, u \in Users : AcknowledgeAlert(i, u)
    <3>1. PICK i \in DOMAIN fired, u \in Users : fired' = [fired EXCEPT ![i].ackedBy = u]
      BY <2>2 DEF AcknowledgeAlert
    <3>2. fired \in Seq(Alert) /\ u # Nobody
      BY ProcessingAssumption DEF TypeOK
    <3> QED BY <3>1, <3>2 DEF StaysAcknowledged, Alert
  <2>3. CASE fired' = fired
    BY <2>3 DEF StaysAcknowledged
  <2> QED
    BY <2>1, <2>2, <2>3 DEF Next, Publish, Deliver, Callback, NakOnShutdown, NakMalformed, Begin,
       BroadcastAlert, Ack, AckLost, RefreshRead, RefreshStore, CreateThreshold, Deactivate,
       Start, Shutdown, Unsubscribe, Die
<1> QED BY TypeInit, TypeStep, <1>1, PTL DEF Spec, AcknowledgedStays, StaysAcknowledged

-------------------------------------------------------------------------------
(* At most one alert per delivery *)

\* The number of rows for r and t.
Rows(r, t) == Cardinality(AlertsFor(r, t))

LEMMA RowsType == TypeOK => \A r, t : Rows(r, t) \in Nat
<1> SUFFICES ASSUME TypeOK, NEW r, NEW t PROVE Rows(r, t) \in Nat
  OBVIOUS
<1>1. fired \in Seq(Alert) /\ AlertsFor(r, t) \in SUBSET DOMAIN fired
  BY DEF TypeOK, AlertsFor
<1> QED BY <1>1, PositionsFinite DEF Rows

LEMMA InsertAddsRow ==
  ASSUME TypeOK, NEW r \in Readings, NEW t \in Thresholds,
         fired' = Append(fired, NewAlert(r, t)),
         NEW x \in Readings, NEW y \in Thresholds
  PROVE  Rows(x, y)' = IF x = r /\ y = t THEN Rows(x, y) + 1 ELSE Rows(x, y)
<1> DEFINE n == Len(fired) + 1
           P == AlertsFor(x, y)
           Q == AlertsFor(x, y)'
<1>1. fired \in Seq(Alert) /\ NewAlert(r, t) \in Alert
  BY NewAlertType DEF TypeOK
<1>2. /\ DOMAIN fired' = DOMAIN fired \union {n} /\ n \notin DOMAIN fired
      /\ \A i \in DOMAIN fired : fired'[i] = fired[i]
      /\ fired'[n].reading = r /\ fired'[n].threshold = t
  BY <1>1, AppendFacts, NewAlertType
<1>3. IsFiniteSet(P)
  BY <1>1, PositionsFinite DEF AlertsFor
<1>4. CASE x = r /\ y = t
  <2>1. Q = P \union {n} /\ n \notin P
    BY <1>2, <1>4 DEF AlertsFor
  <2> HIDE DEF P, Q, n
  <2>2. Cardinality(Q) = Cardinality(P) + 1
    BY <1>3, <2>1, FS_AddElement
  <2> QED BY <1>4, <2>2 DEF Rows, P, Q
<1>5. CASE ~(x = r /\ y = t)
  <2>1. Q = P
    BY <1>2, <1>5 DEF AlertsFor
  <2> QED BY <1>5, <2>1 DEF Rows
<1> QED BY <1>4, <1>5

LEMMA OthersKeepRows ==
  ASSUME FiredKept, DOMAIN fired' = DOMAIN fired, NEW x, NEW y
  PROVE  Rows(x, y)' = Rows(x, y)
<1>1. AlertsFor(x, y)' = AlertsFor(x, y)
  BY DEF FiredKept, AlertsFor
<1> QED BY <1>1 DEF Rows

\* OneAlertPerDelivery is not inductive: a delivery that waits in the inbox, or
\* whose reading is being checked, still has its alert to fire.
Due(r, t) == IF cur = r /\ t \in todo THEN 1 ELSE 0

DeliveryInv ==
  \A r \in Readings, t \in Thresholds :
    Rows(r, t) + Occurs(inbox, r) + Due(r, t) <= handed[r]

CountsTyped ==
  \A r \in Readings, t \in Thresholds :
    /\ Rows(r, t) \in Nat /\ Occurs(inbox, r) \in Nat
    /\ Due(r, t) \in {0, 1} /\ handed[r] \in Nat

LEMMA CountsType == TypeOK => CountsTyped
<1> SUFFICES ASSUME TypeOK PROVE CountsTyped
  OBVIOUS
<1>1. inbox \in Seq(stream) /\ handed \in [Readings -> Nat]
  BY DEF TypeOK
<1> QED BY <1>1, RowsType, OccursType DEF CountsTyped, Due

\* A step that neither inserts a row nor starts to check a reading.
LEMMA DeliveryKept ==
  ASSUME TypeOK, TypeOK', DeliveryInv, FiredKept, DOMAIN fired' = DOMAIN fired,
         handed' = handed,
         cur' = NoReading \/ UNCHANGED <<cur, todo>>,
         \/ inbox' = inbox
         \/ inbox' = <<>>
         \/ inbox # <<>> /\ inbox' = Tail(inbox)
  PROVE  DeliveryInv'
<1> SUFFICES ASSUME NEW r \in Readings, NEW t \in Thresholds
             PROVE  Rows(r, t)' + Occurs(inbox', r) + Due(r, t)' <= handed'[r]
  BY DEF DeliveryInv, Occurs
<1>1. Rows(r, t)' = Rows(r, t)
  BY OthersKeepRows
<1>2. Due(r, t)' <= Due(r, t)
  BY ProcessingAssumption DEF Due
<1>3. Occurs(inbox', r) <= Occurs(inbox, r)
  <2>1. inbox \in Seq(stream) /\ Occurs(inbox, r) \in Nat
    BY CountsType DEF TypeOK, CountsTyped
  <2>2. CASE inbox # <<>> /\ inbox' = Tail(inbox)
    BY <2>1, <2>2, OccursTail
  <2> QED BY <2>1, <2>2, OccursNone
<1>4. Occurs(inbox', r) \in Nat /\ Due(r, t)' \in {0, 1}
  <2>1. inbox' \in Seq(stream')
    BY DEF TypeOK
  <2> QED BY <2>1, OccursType DEF Due
<1>5. Rows(r, t) + Occurs(inbox, r) + Due(r, t) <= handed[r]
  BY DEF DeliveryInv
<1> QED BY <1>1, <1>2, <1>3, <1>4, <1>5, CountsType DEF CountsTyped

LEMMA DeliveryDeliver ==
  ASSUME TypeOK, DeliveryInv, NEW s \in Readings, Deliver(s)
  PROVE  DeliveryInv'
<1> SUFFICES ASSUME NEW r \in Readings, NEW t \in Thresholds
             PROVE  Rows(r, t)' + Occurs(inbox', r) + Due(r, t)' <= handed'[r]
  BY DEF DeliveryInv, Occurs
<1>1. /\ inbox \in Seq(stream) /\ s \in stream /\ inbox' = Append(inbox, s)
      /\ handed' = [handed EXCEPT ![s] = @ + 1] /\ handed \in [Readings -> Nat]
      /\ UNCHANGED <<fired, cur, todo>>
  BY DEF Deliver, TypeOK, database, callback
<1>2. Rows(r, t)' = Rows(r, t) /\ Due(r, t)' = Due(r, t)
  BY <1>1 DEF Rows, AlertsFor, Due
<1>3. Occurs(inbox', r) = IF s = r THEN Occurs(inbox, r) + 1 ELSE Occurs(inbox, r)
  BY <1>1, OccursAppend
<1>4. handed'[r] = IF s = r THEN handed[r] + 1 ELSE handed[r]
  BY <1>1
<1>5. Rows(r, t) + Occurs(inbox, r) + Due(r, t) <= handed[r]
  BY DEF DeliveryInv
<1> QED BY <1>2, <1>3, <1>4, <1>5, CountsType DEF CountsTyped

LEMMA DeliveryBegin ==
  ASSUME TypeOK, DeliveryInv, Begin
  PROVE  DeliveryInv'
<1> SUFFICES ASSUME NEW r \in Readings, NEW t \in Thresholds
             PROVE  Rows(r, t)' + Occurs(inbox', r) + Due(r, t)' <= handed'[r]
  BY DEF DeliveryInv, Occurs
<1>1. /\ inbox \in Seq(stream) /\ inbox # <<>> /\ inbox' = Tail(inbox)
      /\ cur = NoReading /\ cur' = Head(inbox)
      /\ UNCHANGED <<fired, handed>>
  BY DEF Begin, TypeOK, database, jetstream
<1>2. Rows(r, t)' = Rows(r, t)
  BY <1>1 DEF Rows, AlertsFor
<1>3. Occurs(inbox', r) = IF cur' = r THEN Occurs(inbox, r) - 1 ELSE Occurs(inbox, r)
  BY <1>1, OccursTail
<1>4. Due(r, t) = 0 /\ Due(r, t)' \in {0, 1} /\ (cur' # r => Due(r, t)' = 0)
  BY <1>1, ProcessingAssumption DEF Due
<1>5. Rows(r, t) + Occurs(inbox, r) + Due(r, t) <= handed[r]
  BY DEF DeliveryInv
<1> QED BY <1>1, <1>2, <1>3, <1>4, <1>5, CountsType DEF CountsTyped

\* The row that is inserted is the one that was due.
LEMMA DeliveryInsert ==
  ASSUME TypeOK, DeliveryInv, NEW s \in Thresholds, s \in todo, cur \in Readings,
         fired' = Append(fired, NewAlert(cur, s)), todo' = todo \ {s},
         UNCHANGED <<inbox, handed, cur>>
  PROVE  DeliveryInv'
<1> SUFFICES ASSUME NEW r \in Readings, NEW t \in Thresholds
             PROVE  Rows(r, t)' + Occurs(inbox', r) + Due(r, t)' <= handed'[r]
  BY DEF DeliveryInv, Occurs
<1>1. Rows(r, t)' = IF r = cur /\ t = s THEN Rows(r, t) + 1 ELSE Rows(r, t)
  BY InsertAddsRow
<1>2. Due(r, t)' = IF r = cur /\ t = s THEN Due(r, t) - 1 ELSE Due(r, t)
  BY DEF Due
<1>3. Rows(r, t) + Occurs(inbox, r) + Due(r, t) <= handed[r]
  BY DEF DeliveryInv
<1> QED BY <1>1, <1>2, <1>3, CountsType DEF CountsTyped

\* The save failed, and left no row: one alert less is due.
LEMMA DeliveryDrop ==
  ASSUME TypeOK, DeliveryInv, todo' \subseteq todo, UNCHANGED <<inbox, handed, cur, fired>>
  PROVE  DeliveryInv'
<1> SUFFICES ASSUME NEW r \in Readings, NEW t \in Thresholds
             PROVE  Rows(r, t)' + Occurs(inbox', r) + Due(r, t)' <= handed'[r]
  BY DEF DeliveryInv, Occurs
<1>1. Rows(r, t)' = Rows(r, t)
  BY DEF Rows, AlertsFor
<1>2. Due(r, t)' <= Due(r, t) /\ Due(r, t)' \in {0, 1}
  BY DEF Due
<1>3. Rows(r, t) + Occurs(inbox, r) + Due(r, t) <= handed[r]
  BY DEF DeliveryInv
<1> QED BY <1>1, <1>2, <1>3, CountsType DEF CountsTyped

LEMMA DeliveryStep == TypeOK /\ TypeOK' /\ DeliveryInv /\ [Next]_vars => DeliveryInv'
<1> SUFFICES ASSUME TypeOK, TypeOK', DeliveryInv, [Next]_vars PROVE DeliveryInv'
  OBVIOUS
<1> USE DEF jetstream, database, callback, engine, process
<1>0. fired' = fired => FiredKept /\ DOMAIN fired' = DOMAIN fired
  BY KeptWhenUnchanged
<1>1. CASE \E r \in Readings : Deliver(r)
  BY <1>1, DeliveryDeliver
<1>2. CASE Begin
  BY <1>2, DeliveryBegin
<1>3. CASE \E t \in Thresholds : SaveAlert(t) \/ SaveAlertFails(t)
  <2>1. PICK t \in Thresholds : SaveAlert(t) \/ SaveAlertFails(t)
    BY <1>3
  <2>2. /\ cur \in Readings /\ t \in todo /\ todo' = todo \ {t}
        /\ fired' \in {fired, Append(fired, NewAlert(cur, t))}
        /\ UNCHANGED <<inbox, handed, cur>>
    BY <2>1, CurType DEF SaveAlert, SaveAlertFails
  <2>3. CASE fired' = fired
    BY <2>2, <2>3, DeliveryDrop
  <2>4. CASE fired' = Append(fired, NewAlert(cur, t))
    BY <2>2, <2>4, DeliveryInsert
  <2> QED BY <2>2, <2>3, <2>4
<1>4. CASE \E i \in DOMAIN fired, u \in Users : AcknowledgeAlert(i, u)
  <2>1. PICK i \in DOMAIN fired, u \in Users : AcknowledgeAlert(i, u)
    BY <1>4
  <2>2. fired \in Seq(Alert) /\ fired' = [fired EXCEPT ![i].ackedBy = u]
    BY <2>1 DEF AcknowledgeAlert, TypeOK
  <2>3. FiredKept /\ DOMAIN fired' = DOMAIN fired
    BY <2>2, UpdateFacts
  <2>4. UNCHANGED <<handed, inbox, cur, todo>>
    BY <2>1 DEF AcknowledgeAlert
  <2> QED BY <2>3, <2>4, DeliveryKept
<1>5. CASE \/ NakOnShutdown \/ NakMalformed \/ BroadcastAlert \/ Ack \/ AckLost
           \/ Unsubscribe \/ Die
  <2>1. /\ UNCHANGED <<fired, handed>>
        /\ cur' = NoReading \/ UNCHANGED <<cur, todo>>
        /\ \/ inbox' = inbox
           \/ inbox' = <<>>
           \/ inbox # <<>> /\ inbox' = Tail(inbox)
    BY <1>5 DEF NakOnShutdown, NakMalformed, BroadcastAlert, Ack, AckLost, Unsubscribe, Die
  <2> QED BY <1>0, <2>1, DeliveryKept
<1>6. CASE \/ \E r \in Readings : Publish(r)
           \/ RefreshRead \/ RefreshStore
           \/ \E t \in Thresholds : CreateThreshold(t) \/ Deactivate(t)
           \/ Start \/ Shutdown
           \/ UNCHANGED vars
  <2>1. UNCHANGED <<fired, handed, cur, todo, inbox>>
    BY <1>6 DEF Publish, RefreshRead, RefreshStore, CreateThreshold, Deactivate, Start, Shutdown, vars
  <2> QED BY <1>0, <2>1, DeliveryKept
<1> QED BY <1>1, <1>2, <1>3, <1>4, <1>5, <1>6 DEF Next, Callback

\* For one delivery of a reading the engine never stores two alerts for one
\* threshold, through any number of failed saves that did commit, crashes,
\* shutdowns, lost acks and redeliveries of a copy that still waits.
THEOREM OneAlertEach == Spec => []OneAlertPerDelivery
<1>1. Init => DeliveryInv
  <2> SUFFICES ASSUME Init, NEW r \in Readings, NEW t \in Thresholds
               PROVE  Rows(r, t) + Occurs(inbox, r) + Due(r, t) <= handed[r]
    BY DEF DeliveryInv
  <2>1. AlertsFor(r, t) = {} /\ inbox = <<>> /\ handed[r] = 0
    BY DEF Init, AlertsFor
  <2>2. Rows(r, t) = 0 /\ Occurs(inbox, r) = 0
    BY <2>1, FS_EmptySet, OccursNone DEF Rows
  <2>3. Due(r, t) = 0
    BY DEF Init, Due
  <2> QED BY <2>1, <2>2, <2>3
<1>2. TypeOK /\ DeliveryInv => OneAlertPerDelivery
  <2> SUFFICES ASSUME TypeOK, DeliveryInv, NEW r \in Readings, NEW t \in Thresholds
               PROVE  Rows(r, t) <= handed[r]
    BY DEF OneAlertPerDelivery, Rows
  <2>1. Rows(r, t) + Occurs(inbox, r) + Due(r, t) <= handed[r]
    BY DEF DeliveryInv
  <2> QED BY <2>1, CountsType DEF CountsTyped
<1> QED BY <1>1, <1>2, TypeInit, TypeStep, DeliveryStep, PTL DEF Spec
================================================================================
