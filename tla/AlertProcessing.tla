---------------------------- MODULE AlertProcessing ----------------------------
(***************************************************************************)
(* From an analyzed reading to a fired alert (services/alert-engine): the  *)
(* NATS callback of AnalysisConsumer.Start, AlertEngine.ProcessReading and *)
(* fireAlert, the threshold cache that refreshThresholds fills, the tables *)
(* alert_thresholds and fired_alerts, and AcknowledgeAlert.  The process   *)
(* may crash, be shut down and be started again; the durable JetStream     *)
(* consumer outside it redelivers what was not acknowledged.               *)
(*                                                                         *)
(* Broadcasting is one step here; AlertFanout opens it up.                 *)
(***************************************************************************)
EXTENDS Naturals, Sequences, FiniteSets

CONSTANTS
  Readings,     \* the messages published on readings.analyzed
  Reading,      \* Reading[r]: [wellFormed, zone, level], level in steps of 10 dB
  Thresholds,   \* the rows alert_thresholds may hold
  Threshold,    \* Threshold[t]: [zone, max]
  AllZones,     \* the empty h3_index of a threshold for every zone
  Users,        \* who may acknowledge an alert
  Nobody,       \* acknowledged_by is NULL
  NoReading,    \* the callback is idle
  MaxDeliver,   \* nats.MaxDeliver, 3 in the code
  MaxFaults     \* bound on crashes, shutdowns, failed saves and lost acks

ASSUME ProcessingAssumption ==
  /\ \A r \in Readings : Reading[r].wellFormed \in BOOLEAN /\ Reading[r].level \in Nat
  /\ \A t \in Thresholds : Threshold[t].max \in Nat
  /\ NoReading \notin Readings
  /\ Nobody \notin Users
  /\ MaxDeliver \in Nat \ {0}
  /\ MaxFaults \in Nat

VARIABLES
  \* JetStream
  stream,       \* the readings published so far; the stream keeps them 24 hours
  durable,      \* the consumer alert-engine-consumer exists on the server
  deliveries,   \* deliveries[r]: how often this consumer delivered r
  acked,        \* the readings this consumer has an ack for
  \* the process
  proc,         \* "down", "running", "stopping" (ctx cancelled), "unsubscribed"
  owner,        \* the library created the durable for this process
  inbox,        \* messages delivered to the subscription, not yet in the callback
  cur,          \* the reading in ProcessReading, or NoReading
  snapshot,     \* the thresholds ProcessReading found exceeded by it
  todo,         \* those of them still to be checked
  unsent,       \* alerts saved by fireAlert and not broadcast yet
  cache,        \* AlertEngine.thresholds
  rows,         \* what refreshThresholds read and did not store yet
  \* the database
  table,        \* alert_thresholds: table[t] is "none", "active" or "inactive"
  fired,        \* fired_alerts, in insertion order
  \* history
  broadcast,    \* the alerts that were broadcast
  handed,       \* handed[r]: deliveries of r, over all consumers
  ackedWith,    \* ackedWith[r]: the snapshot of the last processing of r that was acked
  failed,       \* <<r, t>> whose save returned an error
  faults        \* crashes, shutdowns, failed saves and lost acks so far

jetstream == <<stream, durable, deliveries, acked, handed>>
database  == <<table, fired>>
callback  == <<cur, snapshot, todo, unsent>>
engine    == <<cache, rows>>
process   == <<proc, owner, inbox>>
history   == <<broadcast, ackedWith, failed>>
vars == <<jetstream, database, callback, engine, process, history, faults>>

\* refreshThresholds runs in one goroutine: at most one result is pending.
NoRows == <<>>

Alert == [reading : Readings, threshold : Thresholds, ackedBy : Users \union {Nobody}]

TypeOK ==
  /\ stream \subseteq Readings /\ acked \subseteq stream
  /\ durable \in BOOLEAN /\ owner \in BOOLEAN
  /\ deliveries \in [Readings -> 0..MaxDeliver]
  /\ handed \in [Readings -> Nat]
  /\ proc \in {"down", "running", "stopping", "unsubscribed"}
  /\ inbox \in Seq(stream)
  /\ cur \in stream \union {NoReading}
  /\ snapshot \subseteq Thresholds /\ todo \subseteq snapshot /\ cache \subseteq Thresholds
  /\ table \in [Thresholds -> {"none", "active", "inactive"}]
  /\ unsent \subseteq DOMAIN fired
  /\ rows = NoRows \/ rows \in [set : SUBSET Thresholds]
  /\ fired \in Seq(Alert)
  /\ broadcast \subseteq Nat
  /\ ackedWith \in [Readings -> SUBSET Thresholds]
  /\ failed \subseteq Readings \X Thresholds
  /\ faults \in 0..MaxFaults

\* Before the first start; the migrations may have seeded any thresholds.
Init ==
  /\ stream = {} /\ durable = FALSE /\ acked = {}
  /\ deliveries = [r \in Readings |-> 0]
  /\ handed = [r \in Readings |-> 0]
  /\ proc = "down" /\ owner = FALSE /\ inbox = <<>>
  /\ cur = NoReading /\ snapshot = {} /\ todo = {} /\ unsent = {}
  /\ cache = {} /\ rows = NoRows
  /\ table \in [Thresholds -> {"none", "active"}] /\ fired = <<>>
  /\ broadcast = {} /\ failed = {}
  /\ ackedWith = [r \in Readings |-> {}]
  /\ faults = 0

-------------------------------------------------------------------------------
(* JetStream, as the consumer uses it *)

Publish(r) ==
  /\ r \notin stream
  /\ stream' = stream \union {r}
  /\ UNCHANGED <<durable, deliveries, acked, handed, database, callback, engine,
                 process, history, faults>>

\* The server hands r to the subscription: for the first time, or again because
\* it was nacked or 30 s went by without an ack, even if the earlier copy is
\* still waiting in the inbox or being processed.
Deliver(r) ==
  /\ durable
  /\ proc \in {"running", "stopping"}
  /\ r \in stream \ acked
  /\ deliveries[r] < MaxDeliver
  /\ deliveries' = [deliveries EXCEPT ![r] = @ + 1]
  /\ handed' = [handed EXCEPT ![r] = @ + 1]
  /\ inbox' = Append(inbox, r)
  /\ UNCHANGED <<stream, durable, acked, database, callback, engine, proc, owner,
                 history, faults>>

-------------------------------------------------------------------------------
(* The callback of AnalysisConsumer.Start *)

\* ctx is done: the message is nacked.
NakOnShutdown ==
  /\ proc = "stopping"
  /\ cur = NoReading
  /\ inbox # <<>>
  /\ inbox' = Tail(inbox)
  /\ UNCHANGED <<jetstream, database, callback, engine, proc, owner, history, faults>>

\* The message does not unmarshal: it is nacked.
NakMalformed ==
  /\ proc = "running"
  /\ cur = NoReading
  /\ inbox # <<>>
  /\ ~Reading[Head(inbox)].wellFormed
  /\ inbox' = Tail(inbox)
  /\ UNCHANGED <<jetstream, database, callback, engine, proc, owner, history, faults>>

Exceeds(r, t) ==
  /\ Threshold[t].zone = AllZones \/ Threshold[t].zone = Reading[r].zone
  /\ Reading[r].level > Threshold[t].max

\* ProcessReading takes the cached thresholds under the read lock and passes
\* over those the reading does not exceed; a level of 0 or below exceeds none.
Breached(r) == {t \in cache : Reading[r].level > 0 /\ Exceeds(r, t)}

Begin ==
  /\ proc = "running"
  /\ cur = NoReading
  /\ inbox # <<>>
  /\ Reading[Head(inbox)].wellFormed
  /\ cur' = Head(inbox)
  /\ snapshot' = Breached(cur')
  /\ todo' = snapshot'
  /\ inbox' = Tail(inbox)
  /\ UNCHANGED <<jetstream, database, unsent, engine, proc, owner, history, faults>>

\* ProcessReading is under way.
Busy == proc # "down" /\ cur # NoReading

\* A fired_alerts row as fireAlert makes it: a new id, not acknowledged.
NewAlert(r, t) == [reading |-> r, threshold |-> t, ackedBy |-> Nobody]

\* Mutant of SaveAlert: one row per reading and threshold, which a redelivery
\* writes again.
SaveAlertUpserts(t) ==
  LET old == {i \in DOMAIN fired : fired[i].reading = cur /\ fired[i].threshold = t}
  IN  /\ Busy
      /\ proc = "running"
      /\ unsent = {}
      /\ t \in todo
      /\ fired' = IF old = {} THEN Append(fired, NewAlert(cur, t))
                  ELSE [i \in DOMAIN fired |-> IF i \in old THEN NewAlert(cur, t) ELSE fired[i]]
      /\ unsent' = IF old = {} THEN {Len(fired) + 1} ELSE old
      /\ todo' = todo \ {t}
      /\ UNCHANGED <<jetstream, table, cur, snapshot, engine, process, history, faults>>

\* fireAlert up to SaveAlert, which inserts a row with a new id ...
SaveAlert(t) ==
  /\ Busy
  /\ proc = "running"
  /\ unsent = {}
  /\ t \in todo
  /\ fired' = Append(fired, NewAlert(cur, t))
  /\ unsent' = {Len(fired) + 1}
  /\ todo' = todo \ {t}
  /\ UNCHANGED <<jetstream, table, cur, snapshot, engine, process, history, faults>>

\* Mutants of SaveAlertFails: the alert is broadcast although it was not saved ...
SaveAlertFailsLoudly(t) ==
  /\ Busy
  /\ unsent = {}
  /\ proc = "running" => faults < MaxFaults
  /\ t \in todo
  /\ unsent' = {Len(fired) + 1}
  /\ failed' = failed \union {<<cur, t>>}
  /\ todo' = todo \ {t}
  /\ faults' = IF proc = "running" THEN faults + 1 ELSE faults
  /\ UNCHANGED <<jetstream, database, cur, snapshot, engine, process, broadcast, ackedWith>>

\* ... and the insert is tried again with a new id after an error.
SaveAlertRetries(t) ==
  /\ Busy
  /\ unsent = {}
  /\ proc = "running" /\ faults < MaxFaults
  /\ t \in todo
  /\ fired' \in {fired, Append(fired, NewAlert(cur, t))}
  /\ faults' = faults + 1
  /\ UNCHANGED <<jetstream, table, callback, engine, process, broadcast, ackedWith, failed>>

\* ... or fails: nothing is broadcast, the error is logged and the loop goes on.
\* Once ctx is cancelled every save fails.  A timeout or a cancelled ctx may also
\* hide a commit: the row is there.
SaveAlertFails(t) ==
  /\ Busy
  /\ unsent = {}
  /\ proc = "running" => faults < MaxFaults
  /\ t \in todo
  /\ fired' \in {fired, Append(fired, NewAlert(cur, t))}
  /\ failed' = failed \union {<<cur, t>>}
  /\ todo' = todo \ {t}
  /\ faults' = IF proc = "running" THEN faults + 1 ELSE faults
  /\ UNCHANGED <<jetstream, table, cur, snapshot, unsent, engine, process, broadcast, ackedWith>>

BroadcastAlert ==
  /\ Busy
  /\ unsent # {}
  /\ broadcast' = broadcast \union unsent
  /\ unsent' = {}
  /\ UNCHANGED <<jetstream, database, cur, snapshot, todo, engine, process, ackedWith, failed, faults>>

\* Mutants of Done: the message is acked before the loop ends, or never when no
\* threshold was exceeded.
DoneEarly == Busy /\ unsent = {}

DoneIfFired == Busy /\ todo = {} /\ unsent = {} /\ snapshot # {}

Done == Busy /\ todo = {} /\ unsent = {}

\* ProcessReading returns nil whatever happened: the message is acked.  An ack
\* for a consumer that Unsubscribe deleted goes nowhere.
Ack ==
  /\ Done
  /\ acked' = IF durable THEN acked \union {cur} ELSE acked
  /\ ackedWith' = [ackedWith EXCEPT ![cur] = snapshot]
  /\ cur' = NoReading
  /\ snapshot' = {}
  /\ UNCHANGED <<stream, durable, deliveries, handed, database, todo, unsent, engine,
                 process, broadcast, failed, faults>>

\* The ack does not reach the server; the callback only logs it.
AckLost ==
  /\ Done
  /\ faults < MaxFaults
  /\ cur' = NoReading
  /\ snapshot' = {}
  /\ faults' = faults + 1
  /\ UNCHANGED <<jetstream, database, todo, unsent, engine, process, history>>

-------------------------------------------------------------------------------
(* The loop of AlertEngine.Start: refreshThresholds *)

GetActiveThresholds == {t \in Thresholds : table[t] = "active"}

\* The query; if it fails nothing changes.
RefreshRead ==
  /\ proc = "running"
  /\ rows = NoRows
  /\ rows' = [set |-> GetActiveThresholds]
  /\ UNCHANGED <<jetstream, database, callback, cache, process, history, faults>>

\* Mutant of RefreshStore: the rows are merged into the cache.
RefreshMerge ==
  /\ proc # "down"
  /\ rows # NoRows
  /\ cache' = cache \union rows.set
  /\ rows' = NoRows
  /\ UNCHANGED <<jetstream, database, callback, process, history, faults>>

RefreshStore ==
  /\ proc # "down"
  /\ rows # NoRows
  /\ cache' = rows.set
  /\ rows' = NoRows
  /\ UNCHANGED <<jetstream, database, callback, process, history, faults>>

-------------------------------------------------------------------------------
(* The database, written by RPC handlers and by operators *)

CreateThreshold(t) ==
  /\ proc # "down"
  /\ table[t] = "none"
  /\ table' = [table EXCEPT ![t] = "active"]
  /\ UNCHANGED <<jetstream, fired, callback, engine, process, history, faults>>

\* No RPC clears is_active: an operator does, in SQL.
Deactivate(t) ==
  /\ table[t] = "active"
  /\ table' = [table EXCEPT ![t] = "inactive"]
  /\ UNCHANGED <<jetstream, fired, callback, engine, process, history, faults>>

\* The UPDATE matches the row by its id alone.
AcknowledgeAlert(i, u) ==
  /\ proc # "down"
  /\ i \in DOMAIN fired
  /\ fired' = [fired EXCEPT ![i].ackedBy = u]
  /\ UNCHANGED <<jetstream, table, callback, engine, process, history, faults>>

-------------------------------------------------------------------------------
(* The life of the process *)

\* consumer.Start and engine.Start begin side by side.  Subscribe binds to the
\* durable if it exists and creates it otherwise, from the first message on.
Start ==
  /\ proc = "down"
  /\ proc' = "running"
  /\ owner' = ~durable
  /\ durable' = TRUE
  /\ deliveries' = IF durable THEN deliveries ELSE [r \in Readings |-> 0]
  /\ acked' = IF durable THEN acked ELSE {}
  /\ UNCHANGED <<stream, handed, database, callback, engine, inbox, history, faults>>

\* ctx is cancelled: by main after SIGTERM, or by the errgroup because another of
\* its goroutines failed.  In the second case nothing stops the gRPC server: the
\* refresh loop and the consumer end, the process and its RPCs may live on.
Shutdown ==
  /\ proc = "running"
  /\ faults < MaxFaults
  /\ proc' = "stopping"
  /\ faults' = faults + 1
  /\ UNCHANGED <<jetstream, database, callback, engine, owner, inbox, history>>

\* consumer.Start sees ctx.Done.  The library deletes a durable it created.
Unsubscribe ==
  /\ proc = "stopping"
  /\ proc' = "unsubscribed"
  /\ inbox' = <<>>
  /\ durable' = ~owner
  /\ UNCHANGED <<stream, deliveries, acked, handed, database, callback, engine, owner,
                 history, faults>>

\* The process is gone: killed, crashed, or done stopping.
Die ==
  /\ proc # "down"
  /\ proc = "running" => faults < MaxFaults
  /\ faults' = IF proc = "running" THEN faults + 1 ELSE faults
  /\ proc' = "down"
  /\ inbox' = <<>> /\ cur' = NoReading
  /\ snapshot' = {} /\ todo' = {} /\ unsent' = {}
  /\ cache' = {} /\ rows' = NoRows
  /\ UNCHANGED <<jetstream, database, owner, history>>

-------------------------------------------------------------------------------
Callback ==
  \/ NakOnShutdown \/ NakMalformed \/ Begin
  \/ \E t \in Thresholds : SaveAlert(t)
  \/ BroadcastAlert \/ Ack

Next ==
  \/ \E r \in Readings : Publish(r) \/ Deliver(r)
  \/ Callback
  \/ \E t \in Thresholds : SaveAlertFails(t)
  \/ AckLost
  \/ RefreshRead \/ RefreshStore
  \/ \E t \in Thresholds : CreateThreshold(t) \/ Deactivate(t)
  \/ \E i \in DOMAIN fired, u \in Users : AcknowledgeAlert(i, u)
  \/ Start \/ Shutdown \/ Unsubscribe \/ Die

Spec == Init /\ [][Next]_vars

\* JetStream delivers what is due, the goroutines of the process run, the
\* database answers, and the supervisor restarts a process that went down
\* (restart: unless-stopped).  A process whose ctx was cancelled need not end.
FairSpec ==
  /\ Spec
  /\ \A r \in Readings : WF_vars(Deliver(r))
  /\ WF_vars(Callback)
  /\ WF_vars(RefreshRead) /\ WF_vars(RefreshStore)
  /\ WF_vars(Start) /\ WF_vars(Unsubscribe)

-------------------------------------------------------------------------------
(* Properties *)

AlertsFor(r, t) == {i \in DOMAIN fired : fired[i].reading = r /\ fired[i].threshold = t}

\* An alert that was pushed to subscribers has a row in fired_alerts, through
\* failed saves, crashes and restarts: it can be acknowledged.
BroadcastIsStored == broadcast \subseteq DOMAIN fired

\* At-least-once delivery costs at most one row per delivery, also when a save
\* that failed did commit: no step of the engine inserts an alert twice for one
\* delivery of a reading.  What the documentation promises is OneAlertPerReading.
OneAlertPerDelivery ==
  \A r \in Readings, t \in Thresholds : Cardinality(AlertsFor(r, t)) <= handed[r]

\* docs/ingest-flow.md: fired_alerts is unique on (threshold_id, reading_id), the
\* insert of a second row does nothing, and a write that meets an unavailable
\* database is buffered and retried.  An acknowledged reading would have exactly
\* one row for each threshold it exceeded.
OneAlertPerReading ==
  \A r \in Readings : \A t \in ackedWith[r] : Cardinality(AlertsFor(r, t)) = 1

\* What a user acknowledged stays acknowledged: a reading that is delivered again,
\* after a crash or a lost ack, gets a row of its own and reopens no old one.
AcknowledgedStays ==
  [][\A i \in DOMAIN fired : fired[i].ackedBy # Nobody =>
       i \in DOMAIN fired' /\ fired'[i].ackedBy # Nobody]_vars

\* A reading is acknowledged only after the loop over its snapshot ended: for each
\* threshold it exceeded a row was stored or a save returned an error, also when
\* crashes, redeliveries and a recreated consumer come in between.  It does not
\* speak of a reading that is never acknowledged: one that uses up its MaxDeliver
\* deliveries is lost, and so is an alert whose save failed.
AckedIsEvaluated ==
  \A r \in Readings : \A t \in ackedWith[r] :
    AlertsFor(r, t) # {} \/ <<r, t>> \in failed

\* As long as ctx is not cancelled the cache catches up with the table, with
\* crashes and restarts before and with a refresh that may straddle a change: a
\* new threshold is enforced in the end, and from some time on no process that
\* still refreshes enforces one that was deactivated.
CacheFollowsTable ==
  \A t \in Thresholds :
    /\ table[t] = "active" ~> (t \in cache \/ table[t] # "active" \/ proc # "running")
    /\ table[t] = "inactive" ~> [](proc = "running" => t \notin cache)

\* Every well-formed reading is acknowledged, whether it exceeds a threshold or
\* not and however often it is delivered, unless a fault comes in between.
EveryReadingIsAcked ==
  \A r \in Readings :
    r \in stream /\ Reading[r].wellFormed ~> r \in acked \/ faults > 0
================================================================================
