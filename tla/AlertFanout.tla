------------------------------ MODULE AlertFanout ------------------------------
(***************************************************************************)
(* The subscriber registry and the fan-out of the alert engine:            *)
(* AlertEngine.Subscribe, its unsubscribe closure and broadcastAlert       *)
(* (services/alert-engine/internal/engine/alert_engine.go), together with  *)
(* the SubscribeAlerts handlers that read the channels                     *)
(* (internal/service/alert_service.go).  One process lifetime: a panic     *)
(* sets up to FALSE and everything stops.                                  *)
(*                                                                         *)
(* Each SubscribeAlerts call makes one channel, so a stream also names its *)
(* channel.  An event is the number of its broadcast in log: broadcastAlert*)
(* sends the same pointer to every subscriber.                             *)
(***************************************************************************)
EXTENDS Naturals, Sequences

CONSTANTS
  Streams,        \* SubscribeAlerts calls; each one is made once
  SubscriberIds,  \* the subscriber_id values in use
  EmptyId,        \* the empty subscriber_id
  Zones,          \* H3 cells
  NoZone,         \* the empty h3_index of a heartbeat
  Request,        \* Request[s]: the SubscribeAlertsRequest of stream s
  Readers,        \* the streams whose clients keep reading
  NoStream,       \* a key that is absent from the subscribers map
  BufferSize,     \* capacity of a channel, 100 in the code
  MaxEvents       \* bound on the broadcasts of a behaviour

Severities == 1..3                  \* INFO, WARNING, CRITICAL; 0 is UNSPECIFIED

\* The two goroutines that call broadcastAlert: the NATS callback, through
\* fireAlert, and the loop of Start, through sendHeartbeat.
Goroutines == {"consumer", "ticker"}

ASSUME FanoutAssumption ==
  /\ Request \in [Streams -> [id          : SubscriberIds \union {EmptyId},
                              minSeverity : 0..3,
                              zones       : SUBSET Zones]]
  /\ Readers \subseteq Streams
  /\ EmptyId \notin SubscriberIds
  /\ NoStream \notin Streams
  /\ BufferSize \in Nat \ {0}
  /\ MaxEvents \in Nat

VARIABLES
  up,           \* the process runs; FALSE after a panic
  subscribers,  \* AlertEngine.subscribers: id -> channel
  buffer,       \* buffer[s]: events queued in the channel of s
  closed,       \* closed[s]: the channel of s was closed
  rpc,          \* rpc[s]: "idle", "open" (handler in its loop) or "returned"
  sent,         \* sent[s]: events that stream.Send wrote on s
  log,          \* the events broadcast so far, in the order of their snapshots
  current,      \* current[g]: the event goroutine g is broadcasting, 0 if none
  targets,      \* targets[g]: channels of g's snapshot it has not visited yet
  since         \* since[s]: Len(log) when s subscribed (history)

vars == <<up, subscribers, buffer, closed, rpc, sent, log, current, targets, since>>

EventNumbers == 1..MaxEvents

Event == [from : Goroutines, severity : Severities, zone : Zones \union {NoZone}]

TypeOK ==
  /\ up \in BOOLEAN
  /\ subscribers \in [SubscriberIds -> Streams \union {NoStream}]
  /\ buffer \in [Streams -> Seq(EventNumbers)]
  /\ \A s \in Streams : Len(buffer[s]) <= BufferSize
  /\ closed \in [Streams -> BOOLEAN]
  /\ rpc \in [Streams -> {"idle", "open", "returned"}]
  /\ sent \in [Streams -> Seq(EventNumbers)]
  /\ log \in Seq(Event)
  /\ Len(log) <= MaxEvents
  /\ current \in [Goroutines -> 0..Len(log)]
  /\ targets \in [Goroutines -> SUBSET Streams]
  /\ since \in [Streams -> 0..Len(log)]

\* NewAlertEngine makes an empty map; no call has been made yet.
Init ==
  /\ up = TRUE
  /\ subscribers = [id \in SubscriberIds |-> NoStream]
  /\ buffer = [s \in Streams |-> <<>>]
  /\ closed = [s \in Streams |-> FALSE]
  /\ rpc = [s \in Streams |-> "idle"]
  /\ sent = [s \in Streams |-> <<>>]
  /\ log = <<>>
  /\ current = [g \in Goroutines |-> 0]
  /\ targets = [g \in Goroutines |-> {}]
  /\ since = [s \in Streams |-> 0]

-------------------------------------------------------------------------------
(* broadcastAlert *)

\* The events goroutine g may broadcast: the callback fires alerts that carry
\* the severity of a threshold and the cell of a reading, the loop of Start
\* heartbeats of severity INFO with no cell.
EventsOf(g) ==
  IF g = "ticker" THEN [from : {g}, severity : {1}, zone : {NoZone}]
                  ELSE [from : {g}, severity : Severities, zone : Zones]

\* The snapshot of the subscribers map.
Registered == {subscribers[id] : id \in SubscriberIds} \ {NoStream}

\* broadcastAlert up to RUnlock: copy the map under the read lock.  The bound
\* is on the broadcasts; with no subscriber the broadcast is over at once.
Snapshot(g) ==
  /\ up
  /\ targets[g] = {}
  /\ Len(log) < MaxEvents
  /\ \E e \in EventsOf(g) : log' = Append(log, e)
  /\ targets' = [targets EXCEPT ![g] = Registered]
  /\ current' = [current EXCEPT ![g] = Len(log) + 1]
  /\ UNCHANGED <<up, subscribers, buffer, closed, rpc, sent, since>>

\* Faulty variants of the send, which the properties below rule out: a copy that
\* is never worked off, the live map instead of the copy, a full channel that costs
\* its owner the subscription, a blocking send.
SendRepeatedly(g, s) ==
  /\ up /\ s \in targets[g] /\ ~closed[s] /\ Len(buffer[s]) < BufferSize
  /\ buffer' = [buffer EXCEPT ![s] = Append(@, current[g])]
  /\ UNCHANGED <<up, targets, subscribers, closed, rpc, sent, log, current, since>>

SendToLiveMap(g, s) ==
  /\ up /\ current[g] # 0 /\ s \in Registered /\ Len(buffer[s]) < BufferSize
  /\ targets' = [targets EXCEPT ![g] = @ \ {s}]
  /\ buffer' = [buffer EXCEPT ![s] = Append(@, current[g])]
  /\ UNCHANGED <<up, subscribers, closed, rpc, sent, log, current, since>>

SendOrEvict(g, s) ==
  /\ up /\ s \in targets[g]
  /\ targets' = [targets EXCEPT ![g] = @ \ {s}]
  /\ IF Len(buffer[s]) < BufferSize
     THEN /\ buffer' = [buffer EXCEPT ![s] = Append(@, current[g])]
          /\ UNCHANGED subscribers
     ELSE /\ subscribers' = [subscribers EXCEPT ![Request[s].id] = NoStream]
          /\ UNCHANGED buffer
  /\ UNCHANGED <<up, closed, rpc, sent, log, current, since>>

SendBlocking(g, s) ==
  /\ up /\ s \in targets[g] /\ (closed[s] \/ Len(buffer[s]) < BufferSize)
  /\ targets' = [targets EXCEPT ![g] = @ \ {s}]
  /\ up' = ~closed[s]
  /\ buffer' = IF closed[s] THEN buffer ELSE [buffer EXCEPT ![s] = Append(@, current[g])]
  /\ UNCHANGED <<subscribers, closed, rpc, sent, log, current, since>>

\* One iteration of the loop over the copy, in any order: the non-blocking send
\* queues the event or skips a full channel; on a closed channel it panics.
SendTo(g, s) ==
  /\ up
  /\ s \in targets[g]
  /\ targets' = [targets EXCEPT ![g] = @ \ {s}]
  /\ up' = ~closed[s]
  /\ buffer' = IF ~closed[s] /\ Len(buffer[s]) < BufferSize
               THEN [buffer EXCEPT ![s] = Append(@, current[g])]
               ELSE buffer
  /\ UNCHANGED <<subscribers, closed, rpc, sent, log, current, since>>

-------------------------------------------------------------------------------
(* SubscribeAlerts *)

\* An empty subscriber_id is refused before the engine is called.
RejectSubscribe(s) ==
  /\ up
  /\ rpc[s] = "idle"
  /\ Request[s].id = EmptyId
  /\ rpc' = [rpc EXCEPT ![s] = "returned"]
  /\ UNCHANGED <<up, subscribers, buffer, closed, sent, log, current, targets, since>>

\* Subscribe puts the new channel in the map, over any channel with that id.
Subscribe(s) ==
  /\ up
  /\ rpc[s] = "idle"
  /\ Request[s].id # EmptyId
  /\ subscribers' = [subscribers EXCEPT ![Request[s].id] = s]
  /\ rpc' = [rpc EXCEPT ![s] = "open"]
  /\ since' = [since EXCEPT ![s] = Len(log)]
  /\ UNCHANGED <<up, buffer, closed, sent, log, current, targets>>

\* Faulty variant: the channel is closed and left in the map.
CloseOnly(s) ==
  LET ch == subscribers[Request[s].id]
  IN  /\ closed' = IF ch = NoStream THEN closed ELSE [closed EXCEPT ![ch] = TRUE]
      /\ up' = (ch = NoStream \/ ~closed[ch])
      /\ UNCHANGED subscribers

\* The closure that the handler defers: it closes and deletes whatever channel
\* the map holds under the id, which may be another stream's.
Unsubscribe(s) ==
  LET id == Request[s].id
      ch == subscribers[id]
  IN  IF ch = NoStream
      THEN UNCHANGED <<up, closed, subscribers>>
      ELSE /\ up' = ~closed[ch]              \* closing a closed channel panics
           /\ closed' = [closed EXCEPT ![ch] = TRUE]
           /\ subscribers' = [subscribers EXCEPT ![id] = NoStream]

\* The handler of s returns, for whatever reason.
Return(s) ==
  /\ rpc' = [rpc EXCEPT ![s] = "returned"]
  /\ Unsubscribe(s)

\* Faulty variant: the minimum severity is exclusive.
PassesStrictly(s, e) ==
  /\ e.severity > Request[s].minSeverity
  /\ Request[s].zones = {} \/ e.zone \in Request[s].zones

\* severityMeetsMin and h3IndexAllowed, with the conditions around them.
Passes(s, e) ==
  /\ e.severity >= Request[s].minSeverity
  /\ Request[s].zones = {} \/ e.zone \in Request[s].zones

Ready(s) == up /\ rpc[s] = "open"

\* An event that passes the filters is sent on the stream ...
Forward(s) ==
  /\ Ready(s)
  /\ buffer[s] # <<>>
  /\ Passes(s, log[Head(buffer[s])])
  /\ buffer' = [buffer EXCEPT ![s] = Tail(@)]
  /\ sent' = [sent EXCEPT ![s] = Append(@, Head(buffer[s]))]
  /\ UNCHANGED <<up, subscribers, closed, rpc, log, current, targets, since>>

\* ... or stream.Send fails and the handler returns an Internal error.
SendFails(s) ==
  /\ Ready(s)
  /\ buffer[s] # <<>>
  /\ Passes(s, log[Head(buffer[s])])
  /\ buffer' = [buffer EXCEPT ![s] = Tail(@)]
  /\ Return(s)
  /\ UNCHANGED <<sent, log, current, targets, since>>

FilterOut(s) ==
  /\ Ready(s)
  /\ buffer[s] # <<>>
  /\ ~Passes(s, log[Head(buffer[s])])
  /\ buffer' = [buffer EXCEPT ![s] = Tail(@)]
  /\ UNCHANGED <<up, subscribers, closed, rpc, sent, log, current, targets, since>>

\* The channel is closed and drained: the handler returns nil, end of stream.
ChannelClosed(s) ==
  /\ Ready(s)
  /\ closed[s]
  /\ buffer[s] = <<>>
  /\ Return(s)
  /\ UNCHANGED <<buffer, sent, log, current, targets, since>>

\* The client goes away: ctx.Done wins the select and Canceled is returned.
Disconnect(s) ==
  /\ Ready(s)
  /\ Return(s)
  /\ UNCHANGED <<buffer, sent, log, current, targets, since>>

-------------------------------------------------------------------------------
\* What the handler of s does as long as its client reads the stream.
Serve(s) == Forward(s) \/ FilterOut(s) \/ ChannelClosed(s)

Next ==
  \/ \E g \in Goroutines : Snapshot(g)
  \/ \E g \in Goroutines, s \in Streams : SendTo(g, s)
  \/ \E s \in Streams :
       \/ RejectSubscribe(s)
       \/ Subscribe(s)
       \/ Forward(s)
       \/ SendFails(s)
       \/ FilterOut(s)
       \/ ChannelClosed(s)
       \/ Disconnect(s)

Spec == Init /\ [][Next]_vars

\* The Go scheduler runs a goroutine that is inside the loop of broadcastAlert:
\* none of its steps blocks.  Where a client keeps reading its stream,
\* stream.Send returns and the handler comes back to its select.  Nothing is
\* assumed of the other clients and their handlers.
FairSpec ==
  /\ Spec
  /\ \A g \in Goroutines : WF_vars(\E s \in Streams : SendTo(g, s))
  /\ \A s \in Readers : WF_vars(Serve(s))

-------------------------------------------------------------------------------
(* Properties *)

\* No subscription leaks: a channel in the map is open and its handler is still
\* in its loop, whatever ids the clients chose and however the calls interleave.
\* broadcastAlert would otherwise fill channels nobody reads, or panic on a
\* channel that was closed before its snapshot.
RegisteredIsLive ==
  \A id \in SubscriberIds : subscribers[id] # NoStream =>
    LET s == subscribers[id] IN
      rpc[s] = "open" /\ ~closed[s] /\ Request[s].id = id

\* A stream never gets an event twice, and gets the events of one goroutine in
\* the order they were broadcast: queueing, skipping and filtering lose events
\* and never reorder them.
Received(s) == sent[s] \o buffer[s]

InOrder ==
  \A s \in Streams : \A i, j \in DOMAIN Received(s) :
    i < j /\ log[Received(s)[i]].from = log[Received(s)[j]].from
      => Received(s)[i] < Received(s)[j]

\* The only way to panic is to send on a channel that was closed after the
\* snapshot: no unsubscribe ever closes a channel twice.
OnlySendsPanic ==
  [][up /\ ~up' => \E g \in Goroutines : \E s \in targets[g] : closed[s]]_vars

\* As long as a call has not returned, and no other call has ever come with its
\* id, the engine holds its channel open and registered, however slowly its
\* client reads: it keeps receiving alerts until it leaves.
Alone(s) == \A t \in Streams \ {s} : Request[t].id = Request[s].id => rpc[t] = "idle"

KeepsItsChannel ==
  \A s \in Streams : rpc[s] = "open" /\ Alone(s) =>
    subscribers[Request[s].id] = s /\ ~closed[s]

\* The engine closes the channel of a call only when that call returns: a client
\* "receives alerts indefinitely".
NoStreamIsCutOff == \A s \in Streams : rpc[s] = "open" => ~closed[s]

\* A broadcast gets past every subscriber without panicking: broadcastAlert
\* "sends an alert to all subscribers (non-blocking)".
BroadcastNeverPanics == up

\* A broadcast always comes to its end, even when no client ever reads: a full
\* channel is skipped.  Only a panic can cut it short.
BroadcastTerminates ==
  \A g \in Goroutines : targets[g] # {} ~> (targets[g] = {} \/ ~up)

\* What a request asks for: min_severity and h3_indexes, each one if given.
Wants(s, e) ==
  /\ Request[s].minSeverity = 0 \/ e.severity >= Request[s].minSeverity
  /\ Request[s].zones = {} \/ e.zone \in Request[s].zones

\* The channel of s is full of other events: a send of event n would skip s.
Backlogged(s, n) ==
  Len(buffer[s]) = BufferSize /\ \A i \in DOMAIN buffer[s] : buffer[s][i] # n

\* An event broadcast while s is registered, and that the request of s asks for,
\* is sent on s, unless s leaves first, its channel was full before the event got
\* there, or the process panics.  A queued event is never lost.
AlertReachesSubscriber ==
  \A g \in Goroutines, s \in Readers, n \in EventNumbers :
    (/\ current[g] = n
     /\ s \in targets[g]
     /\ Wants(s, log[n]))
    ~> \/ \E i \in DOMAIN sent[s] : sent[s][i] = n
       \/ rpc[s] = "returned"
       \/ Backlogged(s, n)
       \/ ~up

\* The engine implements the best-effort feed it promises its subscribers.
Feed == INSTANCE AlertFeed WITH
  published <- [n \in DOMAIN log |-> log[n].from],
  joined    <- [s \in Streams |->
                  CASE rpc[s] = "idle" -> "no" [] rpc[s] = "open" -> "yes"
                    [] rpc[s] = "returned" -> "left"],
  start     <- since,
  feed      <- sent

ImplementsFeed == Feed!Spec
================================================================================
