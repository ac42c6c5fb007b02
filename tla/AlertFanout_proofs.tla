-------------------------- MODULE AlertFanout_proofs --------------------------
(***************************************************************************)
(* Proofs about AlertFanout, for any number of streams and any requests.   *)
(***************************************************************************)
EXTENDS AlertFanout, SequenceFacts

\* Only a call with a subscriber_id gets past the validation, so the map is
\* never indexed with the empty id.
OpenHasId == \A s \in Streams : rpc[s] = "open" => Request[s].id \in SubscriberIds

\* A goroutine inside the loop of broadcastAlert has an event in hand.
BusyHasEvent == \A g \in Goroutines : targets[g] # {} => current[g] # 0

TypeInv == TypeOK /\ OpenHasId /\ BusyHasEvent

LEMMA RequestType ==
  ASSUME NEW s \in Streams
  PROVE  /\ Request[s].id \in SubscriberIds \union {EmptyId}
         /\ Request[s].minSeverity \in 0..3
BY FanoutAssumption

\* Closing and deleting the map entry of the handler's id keeps the types.
LEMMA UnsubscribeType ==
  ASSUME NEW s \in Streams, TypeInv, rpc[s] = "open", Unsubscribe(s)
  PROVE  /\ up' \in BOOLEAN
         /\ subscribers' \in [SubscriberIds -> Streams \union {NoStream}]
         /\ closed' \in [Streams -> BOOLEAN]
<1> DEFINE id == Request[s].id
           ch == subscribers[id]
<1>1. id \in SubscriberIds /\ ch \in Streams \union {NoStream}
  BY DEF TypeInv, TypeOK, OpenHasId
<1>2. CASE ch = NoStream
  BY <1>2 DEF Unsubscribe, TypeInv, TypeOK
<1>3. CASE ch # NoStream
  BY <1>1, <1>3 DEF Unsubscribe, TypeInv, TypeOK
<1> QED BY <1>2, <1>3

\* Taking the oldest event out of a channel keeps the channels' types.
LEMMA Dequeue ==
  ASSUME TypeInv, NEW s \in Streams, buffer[s] # <<>>,
         buffer' = [buffer EXCEPT ![s] = Tail(@)]
  PROVE  /\ buffer' \in [Streams -> Seq(EventNumbers)]
         /\ \A r \in Streams : Len(buffer'[r]) <= BufferSize
<1>1. Tail(buffer[s]) \in Seq(EventNumbers) /\ Len(Tail(buffer[s])) <= BufferSize
  BY FanoutAssumption, TailFacts DEF TypeInv, TypeOK
<1> QED BY <1>1 DEF TypeInv, TypeOK

LEMMA TypeInvInit == Init => TypeInv
BY FanoutAssumption DEF Init, TypeInv, TypeOK, OpenHasId, BusyHasEvent, EventNumbers, Event

LEMMA TypeInvStep == TypeInv /\ [Next]_vars => TypeInv'
<1> SUFFICES ASSUME TypeInv, [Next]_vars PROVE TypeInv'
  OBVIOUS
<1> USE FanoutAssumption DEF TypeInv, TypeOK, OpenHasId, BusyHasEvent, EventNumbers
<1>1. ASSUME NEW g \in Goroutines, Snapshot(g) PROVE TypeInv'
  <2> PICK e \in EventsOf(g) : log' = Append(log, e)
    BY <1>1 DEF Snapshot
  <2>1. e \in Event
    BY DEF EventsOf, Event, Severities
  <2>2. /\ log' \in Seq(Event)
        /\ Len(log') = Len(log) + 1
        /\ Len(log') <= MaxEvents
    <3> HIDE DEF TypeInv, EventNumbers
    <3>1. log \in Seq(Event) /\ Len(log) < MaxEvents /\ log' = Append(log, e)
      BY <1>1 DEF Snapshot, TypeInv
    <3>2. log' \in Seq(Event) /\ Len(log') = Len(log) + 1
      BY <3>1, <2>1, AppendFacts
    <3> QED BY <3>1, <3>2
  <2>3. Registered \subseteq Streams
    BY DEF Registered
  <2>4. current' \in [Goroutines -> 0..Len(log')]
    BY <1>1, <2>2 DEF Snapshot
  <2>5. since' \in [Streams -> 0..Len(log')]
    BY <1>1, <2>2 DEF Snapshot
  <2> QED BY <1>1, <2>2, <2>3, <2>4, <2>5 DEF Snapshot
<1>2. ASSUME NEW g \in Goroutines, NEW s \in Streams, SendTo(g, s) PROVE TypeInv'
  <2>1. current[g] \in EventNumbers
    BY <1>2 DEF SendTo
  <2>2. /\ buffer' \in [Streams -> Seq(EventNumbers)]
        /\ \A r \in Streams : Len(buffer'[r]) <= BufferSize
    BY <1>2, <2>1 DEF SendTo
  <2>3. up' \in BOOLEAN /\ targets' \in [Goroutines -> SUBSET Streams]
    BY <1>2 DEF SendTo
  <2> QED BY <1>2, <2>2, <2>3 DEF SendTo
<1>3. ASSUME NEW s \in Streams, RejectSubscribe(s) PROVE TypeInv'
  BY <1>3 DEF RejectSubscribe
<1>4. ASSUME NEW s \in Streams, Subscribe(s) PROVE TypeInv'
  BY <1>4, RequestType DEF Subscribe
<1>5. ASSUME NEW s \in Streams, Forward(s) PROVE TypeInv'
  BY <1>5, Dequeue, TailFacts DEF Forward
<1>6. ASSUME NEW s \in Streams, SendFails(s) PROVE TypeInv'
  <2>1. buffer' \in [Streams -> Seq(EventNumbers)]
        /\ \A r \in Streams : Len(buffer'[r]) <= BufferSize
    BY <1>6, Dequeue DEF SendFails
  <2>2. /\ up' \in BOOLEAN
        /\ subscribers' \in [SubscriberIds -> Streams \union {NoStream}]
        /\ closed' \in [Streams -> BOOLEAN]
        /\ rpc' = [rpc EXCEPT ![s] = "returned"]
    BY <1>6, UnsubscribeType DEF SendFails, Ready, Return
  <2> QED BY <1>6, <2>1, <2>2 DEF SendFails
<1>7. ASSUME NEW s \in Streams, FilterOut(s) PROVE TypeInv'
  BY <1>7, Dequeue DEF FilterOut
<1>8. ASSUME NEW s \in Streams, ChannelClosed(s) PROVE TypeInv'
  BY <1>8, UnsubscribeType DEF ChannelClosed, Ready, Return
<1>9. ASSUME NEW s \in Streams, Disconnect(s) PROVE TypeInv'
  BY <1>9, UnsubscribeType DEF Disconnect, Ready, Return
<1>10. CASE UNCHANGED vars
  BY <1>10 DEF vars
<1> QED
  BY <1>1, <1>2, <1>3, <1>4, <1>5, <1>6, <1>7, <1>8, <1>9, <1>10 DEF Next

\* Every variable keeps its type; in particular no channel holds more than
\* BufferSize events.
THEOREM TypeCorrect == Spec => []TypeOK
<1>1. TypeInv => TypeOK
  BY DEF TypeInv
<1> QED BY TypeInvInit, TypeInvStep, <1>1, PTL DEF Spec

LEMMA TypeInvAlways == Spec => []TypeInv
BY TypeInvInit, TypeInvStep, PTL DEF Spec

-------------------------------------------------------------------------------
(* The registry *)

\* RegisteredIsLive is not inductive: a channel enters the map when its call
\* subscribes, so it must not have been closed before that.
IdleNotClosed == \A s \in Streams : rpc[s] = "idle" => ~closed[s]

RegInv == RegisteredIsLive /\ IdleNotClosed

LEMMA RegInvReturn ==
  ASSUME TypeInv, RegInv, NEW s \in Streams, rpc[s] = "open", Return(s)
  PROVE  RegInv' /\ (up => up')
<1> DEFINE id == Request[s].id
           ch == subscribers[id]
<1>1. id \in SubscriberIds /\ ch \in Streams \union {NoStream}
  BY DEF TypeInv, TypeOK, OpenHasId
<1>2. rpc' = [rpc EXCEPT ![s] = "returned"] /\ rpc \in [Streams -> {"idle", "open", "returned"}]
  BY DEF Return, TypeInv, TypeOK
<1>3. CASE ch = NoStream
  <2>1. UNCHANGED <<up, closed, subscribers>>
    BY <1>3 DEF Return, Unsubscribe
  <2>2. \A k \in SubscriberIds : subscribers[k] # s
    BY <1>1, <1>3, FanoutAssumption DEF RegInv, RegisteredIsLive
  <2> QED BY <1>2, <2>1, <2>2, FanoutAssumption DEF RegInv, RegisteredIsLive, IdleNotClosed, TypeInv, TypeOK
<1>4. CASE ch # NoStream
  <2>1. /\ up' = ~closed[ch]
        /\ closed' = [closed EXCEPT ![ch] = TRUE]
        /\ subscribers' = [subscribers EXCEPT ![id] = NoStream]
    BY <1>4 DEF Return, Unsubscribe
  <2>2. ch \in Streams /\ rpc[ch] = "open" /\ ~closed[ch] /\ Request[ch].id = id
    BY <1>1, <1>4 DEF RegInv, RegisteredIsLive
  <2>3. \A k \in SubscriberIds \ {id} : subscribers[k] # s /\ subscribers[k] # ch
    BY <2>2, FanoutAssumption DEF RegInv, RegisteredIsLive
  <2>4. closed \in [Streams -> BOOLEAN] /\ subscribers \in [SubscriberIds -> Streams \union {NoStream}]
    BY DEF TypeInv, TypeOK
  <2>5. RegisteredIsLive'
    BY <1>1, <1>2, <2>1, <2>2, <2>3, <2>4 DEF RegInv, RegisteredIsLive
  <2>6. IdleNotClosed'
    BY <1>2, <2>1, <2>2, <2>4 DEF RegInv, IdleNotClosed
  <2> QED BY <2>1, <2>2, <2>5, <2>6 DEF RegInv
<1> QED BY <1>3, <1>4

LEMMA RegInvStep == TypeInv /\ RegInv /\ [Next]_vars => RegInv'
<1> SUFFICES ASSUME TypeInv, RegInv, [Next]_vars PROVE RegInv'
  OBVIOUS
<1> USE DEF RegInv, RegisteredIsLive, IdleNotClosed
<1>1. ASSUME NEW g \in Goroutines, Snapshot(g) PROVE RegInv'
  BY <1>1 DEF Snapshot
<1>2. ASSUME NEW g \in Goroutines, NEW s \in Streams, SendTo(g, s) PROVE RegInv'
  BY <1>2 DEF SendTo
<1>3. ASSUME NEW s \in Streams, RejectSubscribe(s) PROVE RegInv'
  BY <1>3 DEF RejectSubscribe, TypeInv, TypeOK
<1>4. ASSUME NEW s \in Streams, Subscribe(s) PROVE RegInv'
  BY <1>4, RequestType, FanoutAssumption DEF Subscribe, TypeInv, TypeOK
<1>5. ASSUME NEW s \in Streams, Forward(s) PROVE RegInv'
  BY <1>5 DEF Forward
<1>6. ASSUME NEW s \in Streams, SendFails(s) PROVE RegInv'
  BY <1>6, RegInvReturn DEF SendFails, Ready
<1>7. ASSUME NEW s \in Streams, FilterOut(s) PROVE RegInv'
  BY <1>7 DEF FilterOut
<1>8. ASSUME NEW s \in Streams, ChannelClosed(s) PROVE RegInv'
  BY <1>8, RegInvReturn DEF ChannelClosed, Ready
<1>9. ASSUME NEW s \in Streams, Disconnect(s) PROVE RegInv'
  BY <1>9, RegInvReturn DEF Disconnect, Ready
<1>10. CASE UNCHANGED vars
  BY <1>10 DEF vars
<1> QED
  BY <1>1, <1>2, <1>3, <1>4, <1>5, <1>6, <1>7, <1>8, <1>9, <1>10 DEF Next

LEMMA RegInvAlways == Spec => []RegInv
<1>1. Init => RegInv
  BY DEF Init, RegInv, RegisteredIsLive, IdleNotClosed
<1> QED BY <1>1, TypeInvAlways, RegInvStep, PTL DEF Spec

\* However many calls share an id, a channel in the subscribers map is open,
\* and the handler that reads it is still running.
THEOREM RegistryIsSafe == Spec => []RegisteredIsLive
<1>1. RegInv => RegisteredIsLive
  BY DEF RegInv
<1> QED BY RegInvAlways, <1>1, PTL

\* unsubscribe never closes a closed channel: a panic is always a send.
THEOREM PanicsAreSends == Spec => OnlySendsPanic
<1> DEFINE Blame == \E g \in Goroutines : \E s \in targets[g] : closed[s]
<1>1. TypeInv /\ RegInv /\ [Next]_vars => [up /\ ~up' => Blame]_vars
  <2> SUFFICES ASSUME TypeInv, RegInv, Next, up, ~up' PROVE Blame
    OBVIOUS
  <2>1. \A s \in Streams : ~(SendFails(s) \/ ChannelClosed(s) \/ Disconnect(s))
    BY RegInvReturn DEF SendFails, ChannelClosed, Disconnect, Ready
  <2>2. PICK g \in Goroutines, s \in Streams : SendTo(g, s)
    BY <2>1 DEF Next, Snapshot, RejectSubscribe, Subscribe, Forward, FilterOut
  <2> QED BY <2>2 DEF SendTo
<1> QED BY TypeInvAlways, RegInvAlways, <1>1, PTL DEF Spec, OnlySendsPanic

-------------------------------------------------------------------------------
(* The channel of a call that is alone under its id *)

\* No call goes back to "idle", so a call that is alone after a step was alone
\* before it.
LEMMA AloneBefore ==
  ASSUME TypeInv, NEW t \in Streams, Alone(t)',
         NEW s \in Streams, NEW r \in {"open", "returned"},
         rpc' = [rpc EXCEPT ![s] = r]
  PROVE  Alone(t) /\ (s # t => Request[s].id # Request[t].id)
<1>1. \A u \in Streams : rpc'[u] = "idle" => rpc[u] = "idle" /\ u # s
  BY DEF TypeInv, TypeOK
<1> QED BY <1>1 DEF Alone

LEMMA KeepsReturn ==
  ASSUME TypeInv, RegInv, KeepsItsChannel,
         NEW s \in Streams, rpc[s] = "open", Return(s)
  PROVE  KeepsItsChannel'
<1> SUFFICES ASSUME NEW t \in Streams, rpc'[t] = "open", Alone(t)'
             PROVE  subscribers'[Request[t].id] = t /\ ~closed'[t]
  BY DEF KeepsItsChannel
<1> DEFINE id == Request[s].id
           ch == subscribers[id]
<1>1. t # s /\ rpc[t] = "open"
  BY DEF Return, TypeInv, TypeOK
<1>2. rpc' = [rpc EXCEPT ![s] = "returned"]
  BY DEF Return
<1>3. Alone(t) /\ id # Request[t].id
  BY <1>1, <1>2, AloneBefore
<1>4. subscribers[Request[t].id] = t /\ ~closed[t]
  BY <1>1, <1>3 DEF KeepsItsChannel
<1>5. CASE ch = NoStream
  BY <1>4, <1>5 DEF Return, Unsubscribe
<1>6. CASE ch # NoStream
  <2>1. id \in SubscriberIds /\ Request[t].id \in SubscriberIds
    BY <1>1 DEF TypeInv, OpenHasId
  <2>2. Request[ch].id = id
    BY <2>1, <1>6 DEF RegInv, RegisteredIsLive
  <2>3. /\ closed' = [closed EXCEPT ![ch] = TRUE]
        /\ subscribers' = [subscribers EXCEPT ![id] = NoStream]
    BY <1>6 DEF Return, Unsubscribe
  <2> QED BY <1>3, <1>4, <2>1, <2>2, <2>3 DEF TypeInv, TypeOK
<1> QED BY <1>5, <1>6

LEMMA KeepsSubscribe ==
  ASSUME TypeInv, RegInv, KeepsItsChannel, NEW s \in Streams, Subscribe(s)
  PROVE  KeepsItsChannel'
<1> SUFFICES ASSUME NEW t \in Streams, rpc'[t] = "open", Alone(t)'
             PROVE  subscribers'[Request[t].id] = t /\ ~closed'[t]
  BY DEF KeepsItsChannel
<1>1. /\ rpc' = [rpc EXCEPT ![s] = "open"]
      /\ subscribers' = [subscribers EXCEPT ![Request[s].id] = s]
      /\ closed' = closed
      /\ rpc[s] = "idle"
      /\ Request[s].id \in SubscriberIds
  BY RequestType DEF Subscribe
<1>2. CASE t = s
  BY <1>1, <1>2 DEF TypeInv, TypeOK, RegInv, IdleNotClosed
<1>3. CASE t # s
  <2>1. Alone(t) /\ Request[s].id # Request[t].id /\ rpc[t] = "open"
    BY <1>1, <1>3, AloneBefore DEF TypeInv, TypeOK
  <2> QED BY <1>1, <2>1 DEF KeepsItsChannel, TypeInv, TypeOK
<1> QED BY <1>2, <1>3

LEMMA KeepsStep == TypeInv /\ RegInv /\ KeepsItsChannel /\ [Next]_vars => KeepsItsChannel'
<1> SUFFICES ASSUME TypeInv, RegInv, KeepsItsChannel, [Next]_vars
             PROVE  KeepsItsChannel'
  OBVIOUS
<1>1. ASSUME UNCHANGED <<rpc, subscribers, closed>> PROVE KeepsItsChannel'
  BY <1>1 DEF KeepsItsChannel, Alone
<1>2. ASSUME NEW g \in Goroutines, Snapshot(g) PROVE KeepsItsChannel'
  BY <1>1, <1>2 DEF Snapshot
<1>3. ASSUME NEW g \in Goroutines, NEW s \in Streams, SendTo(g, s) PROVE KeepsItsChannel'
  BY <1>1, <1>3 DEF SendTo
<1>4. ASSUME NEW s \in Streams, RejectSubscribe(s) PROVE KeepsItsChannel'
  <2> SUFFICES ASSUME NEW t \in Streams, rpc'[t] = "open", Alone(t)'
               PROVE  subscribers'[Request[t].id] = t /\ ~closed'[t]
    BY DEF KeepsItsChannel
  <2>1. rpc[t] = "open" /\ Alone(t)
    BY <1>4, AloneBefore DEF RejectSubscribe, TypeInv, TypeOK
  <2> QED BY <1>4, <2>1 DEF RejectSubscribe, KeepsItsChannel
<1>5. ASSUME NEW s \in Streams, Subscribe(s) PROVE KeepsItsChannel'
  BY <1>5, KeepsSubscribe
<1>6. ASSUME NEW s \in Streams, Forward(s) \/ FilterOut(s) PROVE KeepsItsChannel'
  BY <1>1, <1>6 DEF Forward, FilterOut
<1>7. ASSUME NEW s \in Streams, SendFails(s) \/ ChannelClosed(s) \/ Disconnect(s)
      PROVE  KeepsItsChannel'
  BY <1>7, KeepsReturn DEF SendFails, ChannelClosed, Disconnect, Ready
<1>8. CASE UNCHANGED vars
  BY <1>1, <1>8 DEF vars
<1> QED
  BY <1>2, <1>3, <1>4, <1>5, <1>6, <1>7, <1>8 DEF Next

\* A call under whose id no other call has come keeps its channel, open and
\* registered, until it returns.
THEOREM LoneCallKeepsChannel == Spec => []KeepsItsChannel
<1>1. Init => KeepsItsChannel
  BY DEF Init, KeepsItsChannel
<1> QED BY <1>1, TypeInvAlways, RegInvAlways, KeepsStep, PTL DEF Spec

-------------------------------------------------------------------------------
(* The order of events on a stream *)

LEMMA ConcatAppend ==
  ASSUME NEW S, NEW p \in Seq(S), NEW q \in Seq(S), NEW x \in S
  PROVE  p \o Append(q, x) = Append(p \o q, x)
OBVIOUS

LEMMA ConcatShift ==
  ASSUME NEW S, NEW p \in Seq(S), NEW q \in Seq(S), q # <<>>
  PROVE  Append(p, Head(q)) \o Tail(q) = p \o q
OBVIOUS

LEMMA ConcatTail ==
  ASSUME NEW S, NEW p \in Seq(S), NEW q \in Seq(S), q # <<>>
  PROVE  /\ Len(p \o Tail(q)) = Len(p \o q) - 1
         /\ \A i \in 1..Len(p \o q) - 1 :
              (p \o Tail(q))[i] = (p \o q)[IF i <= Len(p) THEN i ELSE i + 1]
OBVIOUS

\* InOrder is not inductive: the next event a goroutine queues has to be newer
\* than what the stream already got from it.
Pending ==
  \A g \in Goroutines : \A s \in targets[g] : \A i \in DOMAIN Received(s) :
    log[Received(s)[i]].from = g => Received(s)[i] < current[g]

Authored ==
  \A g \in Goroutines : current[g] # 0 => log[current[g]].from = g

Published ==
  \A s \in Streams : \A i \in DOMAIN Received(s) : Received(s)[i] <= Len(log)

OrderInv == InOrder /\ Pending /\ Authored /\ Published

ReceivedTyped ==
  \A s \in Streams :
    /\ Received(s) \in Seq(EventNumbers)
    /\ DOMAIN Received(s) = 1..Len(Received(s))
    /\ Len(Received(s)) \in Nat
    /\ \A i \in DOMAIN Received(s) : Received(s)[i] \in Nat \ {0}

LEMMA ReceivedType == TypeInv => ReceivedTyped
<1> SUFFICES ASSUME TypeInv, NEW s \in Streams
             PROVE  /\ Received(s) \in Seq(EventNumbers)
                    /\ DOMAIN Received(s) = 1..Len(Received(s))
                    /\ Len(Received(s)) \in Nat
                    /\ \A i \in DOMAIN Received(s) : Received(s)[i] \in Nat \ {0}
  BY DEF ReceivedTyped
<1>1. sent[s] \in Seq(EventNumbers) /\ buffer[s] \in Seq(EventNumbers)
  BY DEF TypeInv, TypeOK
<1>2. Received(s) \in Seq(EventNumbers)
  BY <1>1 DEF Received
<1> QED BY <1>2, FanoutAssumption DEF EventNumbers

LEMMA ReceivedTypeNext == TypeInv' => ReceivedTyped'
BY ReceivedType, PTL

\* A step that only takes one event away from what each stream got keeps the
\* order; so does one that leaves everything alone.
LEMMA OrderInvLoses ==
  ASSUME TypeInv, TypeInv', OrderInv, UNCHANGED <<log, current, targets>>,
         NEW k \in [Streams -> Nat],
         \A s \in Streams :
           \/ Received(s)' = Received(s)
           \/ /\ Len(Received(s)') = Len(Received(s)) - 1
              /\ \A i \in 1..Len(Received(s)) - 1 :
                   Received(s)'[i] = Received(s)[IF i <= k[s] THEN i ELSE i + 1]
  PROVE  OrderInv'
<1> DEFINE idx(s, i) == IF Received(s)' = Received(s) \/ i <= k[s] THEN i ELSE i + 1
<1>1. ASSUME NEW s \in Streams, NEW i \in DOMAIN Received(s)'
      PROVE  idx(s, i) \in DOMAIN Received(s) /\ Received(s)'[i] = Received(s)[idx(s, i)]
  <2>1. /\ DOMAIN Received(s) = 1..Len(Received(s)) /\ Len(Received(s)) \in Nat
        /\ DOMAIN Received(s)' = 1..Len(Received(s)') /\ Len(Received(s)') \in Nat
    BY ReceivedType, ReceivedTypeNext DEF ReceivedTyped
  <2>2. i \in 1..Len(Received(s)') /\ k[s] \in Nat
    BY <2>1
  <2>3. CASE Received(s)' = Received(s)
    BY <2>3
  <2>4. CASE /\ Received(s)' # Received(s)
             /\ Len(Received(s)') = Len(Received(s)) - 1
             /\ \A m \in 1..Len(Received(s)) - 1 :
                  Received(s)'[m] = Received(s)[IF m <= k[s] THEN m ELSE m + 1]
    BY <2>1, <2>2, <2>4
  <2> QED BY <2>3, <2>4
<1>2. ASSUME NEW s \in Streams, NEW i \in DOMAIN Received(s)', NEW j \in DOMAIN Received(s)', i < j
      PROVE  idx(s, i) < idx(s, j)
  <2>1. DOMAIN Received(s)' \subseteq Nat
    BY ReceivedTypeNext DEF ReceivedTyped
  <2> QED BY <1>2, <2>1
<1>3. InOrder'
  BY <1>1, <1>2 DEF OrderInv, InOrder
<1>4. targets' = targets /\ \A g \in Goroutines : targets[g] \subseteq Streams
  BY DEF TypeInv, TypeOK
<1>5. Pending'
  BY <1>1, <1>4 DEF OrderInv, Pending
<1>6. Authored' /\ Published'
  BY <1>1 DEF OrderInv, Authored, Published
<1> QED BY <1>3, <1>5, <1>6 DEF OrderInv

\* Taking the head of the channel of s, without sending it, is such a loss.
LEMMA OrderInvDequeues ==
  ASSUME TypeInv, TypeInv', OrderInv, UNCHANGED <<sent, log, current, targets>>,
         NEW s \in Streams, buffer[s] # <<>>,
         buffer' = [buffer EXCEPT ![s] = Tail(@)]
  PROVE  OrderInv'
<1> DEFINE k == [t \in Streams |-> Len(sent[t])]
<1>1. \A t \in Streams : sent[t] \in Seq(EventNumbers) /\ buffer[t] \in Seq(EventNumbers)
  BY DEF TypeInv, TypeOK
<1>2. k \in [Streams -> Nat]
  BY <1>1
<1>3. \A t \in Streams \ {s} : Received(t)' = Received(t)
  BY DEF Received, TypeInv, TypeOK
<1>4. Received(s)' = sent[s] \o Tail(buffer[s])
  BY DEF Received, TypeInv, TypeOK
<1>5. /\ Len(Received(s)') = Len(Received(s)) - 1
      /\ \A i \in 1..Len(Received(s)) - 1 :
           Received(s)'[i] = Received(s)[IF i <= k[s] THEN i ELSE i + 1]
  <2>1. k[s] = Len(sent[s]) /\ sent[s] \in Seq(EventNumbers) /\ buffer[s] \in Seq(EventNumbers)
    BY <1>1
  <2> HIDE DEF k
  <2>2. Received(s) = sent[s] \o buffer[s]
    BY DEF Received
  <2>3. ASSUME NEW p \in Seq(EventNumbers), NEW q \in Seq(EventNumbers), q # <<>>
        PROVE  /\ Len(p \o Tail(q)) = Len(p \o q) - 1
               /\ \A i \in 1..Len(p \o q) - 1 :
                    (p \o Tail(q))[i] = (p \o q)[IF i <= Len(p) THEN i ELSE i + 1]
    BY <2>3, ConcatTail
  <2>4. \A i \in 1..Len(Received(s)) - 1 : Received(s)'[i] = Received(s)[IF i <= Len(sent[s]) THEN i ELSE i + 1]
    BY <1>4, <2>1, <2>2, <2>3
  <2>5. Len(Received(s)') = Len(Received(s)) - 1
    BY <1>4, <2>1, <2>2, <2>3
  <2> QED BY <2>1, <2>4, <2>5
<1> HIDE DEF k
<1> QED BY <1>2, <1>3, <1>5, OrderInvLoses

LEMMA OrderInvSame ==
  ASSUME TypeInv, TypeInv', OrderInv, UNCHANGED <<log, current, targets>>,
         \A s \in Streams : Received(s)' = Received(s)
  PROVE  OrderInv'
<1> DEFINE k == [t \in Streams |-> 0]
<1>1. k \in [Streams -> Nat]
  OBVIOUS
<1> HIDE DEF k
<1> QED BY <1>1, OrderInvLoses

\* A new event is newer than everything queued, and its author is g.
LEMMA OrderInvSnapshot ==
  ASSUME TypeInv, TypeInv', OrderInv, NEW g \in Goroutines, Snapshot(g)
  PROVE  OrderInv'
<1> PICK e \in EventsOf(g) : log' = Append(log, e)
  BY DEF Snapshot
<1>1. log \in Seq(Event) /\ e \in Event /\ e.from = g
  BY DEF EventsOf, Event, Severities, TypeInv, TypeOK
<1>2. /\ Len(log) \in Nat
      /\ Len(log') = Len(log) + 1
      /\ \A i \in 1..Len(log) : log'[i] = log[i]
      /\ log'[Len(log) + 1] = e
  BY <1>1, AppendFacts
<1>3. \A s \in Streams : Received(s)' = Received(s)
  BY DEF Snapshot, Received
<1>4. \A s \in Streams : \A i \in DOMAIN Received(s) : Received(s)[i] \in 1..Len(log)
  BY <1>2, ReceivedType DEF ReceivedTyped, OrderInv, Published
<1>5. InOrder' /\ Published'
  BY <1>2, <1>3, <1>4 DEF OrderInv, InOrder, Published
<1>6. /\ current' = [current EXCEPT ![g] = Len(log) + 1]
      /\ current \in [Goroutines -> 0..Len(log)]
      /\ targets' = [targets EXCEPT ![g] = Registered]
      /\ targets \in [Goroutines -> SUBSET Streams]
      /\ Registered \subseteq Streams
  BY DEF Snapshot, TypeInv, TypeOK, Registered
<1>7. Authored'
  BY <1>1, <1>2, <1>6 DEF OrderInv, Authored
<1>8. Pending'
  BY <1>2, <1>3, <1>4, <1>6 DEF OrderInv, Pending
<1> QED BY <1>5, <1>7, <1>8 DEF OrderInv

\* What g queues is newer than what the stream got from g; g is done with s then.
LEMMA OrderInvSend ==
  ASSUME TypeInv, TypeInv', OrderInv, NEW g \in Goroutines, NEW s \in Streams, SendTo(g, s)
  PROVE  OrderInv'
<1>1. /\ UNCHANGED <<sent, log, current>>
      /\ s \in targets[g]
      /\ targets' = [targets EXCEPT ![g] = @ \ {s}]
      /\ targets \in [Goroutines -> SUBSET Streams]
      /\ current[g] \in EventNumbers /\ current[g] <= Len(log)
      /\ log[current[g]].from = g
  <2>1. current[g] # 0 /\ current[g] \in 0..Len(log) /\ Len(log) \in Nat /\ Len(log) <= MaxEvents
    BY DEF SendTo, TypeInv, TypeOK, BusyHasEvent
  <2>2. log[current[g]].from = g
    BY <2>1 DEF OrderInv, Authored
  <2> QED BY <2>1, <2>2, FanoutAssumption DEF SendTo, TypeInv, TypeOK, EventNumbers
<1>2. CASE buffer' = buffer
  <2>1. \A t \in Streams : Received(t)' = Received(t)
    BY <1>1, <1>2 DEF Received
  <2> QED BY <1>1, <2>1 DEF OrderInv, InOrder, Pending, Authored, Published
<1>3. CASE buffer' = [buffer EXCEPT ![s] = Append(@, current[g])]
  <2>1. \A t \in Streams : sent[t] \in Seq(EventNumbers) /\ buffer[t] \in Seq(EventNumbers)
    BY DEF TypeInv, TypeOK
  <2>2. Received(s)' = Append(Received(s), current[g])
    BY <1>1, <1>3, <2>1, ConcatAppend DEF Received, TypeInv, TypeOK
  <2>3. \A t \in Streams \ {s} : Received(t)' = Received(t)
    BY <1>1, <1>3 DEF Received, TypeInv, TypeOK
  <2>4. /\ DOMAIN Received(s) = 1..Len(Received(s)) /\ Len(Received(s)) \in Nat
        /\ DOMAIN Received(s)' = 1..Len(Received(s)) + 1
        /\ \A i \in DOMAIN Received(s) : Received(s)'[i] = Received(s)[i]
        /\ Received(s)'[Len(Received(s)) + 1] = current[g]
    BY <1>1, <2>2, ReceivedType, AppendFacts DEF ReceivedTyped
  <2>5. InOrder'
    <3>1. \A t \in Streams \ {s} : \A i, j \in DOMAIN Received(t)' :
            i < j /\ log'[Received(t)'[i]].from = log'[Received(t)'[j]].from
              => Received(t)'[i] < Received(t)'[j]
      BY <1>1, <2>3 DEF OrderInv, InOrder
    <3>2. ASSUME NEW i \in DOMAIN Received(s)', NEW j \in DOMAIN Received(s)',
                 i < j, log[Received(s)'[i]].from = log[Received(s)'[j]].from
          PROVE  Received(s)'[i] < Received(s)'[j]
      <4>1. i \in DOMAIN Received(s)
        BY <2>4, <3>2
      <4>2. CASE j \in DOMAIN Received(s)
        BY <2>4, <3>2, <4>1, <4>2 DEF OrderInv, InOrder
      <4>3. CASE j = Len(Received(s)) + 1
        BY <1>1, <2>4, <3>2, <4>1, <4>3 DEF OrderInv, Pending
      <4> QED BY <2>4, <4>2, <4>3
    <3> QED BY <1>1, <3>1, <3>2 DEF InOrder
  <2>6. Pending'
    <3> SUFFICES ASSUME NEW h \in Goroutines, NEW t \in targets'[h],
                        NEW i \in DOMAIN Received(t)', log[Received(t)'[i]].from = h
                 PROVE  Received(t)'[i] < current[h]
      BY <1>1 DEF Pending
    <3>1. t \in targets[h] /\ t \in Streams /\ ~(h = g /\ t = s)
      BY <1>1
    <3>2. CASE t # s \/ i \in DOMAIN Received(s)
      BY <2>3, <2>4, <3>1, <3>2 DEF OrderInv, Pending
    <3>3. CASE t = s /\ i = Len(Received(s)) + 1
      BY <1>1, <2>4, <3>1, <3>3
    <3> QED BY <2>4, <3>2, <3>3
  <2>7. Published' /\ Authored'
    BY <1>1, <2>3, <2>4 DEF OrderInv, Published, Authored
  <2> QED BY <2>5, <2>6, <2>7 DEF OrderInv
<1> QED BY <1>2, <1>3 DEF SendTo

LEMMA OrderInvStep == TypeInv /\ TypeInv' /\ OrderInv /\ [Next]_vars => OrderInv'
<1> SUFFICES ASSUME TypeInv, TypeInv', OrderInv, [Next]_vars PROVE OrderInv'
  OBVIOUS
<1>1. ASSUME NEW g \in Goroutines, Snapshot(g) PROVE OrderInv'
  BY <1>1, OrderInvSnapshot
<1>2. ASSUME NEW g \in Goroutines, NEW s \in Streams, SendTo(g, s) PROVE OrderInv'
  BY <1>2, OrderInvSend
<1>3. ASSUME UNCHANGED <<sent, buffer, log, current, targets>> PROVE OrderInv'
  BY <1>3, OrderInvSame DEF Received
<1>4. ASSUME NEW s \in Streams, Forward(s) PROVE OrderInv'
  <2>1. /\ sent \in [Streams -> Seq(EventNumbers)]
        /\ buffer \in [Streams -> Seq(EventNumbers)]
        /\ buffer[s] # <<>>
        /\ sent' = [sent EXCEPT ![s] = Append(@, Head(buffer[s]))]
        /\ buffer' = [buffer EXCEPT ![s] = Tail(@)]
    BY <1>4 DEF Forward, TypeInv, TypeOK
  <2>2. Append(sent[s], Head(buffer[s])) \o Tail(buffer[s]) = sent[s] \o buffer[s]
    BY <2>1, ConcatShift
  <2>3. \A t \in Streams : Received(t)' = Received(t)
    BY <2>1, <2>2 DEF Received
  <2> QED BY <1>4, <2>3, OrderInvSame DEF Forward
<1>5. ASSUME NEW s \in Streams, SendFails(s) \/ FilterOut(s) PROVE OrderInv'
  BY <1>5, OrderInvDequeues DEF SendFails, FilterOut
<1> QED
  BY <1>1, <1>2, <1>3, <1>4, <1>5
  DEF Next, vars, RejectSubscribe, Subscribe, ChannelClosed, Disconnect

LEMMA OrderInvAlways == Spec => []OrderInv
<1>1. Init => OrderInv
  BY DEF Init, OrderInv, InOrder, Pending, Authored, Published, Received
<1> QED BY <1>1, TypeInvAlways, OrderInvStep, PTL DEF Spec

\* A stream never gets an event twice, and gets the events of one goroutine in
\* the order of their broadcast.
THEOREM StreamsAreInOrder == Spec => []InOrder
<1>1. OrderInv => InOrder
  BY DEF OrderInv
<1> QED BY <1>1, OrderInvAlways, PTL

-------------------------------------------------------------------------------
(* The engine implements the best-effort feed *)

\* What waits for a stream is newer than its subscription: a call that has not
\* subscribed is in no snapshot, and later events are numbered after it.
NotYet ==
  \A s \in Streams : rpc[s] = "idle" =>
    buffer[s] = <<>> /\ \A g \in Goroutines : s \notin targets[g]

Newer ==
  \A s \in Streams :
    /\ \A i \in DOMAIN buffer[s] : since[s] < buffer[s][i]
    /\ \A g \in Goroutines : s \in targets[g] => since[s] < current[g]

FreshInv == NotYet /\ Newer

LEMMA FreshDequeues ==
  ASSUME TypeInv, FreshInv, NEW s \in Streams, buffer[s] # <<>>, rpc[s] = "open",
         buffer' = [buffer EXCEPT ![s] = Tail(@)],
         UNCHANGED <<current, targets, since>>,
         rpc' \in {rpc, [rpc EXCEPT ![s] = "returned"]}
  PROVE  FreshInv'
<1>1. /\ buffer[s] \in Seq(EventNumbers)
      /\ buffer \in [Streams -> Seq(EventNumbers)]
      /\ rpc \in [Streams -> {"idle", "open", "returned"}]
  BY DEF TypeInv, TypeOK
<1>2. /\ DOMAIN Tail(buffer[s]) = 1..Len(buffer[s]) - 1
      /\ DOMAIN buffer[s] = 1..Len(buffer[s])
      /\ Len(buffer[s]) \in Nat
      /\ \A i \in 1..Len(buffer[s]) - 1 : Tail(buffer[s])[i] = buffer[s][i + 1]
  BY <1>1, TailFacts
<1>3. \A i \in DOMAIN Tail(buffer[s]) : since[s] < Tail(buffer[s])[i]
  BY <1>2 DEF FreshInv, Newer
<1>4. Newer'
  BY <1>1, <1>3 DEF FreshInv, Newer
<1>5. NotYet'
  BY <1>1 DEF FreshInv, NotYet
<1> QED BY <1>4, <1>5 DEF FreshInv

LEMMA FreshInvStep == TypeInv /\ RegInv /\ FreshInv /\ [Next]_vars => FreshInv'
<1> SUFFICES ASSUME TypeInv, RegInv, FreshInv, [Next]_vars PROVE FreshInv'
  OBVIOUS
<1> USE DEF FreshInv, NotYet, Newer
<1>0. /\ rpc \in [Streams -> {"idle", "open", "returned"}]
      /\ targets \in [Goroutines -> SUBSET Streams]
      /\ buffer \in [Streams -> Seq(EventNumbers)]
      /\ current \in [Goroutines -> 0..Len(log)]
      /\ since \in [Streams -> 0..Len(log)]
      /\ Len(log) \in Nat
  BY DEF TypeInv, TypeOK
<1>1. ASSUME NEW g \in Goroutines, Snapshot(g) PROVE FreshInv'
  <2>1. \A s \in Registered : s \in Streams /\ rpc[s] = "open"
    BY DEF Registered, RegInv, RegisteredIsLive, TypeInv, TypeOK
  <2> QED BY <1>0, <1>1, <2>1 DEF Snapshot
<1>2. ASSUME NEW g \in Goroutines, NEW s \in Streams, SendTo(g, s) PROVE FreshInv'
  <2>1. /\ targets' = [targets EXCEPT ![g] = @ \ {s}]
        /\ s \in targets[g]
        /\ UNCHANGED <<rpc, current, since>>
    BY <1>2 DEF SendTo
  <2>2. /\ since[s] < current[g] /\ rpc[s] # "idle"
        /\ current[g] \in 0..Len(log) /\ since[s] \in Nat
    BY <1>0, <2>1
  <2>3. CASE buffer' = buffer
    BY <1>0, <2>1, <2>3
  <2>4. CASE buffer' = [buffer EXCEPT ![s] = Append(@, current[g])]
    <3>1. \A i \in DOMAIN Append(buffer[s], current[g]) : since[s] < Append(buffer[s], current[g])[i]
      <4>1. buffer[s] \in Seq(EventNumbers) /\ current[g] \in EventNumbers
        <5>1. Len(log) <= MaxEvents /\ current[g] # 0
          BY <2>1 DEF TypeInv, TypeOK, BusyHasEvent
        <5> QED BY <1>0, <2>2, <5>1, FanoutAssumption DEF EventNumbers
      <4>2. /\ DOMAIN Append(buffer[s], current[g]) = 1..Len(buffer[s]) + 1
            /\ DOMAIN buffer[s] = 1..Len(buffer[s]) /\ Len(buffer[s]) \in Nat
            /\ \A i \in 1..Len(buffer[s]) : Append(buffer[s], current[g])[i] = buffer[s][i]
            /\ Append(buffer[s], current[g])[Len(buffer[s]) + 1] = current[g]
        BY <4>1, AppendFacts
      <4> QED BY <2>2, <4>2
    <3> QED BY <1>0, <2>1, <2>2, <2>4, <3>1
  <2> QED BY <1>2, <2>3, <2>4 DEF SendTo
<1>3. ASSUME NEW s \in Streams, RejectSubscribe(s) PROVE FreshInv'
  BY <1>0, <1>3 DEF RejectSubscribe
<1>4. ASSUME NEW s \in Streams, Subscribe(s) PROVE FreshInv'
  BY <1>0, <1>4 DEF Subscribe
<1>5. ASSUME NEW s \in Streams, Forward(s) \/ FilterOut(s) \/ SendFails(s) PROVE FreshInv'
  BY <1>5, FreshDequeues DEF Forward, FilterOut, SendFails, Ready, Return
<1>6. ASSUME NEW s \in Streams, ChannelClosed(s) \/ Disconnect(s) PROVE FreshInv'
  BY <1>0, <1>6 DEF ChannelClosed, Disconnect, Return
<1>7. CASE UNCHANGED vars
  BY <1>7 DEF vars
<1> QED BY <1>1, <1>2, <1>3, <1>4, <1>5, <1>6, <1>7 DEF Next

LEMMA FreshInvAlways == Spec => []FreshInv
<1>1. Init => FreshInv
  BY DEF Init, FreshInv, NotYet, Newer
<1> QED BY <1>1, TypeInvAlways, RegInvAlways, FreshInvStep, PTL DEF Spec

\* What the variables of the feed stand for, as in ImplementsFeed.
Authors == [n \in DOMAIN log |-> log[n].from]

Joined ==
  [s \in Streams |->
     CASE rpc[s] = "idle" -> "no" [] rpc[s] = "open" -> "yes"
       [] rpc[s] = "returned" -> "left"]

LEMMA AuthorsAppend ==
  ASSUME NEW q \in Seq(Event), NEW e \in Event
  PROVE  [n \in DOMAIN Append(q, e) |-> Append(q, e)[n].from]
           = Append([n \in DOMAIN q |-> q[n].from], e.from)
<1> DEFINE a == [n \in DOMAIN q |-> q[n].from]
           b == [n \in DOMAIN Append(q, e) |-> Append(q, e)[n].from]
<1>1. /\ DOMAIN q = 1..Len(q) /\ Len(q) \in Nat
      /\ DOMAIN Append(q, e) = 1..Len(q) + 1
      /\ \A i \in 1..Len(q) : Append(q, e)[i] = q[i]
      /\ Append(q, e)[Len(q) + 1] = e
  BY AppendFacts
<1>2. a \in Seq(Goroutines) /\ Len(a) = Len(q)
  <2>1. \A i \in 1..Len(q) : q[i] \in Event
    BY <1>1
  <2>2. a \in [1..Len(q) -> Goroutines]
    BY <1>1, <2>1 DEF Event
  <2> HIDE DEF a
  <2> QED BY <1>1, <2>2
<1>3. e.from \in Goroutines
  BY DEF Event
<1>4. b \in Seq(Goroutines) /\ Len(b) = Len(q) + 1
  <2>1. \A i \in 1..Len(q) + 1 : Append(q, e)[i] \in Event
    BY <1>1
  <2>2. b \in [1..Len(q) + 1 -> Goroutines]
    BY <1>1, <2>1 DEF Event
  <2> HIDE DEF b
  <2> QED BY <1>1, <2>2
<1>5. Append(a, e.from) \in Seq(Goroutines) /\ Len(Append(a, e.from)) = Len(q) + 1
  BY <1>2, <1>3, AppendFacts
<1>6. \A i \in 1..Len(q) + 1 : b[i] = Append(a, e.from)[i]
  <2>1. \A i \in 1..Len(q) : b[i] = q[i].from /\ a[i] = q[i].from
    BY <1>1
  <2>2. b[Len(q) + 1] = e.from
    BY <1>1
  <2>3. (\A i \in 1..Len(q) : Append(a, e.from)[i] = a[i]) /\ Append(a, e.from)[Len(q) + 1] = e.from
    BY <1>2, <1>3, AppendFacts
  <2>4. \A i \in 1..Len(q) + 1 : i \in 1..Len(q) \/ i = Len(q) + 1
    BY <1>1
  <2> HIDE DEF a, b
  <2> QED BY <2>1, <2>2, <2>3, <2>4
<1> HIDE DEF a, b
<1>7. b = Append(a, e.from)
  BY <1>1, <1>4, <1>5, <1>6
<1> QED BY <1>7 DEF a, b

\* A handler that returns makes its stream leave.
LEMMA ReturnLeaves ==
  ASSUME TypeInv, NEW s \in Streams, rpc' = [rpc EXCEPT ![s] = "returned"],
         UNCHANGED <<log, since, sent>>
  PROVE  Feed!Leave(s)
<1>1. Joined' = [Joined EXCEPT ![s] = "left"]
  BY DEF Joined, TypeInv, TypeOK
<1> QED BY <1>1 DEF Feed!Leave, Joined

LEMMA SnapshotPublishes ==
  ASSUME TypeInv, NEW g \in Goroutines, Snapshot(g)
  PROVE  Feed!Publish(g)
<1> PICK e \in EventsOf(g) : log' = Append(log, e)
  BY DEF Snapshot
<1>1. log \in Seq(Event) /\ e \in Event /\ e.from = g
  BY DEF EventsOf, Event, Severities, TypeInv, TypeOK
<1>2. Authors' = Append(Authors, g)
  BY <1>1, AuthorsAppend DEF Authors
<1>3. Joined' = Joined
  BY DEF Snapshot, Joined
<1> QED BY <1>2, <1>3 DEF Feed!Publish, Authors, Joined, Snapshot

LEMMA SubscribeJoins ==
  ASSUME TypeInv, NEW s \in Streams, Subscribe(s)
  PROVE  Feed!Join(s)
<1>1. Joined[s] = "no" /\ Joined' = [Joined EXCEPT ![s] = "yes"]
  BY DEF Joined, Subscribe, TypeInv, TypeOK
<1>2. Len(Authors) = Len(log)
  BY DEF Authors, TypeInv, TypeOK
<1> QED BY <1>1, <1>2 DEF Feed!Join, Authors, Joined, Subscribe

\* The head of a channel is newer than the subscription, and newer than whatever
\* its author got onto the stream before.
LEMMA ForwardDelivers ==
  ASSUME TypeInv, OrderInv, FreshInv, NEW s \in Streams, Forward(s)
  PROVE  \E n \in DOMAIN Authors : Feed!Deliver(s, n)
<1> DEFINE n == Head(buffer[s])
           m == Len(sent[s]) + 1
<1>1. /\ sent[s] \in Seq(EventNumbers) /\ buffer[s] \in Seq(EventNumbers)
      /\ buffer[s] # <<>> /\ rpc[s] = "open"
      /\ log \in Seq(Event)
  BY DEF Forward, Ready, TypeInv, TypeOK
<1>2. /\ n = buffer[s][1] /\ 1 \in DOMAIN buffer[s]
      /\ n \in EventNumbers
  BY <1>1, TailFacts
<1>3. /\ m \in DOMAIN Received(s) /\ Received(s)[m] = n
      /\ \A i \in DOMAIN sent[s] : i \in DOMAIN Received(s) /\ i < m /\ Received(s)[i] = sent[s][i]
  <2> DEFINE p == sent[s]
             q == buffer[s]
  <2>1. p \in Seq(EventNumbers) /\ q \in Seq(EventNumbers) /\ Received(s) = p \o q
    BY <1>1 DEF Received
  <2>2. n = q[1] /\ 1 \in DOMAIN q /\ m = Len(p) + 1
    BY <1>2
  <2> HIDE DEF p, q, n, m
  <2>3. /\ DOMAIN p = 1..Len(p) /\ Len(p) \in Nat
        /\ DOMAIN q = 1..Len(q) /\ Len(q) \in Nat
        /\ DOMAIN (p \o q) = 1..Len(p) + Len(q)
        /\ \A i \in 1..Len(p) : (p \o q)[i] = p[i]
        /\ \A i \in 1..Len(q) : (p \o q)[Len(p) + i] = q[i]
    BY <2>1, ConcatFacts
  <2>4. /\ m \in DOMAIN (p \o q) /\ (p \o q)[m] = n
        /\ \A i \in DOMAIN p : i \in DOMAIN (p \o q) /\ i < m /\ (p \o q)[i] = p[i]
    BY <2>2, <2>3
  <2> QED BY <2>1, <2>4 DEF p
<1>4. n <= Len(log) /\ DOMAIN log = 1..Len(log)
  BY <1>1, <1>3 DEF OrderInv, Published
<1>5. n \in DOMAIN log
  BY <1>1, <1>2, <1>4, FanoutAssumption DEF EventNumbers
<1>6. n > since[s]
  <2>1. since[s] \in Nat
    BY DEF TypeInv, TypeOK
  <2> QED BY <1>2, <2>1, FanoutAssumption DEF FreshInv, Newer, EventNumbers
<1>7. \A i \in DOMAIN sent[s] : sent[s][i] \in DOMAIN log
  <2>1. \A i \in DOMAIN sent[s] : sent[s][i] <= Len(log) /\ sent[s][i] \in EventNumbers
    BY <1>1, <1>3 DEF OrderInv, Published
  <2> QED BY <1>1, <1>4, <2>1, FanoutAssumption DEF EventNumbers
<1>8. \A i \in DOMAIN sent[s] : log[sent[s][i]].from = log[n].from => sent[s][i] < n
  BY <1>3 DEF OrderInv, InOrder
<1>9. \A k \in DOMAIN log : Authors[k] = log[k].from
  BY DEF Authors
<1> HIDE DEF n, m
<1>10. \A i \in DOMAIN sent[s] : Authors[sent[s][i]] = Authors[n] => sent[s][i] < n
  BY <1>5, <1>7, <1>8, <1>9
<1>11. Joined[s] = "yes" /\ Joined' = Joined
  BY <1>1 DEF Joined, Forward
<1>12. sent' = [sent EXCEPT ![s] = Append(@, n)] /\ UNCHANGED <<log, since>>
  BY DEF Forward, n
<1>13. n \in DOMAIN Authors /\ Authors' = Authors
  BY <1>5, <1>12 DEF Authors
<1>14. Feed!Deliver(s, n)
  BY <1>6, <1>10, <1>11, <1>12, <1>13 DEF Feed!Deliver, Authors, Joined
<1> QED BY <1>13, <1>14

\* The steps that the feed does not see.
LEMMA OthersStutter ==
  ASSUME UNCHANGED <<log, rpc, since, sent>>
  PROVE  UNCHANGED Feed!vars
BY DEF Feed!vars

\* The fan-out, with its channels, its snapshots and its full buffers, is a
\* best-effort feed: what a stream is sent was broadcast after it subscribed, is
\* sent while its handler runs, at most once, and in its author's order.
THEOREM EngineImplementsFeed == Spec => ImplementsFeed
<1>1. Init => Feed!Init
  BY FanoutAssumption DEF Init, Feed!Init
<1>2. TypeInv /\ OrderInv /\ FreshInv /\ [Next]_vars => [Feed!Next]_Feed!vars
  <2> SUFFICES ASSUME TypeInv, OrderInv, FreshInv, [Next]_vars
               PROVE  Feed!Next \/ UNCHANGED Feed!vars
    OBVIOUS
  <2>1. ASSUME NEW g \in Goroutines, Snapshot(g) PROVE Feed!Next
    BY <2>1, SnapshotPublishes DEF Feed!Next
  <2>2. ASSUME NEW g \in Goroutines, NEW s \in Streams, SendTo(g, s)
        PROVE  UNCHANGED Feed!vars
    BY <2>2, OthersStutter DEF SendTo
  <2>3. ASSUME NEW s \in Streams, Subscribe(s) PROVE Feed!Next
    BY <2>3, SubscribeJoins DEF Feed!Next
  <2>4. ASSUME NEW s \in Streams,
               RejectSubscribe(s) \/ SendFails(s) \/ ChannelClosed(s) \/ Disconnect(s)
        PROVE  Feed!Next
    <3>1. rpc' = [rpc EXCEPT ![s] = "returned"] /\ UNCHANGED <<log, since, sent>>
      BY <2>4 DEF RejectSubscribe, SendFails, ChannelClosed, Disconnect, Return
    <3> QED BY <3>1, ReturnLeaves DEF Feed!Next
  <2>5. ASSUME NEW s \in Streams, Forward(s) PROVE Feed!Next
    BY <2>5, ForwardDelivers DEF Feed!Next, Authors
  <2>6. ASSUME NEW s \in Streams, FilterOut(s) PROVE UNCHANGED Feed!vars
    BY <2>6, OthersStutter DEF FilterOut
  <2>7. CASE UNCHANGED vars
    BY <2>7, OthersStutter DEF vars
  <2> QED BY <2>1, <2>2, <2>3, <2>4, <2>5, <2>6, <2>7 DEF Next
<1> QED
  BY <1>1, <1>2, TypeInvAlways, OrderInvAlways, FreshInvAlways, PTL
  DEF Spec, ImplementsFeed, Feed!Spec
================================================================================
