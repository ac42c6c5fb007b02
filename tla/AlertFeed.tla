------------------------------- MODULE AlertFeed -------------------------------
(***************************************************************************)
(* What the alert engine promises a caller of SubscribeAlerts, without     *)
(* channels, locks or goroutines: a best-effort feed.  An event may be     *)
(* skipped, but what a stream is sent was published after the stream       *)
(* joined, is sent while the stream is still there, at most once, and in   *)
(* the publishing order of the goroutine that published it.  Events of     *)
(* different goroutines may overtake each other.                           *)
(***************************************************************************)
EXTENDS Naturals, Sequences

CONSTANTS Streams,      \* the SubscribeAlerts calls
          Goroutines    \* the goroutines that publish events

VARIABLES published,    \* published[n] is the goroutine that published event n
          joined,       \* joined[s]: "no", "yes" or "left"
          start,        \* start[s]: how many events were published before s joined
          feed          \* feed[s]: the numbers of the events sent on stream s

vars == <<published, joined, start, feed>>

TypeOK ==
  /\ published \in Seq(Goroutines)
  /\ joined \in [Streams -> {"no", "yes", "left"}]
  /\ start \in [Streams -> Nat]
  /\ feed \in [Streams -> Seq(Nat \ {0})]

Init ==
  /\ published = <<>>
  /\ joined = [s \in Streams |-> "no"]
  /\ start = [s \in Streams |-> 0]
  /\ feed = [s \in Streams |-> <<>>]

Publish(g) ==
  /\ published' = Append(published, g)
  /\ UNCHANGED <<joined, start, feed>>

Join(s) ==
  /\ joined[s] = "no"
  /\ joined' = [joined EXCEPT ![s] = "yes"]
  /\ start' = [start EXCEPT ![s] = Len(published)]
  /\ UNCHANGED <<published, feed>>

\* A stream may also leave before it joined: its request is rejected.
Leave(s) ==
  /\ joined' = [joined EXCEPT ![s] = "left"]
  /\ UNCHANGED <<published, start, feed>>

Deliver(s, n) ==
  /\ joined[s] = "yes"
  /\ n > start[s]
  /\ \A i \in DOMAIN feed[s] : published[feed[s][i]] = published[n] => feed[s][i] < n
  /\ feed' = [feed EXCEPT ![s] = Append(@, n)]
  /\ UNCHANGED <<published, joined, start>>

Next ==
  \/ \E g \in Goroutines : Publish(g)
  \/ \E s \in Streams : Join(s) \/ Leave(s)
  \/ \E s \in Streams : \E n \in DOMAIN published : Deliver(s, n)

Spec == Init /\ [][Next]_vars
================================================================================
