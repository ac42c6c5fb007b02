------------------------------ MODULE MethodBuckets ------------------------------
(***************************************************************************)
(* What authentication and rate limit decide about a call, without a       *)
(* chain, a cache of limiters or its lock: every method has one bucket of  *)
(* tokens, full from the beginning; a call with a valid token takes one    *)
(* and passes, or is rejected if there is none, in one step; a call        *)
(* without a valid token is refused and takes nothing.                     *)
(***************************************************************************)
EXTENDS Naturals

CONSTANTS Calls,     \* the calls
          Methods,   \* the methods
          MethodOf,  \* the method of a call
          Entitled,  \* the calls that authentication lets through
          Limit,     \* Limit[m]: what the bucket of m gains in a tick
          Burst      \* what a bucket holds

VARIABLES bucket,    \* bucket[m]: what is left in the bucket of method m
          verdict,   \* verdict[k]: what was decided about call k
          clock

vars == <<bucket, verdict, clock>>

Init ==
  /\ bucket = [m \in Methods |-> Burst]
  /\ verdict = [k \in Calls |-> "pending"]
  /\ clock = 0

\* The verdict on a call is given once.
Decide(k, v) ==
  /\ verdict[k] = "pending"
  /\ verdict' = [verdict EXCEPT ![k] = v]
  /\ UNCHANGED clock

Refuse(k) ==
  /\ k \notin Entitled
  /\ Decide(k, "refused")
  /\ UNCHANGED bucket

Pass(k) ==
  /\ k \in Entitled
  /\ bucket[MethodOf[k]] > 0
  /\ Decide(k, "passed")
  /\ bucket' = [bucket EXCEPT ![MethodOf[k]] = @ - 1]

Reject(k) ==
  /\ k \in Entitled
  /\ bucket[MethodOf[k]] = 0
  /\ Decide(k, "rejected")
  /\ UNCHANGED bucket

Refilled(m) == IF bucket[m] + Limit[m] > Burst THEN Burst ELSE bucket[m] + Limit[m]

Tick ==
  /\ clock' = clock + 1
  /\ bucket' = [m \in Methods |-> Refilled(m)]
  /\ UNCHANGED verdict

Next == Tick \/ \E k \in Calls : Refuse(k) \/ Pass(k) \/ Reject(k)

Spec == Init /\ [][Next]_vars
===============================================================================
