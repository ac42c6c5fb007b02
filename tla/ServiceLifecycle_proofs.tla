------------------------ MODULE ServiceLifecycle_proofs ------------------------
(***************************************************************************)
(* Proofs about ServiceLifecycle, for any mains whose workers are those of *)
(* Workers and for any calls.                                              *)
(***************************************************************************)
EXTENDS ServiceLifecycle, TLAPS

LEMMA GroupFacts ==
  ASSUME NEW m \in Services
  PROVE  /\ m.cancels \in BOOLEAN
         /\ {"grpc", "metrics", "waiter"} \subseteq Group(m)
BY LifecycleAssumption DEF Group, Servers

LEMMA TypeInit == Init => TypeOK
BY DEF Init, TypeOK

LEMMA TypeStep == TypeOK /\ [Next]_vars => TypeOK'
<1> SUFFICES ASSUME TypeOK, [Next]_vars PROVE TypeOK'
  OBVIOUS
<1> USE GroupFacts DEF TypeOK
<1>1. ASSUME NEW k \in Calls, Arrive(k) \/ Finish(k) PROVE TypeOK'
  BY <1>1 DEF Arrive, Finish
<1>2. ASSUME NEW g \in Group(main), Fail(g) \/ WorkerStops(g) PROVE TypeOK'
  BY <1>2 DEF Fail, WorkerStops, Return
<1>3. CASE Sigterm \/ TakeSignal \/ TakeDone
  BY <1>3 DEF Sigterm, TakeSignal, TakeDone, Return
<1>4. CASE GracefulStop \/ Shutdown \/ Wait
  BY <1>4 DEF GracefulStop, Shutdown, Wait
<1>5. CASE UNCHANGED vars
  BY <1>5 DEF vars
<1> QED BY <1>1, <1>2, <1>3, <1>4, <1>5 DEF Next

\* Every variable keeps its type; in particular a main only ever has the
\* goroutines it started.
THEOREM TypeCorrect == Spec => []TypeOK
BY TypeInit, TypeStep, PTL DEF Spec

-------------------------------------------------------------------------------
(* The group *)

\* A goroutine of the group returns an error exactly if it broke down; only the
\* one that waits for the signal passes on the error of another.
ErrorsAreFailures ==
  /\ "waiter" \notin failed
  /\ \A g \in Group(main) \ {"waiter"} : state[g] = "error" <=> g \in failed

\* The context is done before a signal, and the waiter gives up, only after a
\* goroutine broke down.
DoneIsFailure ==
  /\ done /\ waiter = "waiting" => failed # {}
  /\ waiter = "gone" => failed # {}
  /\ state["waiter"] = "error" => waiter = "gone"

\* The servers are closed one after the other, the first when no call is left.
ClosedInOrder ==
  /\ waiter \in {"closing", "stopped"} => calls = {}
  /\ state["grpc"] = "nil" => waiter \in {"closing", "stopped"}
  /\ state["metrics"] = "nil" => waiter = "stopped"

\* Wait returned only when all goroutines had.
ExitIsLast == exit # "no" => \A g \in Group(main) : state[g] # "running"

LifecycleInv ==
  /\ TypeOK
  /\ ErrorsAreFailures /\ DoneIsFailure /\ ClosedInOrder
  /\ ExitIsLast /\ ExitIsHonest

LEMMA LifecycleInit == Init => LifecycleInv
BY TypeInit, GroupFacts DEF Init, LifecycleInv, ErrorsAreFailures, DoneIsFailure,
   ClosedInOrder, ExitIsLast, ExitIsHonest

LEMMA LifecycleStep == LifecycleInv /\ [Next]_vars => LifecycleInv'
<1> SUFFICES ASSUME LifecycleInv, [Next]_vars PROVE LifecycleInv'
  OBVIOUS
<1>0. TypeOK' /\ main \in Services
  BY TypeStep DEF LifecycleInv, TypeOK
<1>1. {"grpc", "metrics", "waiter"} \subseteq Group(main)
  BY <1>0, GroupFacts
<1> USE <1>0, <1>1 DEF LifecycleInv, TypeOK, ErrorsAreFailures, DoneIsFailure, ClosedInOrder,
                       ExitIsLast, ExitIsHonest, Alive
<1>2. ASSUME NEW k \in Calls, Arrive(k) \/ Finish(k) PROVE LifecycleInv'
  BY <1>2 DEF Arrive, Finish
<1>3. ASSUME NEW g \in Group(main), Fail(g) PROVE LifecycleInv'
  BY <1>3 DEF Fail, Return
<1>4. ASSUME NEW g \in Group(main), WorkerStops(g) PROVE LifecycleInv'
  BY <1>4 DEF WorkerStops, Return, Workers
<1>5. CASE Sigterm
  BY <1>5 DEF Sigterm
<1>6. CASE TakeSignal
  BY <1>6 DEF TakeSignal
<1>7. CASE TakeDone
  BY <1>7 DEF TakeDone, Return
<1>8. CASE GracefulStop
  BY <1>8 DEF GracefulStop
<1>9. CASE Shutdown
  BY <1>9 DEF Shutdown
<1>10. CASE Wait
  BY <1>10 DEF Wait
<1>11. CASE UNCHANGED vars
  BY <1>11 DEF vars
<1> QED
  BY <1>2, <1>3, <1>4, <1>5, <1>6, <1>7, <1>8, <1>9, <1>10, <1>11 DEF Next

LEMMA LifecycleAlways == Spec => []LifecycleInv
BY LifecycleInit, LifecycleStep, PTL DEF Spec

\* A main that ends with status 0 had no breakdown and cut off no call; one that
\* ends with status 1 had a breakdown.
THEOREM ExitStatusIsHonest == Spec => []ExitIsHonest
<1>1. LifecycleInv => ExitIsHonest
  BY DEF LifecycleInv
<1> QED BY LifecycleAlways, <1>1, PTL

\* The metrics server closes only after the last call has ended.
THEOREM HealthIsLast == Spec => []HealthOutlivesCalls
<1>1. LifecycleInv => HealthOutlivesCalls
  BY GroupFacts DEF LifecycleInv, TypeOK, ErrorsAreFailures, ClosedInOrder, HealthOutlivesCalls,
     Servers
<1> QED BY LifecycleAlways, <1>1, PTL

\* Once the goroutine that would stop the servers is gone, nothing ends the process
\* but a breakdown of the gRPC server.
THEOREM HalfDeadIsForever == Spec => HalfDeadForever
<1> DEFINE Gone == waiter = "gone"
           HalfDead == exit = "no" \/ "grpc" \in failed
<1>1. Gone /\ [Next]_vars => Gone'
  BY DEF Next, vars, Arrive, Finish, Fail, WorkerStops, Sigterm, TakeSignal, TakeDone,
     GracefulStop, Shutdown, Wait, Return
<1>2. LifecycleInv /\ Gone => HalfDead
  BY GroupFacts DEF LifecycleInv, TypeOK, ErrorsAreFailures, ClosedInOrder, ExitIsLast
<1> HIDE DEF Gone, HalfDead
<1>3. Spec => [](Gone => []HalfDead)
  BY LifecycleAlways, <1>1, <1>2, PTL DEF Spec
<1> QED BY <1>3, PTL DEF HalfDeadForever, Gone, HalfDead
================================================================================
