---------------------------- MODULE ServiceLifecycle ---------------------------
(***************************************************************************)
(* How the processes of the back end start, fail and stop: the errgroup    *)
(* at the end of main in services/{alert-engine,analyzer,geo-index,report, *)
(* ingestor}/cmd/main.go.  A main runs the gRPC server, the metrics server *)
(* and its workers as goroutines of one group, and one goroutine more that *)
(* waits for SIGTERM or for the group's context.                           *)
(*                                                                         *)
(* Unary calls end by themselves.  A streaming call ends with its client:  *)
(* no handler looks at the context of the process.                         *)
(***************************************************************************)
EXTENDS Naturals, FiniteSets

CONSTANTS
  Services,  \* the mains to run: records [workers, cancels]
  Calls,     \* RPCs that may arrive
  Streams    \* those among them that end only when their clients leave

Servers == {"grpc", "metrics"}
Workers == {"engine", "consumer"}

ASSUME LifecycleAssumption ==
  /\ Services \subseteq [workers : SUBSET Workers, cancels : BOOLEAN]
  /\ Streams \subseteq Calls

VARIABLES
  main,    \* the main that runs
  state,   \* state[g]: "running", or how goroutine g of the group returned
  done,    \* the context of the group is cancelled
  sigChan, \* a signal waits in the channel
  waiter,  \* where the goroutine that waits for the signal is
  calls,   \* the RPCs under way
  fresh,   \* the RPCs that have not arrived yet
  failed,  \* goroutines that broke down by themselves (history)
  exit     \* "no", or the exit status

vars == <<main, state, done, sigChan, waiter, calls, fresh, failed, exit>>

Group(m) == Servers \union m.workers \union {"waiter"}

-------------------------------------------------------------------------------
(* The mains: their workers, and whether they cancel the context on a signal *)

\* Mutant of alertEngine: the signal does not cancel the context.
alertEngineUncancelled == [workers |-> {"engine", "consumer"}, cancels |-> FALSE]

alertEngine == [workers |-> {"engine", "consumer"}, cancels |-> TRUE]
analyzer    == [workers |-> {"consumer"}, cancels |-> TRUE]
geoIndex    == [workers |-> {}, cancels |-> TRUE]
reporter    == [workers |-> {}, cancels |-> TRUE]
ingestor    == [workers |-> {}, cancels |-> FALSE]

TypeOK ==
  /\ main \in Services
  /\ state \in [Group(main) -> {"running", "nil", "error"}]
  /\ done \in BOOLEAN /\ sigChan \in BOOLEAN
  /\ waiter \in {"waiting", "stopping", "closing", "stopped", "gone"}
  /\ calls \subseteq Calls /\ fresh \subseteq Calls \ calls
  /\ failed \subseteq Group(main)
  /\ exit \in {"no", "0", "1"}

Init ==
  /\ main \in Services
  /\ state = [g \in Group(main) |-> "running"]
  /\ done = FALSE /\ sigChan = FALSE /\ waiter = "waiting"
  /\ calls = {} /\ fresh = Calls
  /\ failed = {} /\ exit = "no"

Alive == exit = "no"

\* g.Go: the goroutine returns; the first error cancels the group's context.
Return(g, how) ==
  /\ state' = [state EXCEPT ![g] = how]
  /\ done' = (done \/ how = "error")

-------------------------------------------------------------------------------
(* Calls *)

\* The listener is open until GracefulStop, or until Serve has failed.
Arrive(k) ==
  /\ Alive /\ k \in fresh
  /\ state["grpc"] = "running" /\ waiter \in {"waiting", "gone"}
  /\ calls' = calls \union {k} /\ fresh' = fresh \ {k}
  /\ UNCHANGED <<main, state, done, sigChan, waiter, failed, exit>>

\* A unary call is answered; the client of a stream leaves.
Finish(k) ==
  /\ Alive /\ k \in calls
  /\ calls' = calls \ {k}
  /\ UNCHANGED <<main, state, done, sigChan, waiter, fresh, failed, exit>>

-------------------------------------------------------------------------------
(* The goroutines of the group *)

\* Serve, ListenAndServe, or the start of a worker fails.
Fail(g) ==
  /\ Alive /\ state[g] = "running"
  /\ g # "waiter"
  /\ Return(g, "error")
  /\ failed' = failed \union {g}
  /\ UNCHANGED <<main, sigChan, waiter, calls, fresh, exit>>

\* Mutant of WorkerStops: a worker returns the error of the context.
WorkerStopsWithError(g) ==
  /\ Alive /\ g \in Workers /\ state[g] = "running"
  /\ done
  /\ Return(g, "error")
  /\ UNCHANGED <<main, sigChan, waiter, calls, fresh, failed, exit>>

\* A worker sees that the context is done.
WorkerStops(g) ==
  /\ Alive /\ g \in Workers /\ state[g] = "running"
  /\ done
  /\ Return(g, "nil")
  /\ UNCHANGED <<main, sigChan, waiter, calls, fresh, failed, exit>>

\* The channel takes a signal whether or not anybody will still receive it.
Sigterm ==
  /\ Alive /\ ~sigChan
  /\ sigChan' = TRUE
  /\ UNCHANGED <<main, state, done, waiter, calls, fresh, failed, exit>>

\* The signal is received: cancel, and GracefulStop closes the listener.  When
\* the context is done as well, select may take either branch.
TakeSignal ==
  /\ Alive /\ waiter = "waiting" /\ sigChan
  /\ sigChan' = FALSE /\ waiter' = "stopping"
  /\ done' = (done \/ main.cancels)
  /\ UNCHANGED <<main, state, calls, fresh, failed, exit>>

\* The context is done first: the goroutine returns and stops nothing.
TakeDone ==
  /\ Alive /\ waiter = "waiting" /\ done
  /\ waiter' = "gone"
  /\ Return("waiter", "error")
  /\ UNCHANGED <<main, sigChan, calls, fresh, failed, exit>>

\* Mutant of GracefulStop: Stop, which ends the calls that are under way.
GracefulStopAtOnce ==
  /\ Alive /\ waiter = "stopping"
  /\ waiter' = "closing"
  /\ state' = [state EXCEPT !["grpc"] = IF @ = "running" THEN "nil" ELSE @]
  /\ UNCHANGED <<main, done, sigChan, calls, fresh, failed, exit>>

\* GracefulStop returns when no call is left, and Serve with it.
GracefulStop ==
  /\ Alive /\ waiter = "stopping" /\ calls = {}
  /\ waiter' = "closing"
  /\ state' = [state EXCEPT !["grpc"] = IF @ = "running" THEN "nil" ELSE @]
  /\ UNCHANGED <<main, done, sigChan, calls, fresh, failed, exit>>

\* Shutdown of the metrics server, which its timeout bounds.
Shutdown ==
  /\ Alive /\ waiter = "closing"
  /\ waiter' = "stopped"
  /\ state' = [state EXCEPT !["metrics"] = IF @ = "running" THEN "nil" ELSE @,
                            !["waiter"] = "nil"]
  /\ UNCHANGED <<main, done, sigChan, calls, fresh, failed, exit>>

\* Mutant of Wait: it returns with the first error.
WaitForFirst ==
  /\ Alive
  /\ \E g \in Group(main) : state[g] = "error"
  /\ exit' = "1"
  /\ UNCHANGED <<main, state, done, sigChan, waiter, calls, fresh, failed>>

\* Wait returns when every goroutine has: main ends, or exits with status 1.
Wait ==
  /\ Alive
  /\ \A g \in Group(main) : state[g] # "running"
  /\ exit' = IF \E g \in Group(main) : state[g] = "error" THEN "1" ELSE "0"
  /\ UNCHANGED <<main, state, done, sigChan, waiter, calls, fresh, failed>>

Next ==
  \/ \E k \in Calls : Arrive(k) \/ Finish(k)
  \/ \E g \in Group(main) : Fail(g) \/ WorkerStops(g)
  \/ Sigterm \/ TakeSignal \/ TakeDone \/ GracefulStop \/ Shutdown \/ Wait

\* Goroutines that can go on do.  That a unary call is answered is an assumption
\* about its handler and what it calls, not all of which has a timeout.  Clients
\* of streams, signals and failures owe nothing.
Fairness ==
  /\ WF_vars(\E g \in Workers \cap Group(main) : WorkerStops(g))
  /\ WF_vars(TakeSignal \/ TakeDone) /\ WF_vars(GracefulStop)
  /\ WF_vars(Shutdown) /\ WF_vars(Wait)
  /\ \A k \in Calls \ Streams : WF_vars(Finish(k))

Spec == Init /\ [][Next]_vars /\ Fairness

-------------------------------------------------------------------------------
(* Properties *)

\* The exit status is honest: 0 means that no goroutine broke down and no call
\* was cut off, 1 that one did break down.
ExitIsHonest ==
  /\ exit = "0" => failed = {} /\ calls = {}
  /\ exit = "1" => failed # {}

\* A process whose servers are sound answers its health checks as long as it has
\* calls, also while it stops.
HealthOutlivesCalls ==
  calls # {} /\ failed \cap Servers = {} => state["metrics"] = "running"

\* SIGTERM ends a sound process as soon as the clients of its streams are gone.
StopsOnceClientsLeave ==
  (waiter = "stopping" /\ failed = {}) ~>
     exit # "no" \/ failed # {} \/ calls \cap Streams # {}

\* A process that lost a goroutine before any signal, with its gRPC server
\* intact, is never over: it neither ends nor exits with status 1, and SIGTERM
\* does not stop it any more.
HalfDeadForever ==
  [](waiter = "gone" /\ "grpc" \notin failed =>
       [](exit = "no" \/ "grpc" \in failed))

===============================================================================
