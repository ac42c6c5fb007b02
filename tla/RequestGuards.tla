----------------------------- MODULE RequestGuards -----------------------------
(***************************************************************************)
(* The interceptor chain (internal/interceptors/chain.go) around a handler *)
(* with its cache of rate limiters (internal/ratelimit/limiter.go), and    *)
(* the status the HTTP gateway (cmd/gateway/main.go) makes of a code.      *)
(*                                                                         *)
(* A call passes recovery, authentication, rate limit and logging, then    *)
(* its handler.  The chain is a library: no main installs it yet.          *)
(***************************************************************************)
EXTENDS Naturals, FiniteSets

CONSTANTS
  Calls,         \* the calls, each made once
  MethodOf,      \* the method of a call
  UserOf,        \* the user its token names
  UnaryCalls,    \* the other calls are streams
  Authenticated, \* the calls whose token ValidateToken accepts
  HealthMethods, \* methods that need no token
  MethodLimits,  \* the limit per tick of the methods that have one
  DefaultLimit,  \* the limit of the others
  Burst,         \* DefaultBurst
  MaxTicks,      \* bound on the clock
  NoLimiter      \* no limiter

Methods == {MethodOf[k] : k \in Calls}

ASSUME GuardsAssumption ==
  /\ IsFiniteSet(Calls)
  /\ UnaryCalls \subseteq Calls /\ Authenticated \subseteq Calls
  /\ NoLimiter \notin Calls
  /\ \A m \in DOMAIN MethodLimits : MethodLimits[m] \in Nat \ {0}
  /\ DefaultLimit \in Nat \ {0} /\ Burst \in Nat \ {0} /\ MaxTicks \in Nat

VARIABLES
  pc,       \* where call k is in the chain
  cache,    \* limiterCache: the limiter of a method, named by the call that made it
  tokens,   \* tokens[l]: what is left in the bucket of limiter l
  got,      \* got[k]: the limiter call k goes by
  readers,  \* calls that hold cacheMu for reading
  writer,   \* calls that hold it for writing
  code,     \* code[k]: the status code the client of k gets
  ran,      \* ran[k]: how the handler of k ended (history)
  ticks     \* the clock

vars == <<pc, cache, tokens, got, readers, writer, code, ran, ticks>>

Codes == {"none", "OK", "Unauthenticated", "ResourceExhausted", "Internal", "NotFound"}
Limiters == Calls \union {NoLimiter}

TypeOK ==
  /\ pc \in [Calls -> {"auth", "limit", "cached", "slow", "create", "allow", "handler", "done"}]
  /\ cache \in [Methods -> Limiters] /\ got \in [Calls -> Limiters]
  /\ tokens \in [Calls -> 0..Burst]
  /\ readers \subseteq Calls /\ writer \subseteq Calls
  /\ Cardinality(writer) <= 1 /\ (writer = {} \/ readers = {})
  /\ code \in [Calls -> Codes] /\ ran \in [Calls -> {"no", "ok", "error", "panic"}]
  /\ ticks \in 0..MaxTicks

Init ==
  /\ pc = [k \in Calls |-> "auth"]
  /\ cache = [m \in Methods |-> NoLimiter]
  /\ tokens = [k \in Calls |-> 0]
  /\ got = [k \in Calls |-> NoLimiter]
  /\ readers = {} /\ writer = {}
  /\ code = [k \in Calls |-> "none"]
  /\ ran = [k \in Calls |-> "no"]
  /\ ticks = 0

Goto(k, from, to) == pc[k] = from /\ pc' = [pc EXCEPT ![k] = to]

-------------------------------------------------------------------------------
(* Authentication *)

\* The token that ExtractTokenFromMetadata finds is one ValidateToken accepts.
Accepted(k) == MethodOf[k] \in HealthMethods \/ k \in Authenticated

\* Mutant of Admit: the rate limit comes before the authentication.
AdmitUnchecked(k) ==
  /\ Goto(k, "auth", "limit")
  /\ UNCHANGED <<cache, tokens, got, readers, writer, code, ran, ticks>>

Admit(k) ==
  /\ Goto(k, "auth", "limit") /\ Accepted(k)
  /\ UNCHANGED <<cache, tokens, got, readers, writer, code, ran, ticks>>

Refuse(k) ==
  /\ Goto(k, "auth", "done") /\ ~Accepted(k)
  /\ code' = [code EXCEPT ![k] = "Unauthenticated"]
  /\ UNCHANGED <<cache, tokens, got, readers, writer, ran, ticks>>

-------------------------------------------------------------------------------
(* GetLimiter *)

RLock(k) ==
  /\ Goto(k, "limit", "cached") /\ writer = {}
  /\ readers' = readers \union {k}
  /\ UNCHANGED <<cache, tokens, got, writer, code, ran, ticks>>

\* Mutant of Hit: the limiter is returned with the lock held.
HitLocked(k) ==
  /\ Goto(k, "cached", "allow") /\ cache[MethodOf[k]] # NoLimiter
  /\ got' = [got EXCEPT ![k] = cache[MethodOf[k]]]
  /\ UNCHANGED <<cache, tokens, readers, writer, code, ran, ticks>>

Hit(k) ==
  /\ Goto(k, "cached", "allow") /\ cache[MethodOf[k]] # NoLimiter
  /\ got' = [got EXCEPT ![k] = cache[MethodOf[k]]]
  /\ readers' = readers \ {k}
  /\ UNCHANGED <<cache, tokens, writer, code, ran, ticks>>

Miss(k) ==
  /\ Goto(k, "cached", "slow") /\ cache[MethodOf[k]] = NoLimiter
  /\ readers' = readers \ {k}
  /\ UNCHANGED <<cache, tokens, got, writer, code, ran, ticks>>

Lock(k) ==
  /\ Goto(k, "slow", "create") /\ readers = {} /\ writer = {}
  /\ writer' = {k}
  /\ UNCHANGED <<cache, tokens, got, readers, code, ran, ticks>>

\* Mutant of Create: no second look.
CreateUnchecked(k) ==
  /\ Goto(k, "create", "allow")
  /\ cache' = [cache EXCEPT ![MethodOf[k]] = k]
  /\ got' = [got EXCEPT ![k] = k]
  /\ tokens' = [tokens EXCEPT ![k] = Burst]
  /\ writer' = {}
  /\ UNCHANGED <<readers, code, ran, ticks>>

\* The second look under the lock, and a new limiter with a full bucket if there
\* is still none.
Create(k) ==
  LET m == MethodOf[k] IN
  /\ Goto(k, "create", "allow")
  /\ cache' = IF cache[m] = NoLimiter THEN [cache EXCEPT ![m] = k] ELSE cache
  /\ tokens' = IF cache[m] = NoLimiter THEN [tokens EXCEPT ![k] = Burst] ELSE tokens
  /\ got' = [got EXCEPT ![k] = cache'[m]]
  /\ writer' = {}
  /\ UNCHANGED <<readers, code, ran, ticks>>

-------------------------------------------------------------------------------
(* Rate limit, handler and recovery *)

Allow(k) ==
  /\ Goto(k, "allow", "handler") /\ tokens[got[k]] > 0
  /\ tokens' = [tokens EXCEPT ![got[k]] = @ - 1]
  /\ UNCHANGED <<cache, got, readers, writer, code, ran, ticks>>

Exceed(k) ==
  /\ Goto(k, "allow", "done") /\ tokens[got[k]] = 0
  /\ code' = [code EXCEPT ![k] = "ResourceExhausted"]
  /\ UNCHANGED <<cache, tokens, got, readers, writer, ran, ticks>>

\* Mutant of AfterPanic: a unary call is recovered as a stream is.
AfterPanicSilent(k) == "OK"

\* What recovery makes of a panic: an error of a unary call, and nothing of a
\* stream, whose interceptor then returns nil.
AfterPanic(k) == IF k \in UnaryCalls THEN "Internal" ELSE "OK"

\* The handler returns, with or without an error, or panics.
Handle(k) ==
  /\ Goto(k, "handler", "done")
  /\ \E how \in {"ok", "error", "panic"} :
       /\ ran' = [ran EXCEPT ![k] = how]
       /\ code' = [code EXCEPT ![k] = CASE how = "ok" -> "OK"
                                        [] how = "error" -> "NotFound"
                                        [] how = "panic" -> AfterPanic(k)]
  /\ UNCHANGED <<cache, tokens, got, readers, writer, ticks>>

\* Limit of a method, as limiter.go looks it up.
LimitOf(m) == IF m \in DOMAIN MethodLimits THEN MethodLimits[m] ELSE DefaultLimit

\* What a bucket holds a tick later.
Refill(l, m) == IF tokens[l] + LimitOf(m) > Burst THEN Burst ELSE tokens[l] + LimitOf(m)

Tick ==
  /\ ticks < MaxTicks
  /\ ticks' = ticks + 1
  /\ tokens' = [l \in Calls |-> IF \E k \in Calls : got[k] = l \/ cache[MethodOf[k]] = l
                                THEN Refill(l, MethodOf[l]) ELSE tokens[l]]
  /\ UNCHANGED <<pc, cache, got, readers, writer, code, ran>>

Step(k) ==
  \/ Admit(k) \/ Refuse(k)
  \/ RLock(k) \/ Hit(k) \/ Miss(k) \/ Lock(k) \/ Create(k)
  \/ Allow(k) \/ Exceed(k) \/ Handle(k)

Next == Tick \/ \E k \in Calls : Step(k)

\* Every call has a goroutine that the scheduler runs; a lock that is free again
\* and again is taken in the end.
Spec == Init /\ [][Next]_vars /\ \A k \in Calls : SF_vars(Step(k))

-------------------------------------------------------------------------------
(* The HTTP gateway *)

grpcCodeToHTTPStatus(c) ==
  CASE c = "OK" -> 200
    [] c = "Unauthenticated" -> 401
    [] c = "NotFound" -> 404
    [] c = "ResourceExhausted" -> 429
    [] c = "Internal" -> 500

-------------------------------------------------------------------------------
(* Properties *)

\* The limit holds for a method, with the calls of all users together, whatever
\* the order in which its first calls look for the limiter: never more pass than
\* one full bucket and its refills.
LimitHolds ==
  \A m \in Methods :
    Cardinality({k \in Calls : MethodOf[k] = m /\ (pc[k] = "handler" \/ ran[k] # "no")})
      <= Burst + ticks * LimitOf(m)

\* The accepted calls of the method of k that got through.
AheadOf(k) == {j \in Calls : /\ Accepted(j) /\ MethodOf[j] = MethodOf[k]
                             /\ pc[j] = "handler" \/ ran[j] # "no"}

\* A call is turned away for the limit only if as many accepted calls of its
\* method, whoever made them, got through: calls without a token, which are
\* refused before, take nothing from the others, and a limiter starts full.
RejectedOnlyAtLimit ==
  \A k \in Calls : code[k] = "ResourceExhausted" => Cardinality(AheadOf(k)) >= Burst

\* Violated by the code: "applies per-user rate limiting" (chain.go:33), "Rate
\* limits are per-user" (ARCHITECTURE.md:147), so only the calls of the same user
\* would count against one.
RejectedOnlyForOwnCalls ==
  \A k \in Calls : code[k] = "ResourceExhausted" =>
    Cardinality({j \in AheadOf(k) : UserOf[j] = UserOf[k]}) >= Burst

\* Through the gateway the client of a unary call reads 200 exactly if the
\* handler returned without an error: refusals, rejections and panics all show.
UnaryAnswersAreHonest ==
  \A k \in UnaryCalls :
    pc[k] = "done" => (grpcCodeToHTTPStatus(code[k]) = 200) = (ran[k] = "ok")

\* The chain, with its lookup in two tries, its lock and limiters that come into
\* being with the first call of a method, keeps what limiter.go:50 says of itself,
\* "per-method rate limiting": it decides as one bucket per method would that had
\* always been there.  Each verdict falls in one step, and nothing else takes
\* tokens or adds any.  All users share the bucket; see RejectedOnlyForOwnCalls.
VerdictOn(k) ==
  CASE code[k] = "Unauthenticated"          -> "refused"
    [] code[k] = "ResourceExhausted"        -> "rejected"
    [] pc[k] = "handler" \/ ran[k] # "no"   -> "passed"
    [] OTHER                                -> "pending"

BucketOf(m) == IF cache[m] = NoLimiter THEN Burst ELSE tokens[cache[m]]

Buckets == INSTANCE MethodBuckets WITH
  Entitled <- {k \in Calls : Accepted(k)},
  Limit    <- [m \in Methods |-> LimitOf(m)],
  bucket   <- [m \in Methods |-> BucketOf(m)],
  verdict  <- [k \in Calls |-> VerdictOn(k)],
  clock    <- ticks

ImplementsBuckets == Buckets!Spec

\* Every call is answered: no path through GetLimiter keeps the lock.
EveryCallIsAnswered == \A k \in Calls : <>(pc[k] = "done")

===============================================================================
