------------------------- MODULE RequestGuards_proofs --------------------------
(***************************************************************************)
(* Proofs about RequestGuards, for any number of calls, methods and ticks. *)
(***************************************************************************)
EXTENDS RequestGuards, FiniteSetTheorems, TLAPS

LEMMA LimitType ==
  ASSUME NEW m
  PROVE  LimitOf(m) \in Nat \ {0}
BY GuardsAssumption DEF LimitOf

LEMMA MethodType ==
  ASSUME NEW k \in Calls
  PROVE  MethodOf[k] \in Methods
BY DEF Methods

\* Who holds the lock of the cache is told by where the calls are.
LockInv ==
  /\ \A k \in readers : pc[k] = "cached"
  /\ \A k \in writer : pc[k] = "create"
  /\ \A k \in Calls : pc[k] = "create" => writer = {k}

\* A limiter belongs to the method of the call that made it, and a call that
\* asks for a token has its method's.
CacheInv ==
  /\ \A m \in Methods : cache[m] # NoLimiter => MethodOf[cache[m]] = m
  /\ \A k \in Calls : pc[k] = "allow" =>
       cache[MethodOf[k]] # NoLimiter /\ got[k] = cache[MethodOf[k]]
  /\ \A k \in Calls : got[k] # NoLimiter => got[k] = cache[MethodOf[k]]

\* What a call that is over has behind it.
ChainInv ==
  /\ \A k \in Calls : pc[k] \notin {"auth", "done"} => Accepted(k) /\ ran[k] = "no"
  /\ \A k \in Calls : pc[k] = "auth" => ran[k] = "no"
  /\ \A k \in Calls : pc[k] = "handler" \/ ran[k] # "no" =>
       Accepted(k) /\ cache[MethodOf[k]] # NoLimiter
  /\ \A k \in Calls : pc[k] = "done" =>
       /\ code[k] # "none"
       /\ ran[k] = "no" => code[k] \in {"Unauthenticated", "ResourceExhausted"}
       /\ ran[k] = "ok" => code[k] = "OK"
       /\ ran[k] = "error" => code[k] = "NotFound"
       /\ ran[k] = "panic" => code[k] = AfterPanic(k)
  /\ \A k \in Calls : pc[k] # "done" => code[k] = "none"

ControlInv == TypeOK /\ LockInv /\ CacheInv /\ ChainInv

LEMMA ControlInit == Init => ControlInv
<1> SUFFICES ASSUME Init PROVE ControlInv
  OBVIOUS
<1>1. Cardinality({}) = 0
  BY FS_EmptySet
<1>2. TypeOK
  BY <1>1, GuardsAssumption DEF Init, TypeOK, Limiters, Codes
<1> QED BY <1>2 DEF Init, ControlInv, LockInv, CacheInv, ChainInv

LEMMA RefillType ==
  ASSUME TypeOK, NEW l \in Calls, NEW m
  PROVE  /\ Refill(l, m) \in 0..Burst
         /\ Refill(l, m) <= tokens[l] + LimitOf(m)
         /\ Refill(l, m) = Burst \/ Refill(l, m) >= tokens[l]
BY LimitType, GuardsAssumption DEF Refill, TypeOK

LEMMA ControlTick == ControlInv /\ Tick => ControlInv'
<1> SUFFICES ASSUME ControlInv, Tick PROVE ControlInv'
  OBVIOUS
<1>1. tokens' \in [Calls -> 0..Burst]
  BY RefillType DEF ControlInv, Tick, TypeOK
<1>2. TypeOK'
  BY <1>1, GuardsAssumption DEF ControlInv, Tick, TypeOK
<1> QED BY <1>2 DEF ControlInv, Tick, LockInv, CacheInv, ChainInv

LEMMA TypeStep ==
  ASSUME ControlInv, NEW k \in Calls, Step(k)
  PROVE  TypeOK'
<1>1. /\ Cardinality({}) = 0
      /\ Cardinality({k}) = 1
  BY FS_EmptySet, FS_Singleton
<1> USE <1>1, MethodType DEF ControlInv, TypeOK, Goto
<1>2. CASE Admit(k) \/ Refuse(k)
  BY <1>2 DEF Admit, Refuse, Codes
<1>3. CASE RLock(k) \/ Hit(k) \/ Miss(k)
  BY <1>3 DEF RLock, Hit, Miss, Limiters
<1>4. CASE Lock(k)
  BY <1>4 DEF Lock
<1>5. CASE Create(k)
  BY <1>5, GuardsAssumption DEF Create, Limiters
<1>6. CASE Allow(k)
  <2>1. got[k] \in Calls
    BY <1>6 DEF Allow, CacheInv, Limiters
  <2>2. tokens' \in [Calls -> 0..Burst]
    BY <1>6, <2>1, GuardsAssumption DEF Allow
  <2> QED BY <1>6, <2>2 DEF Allow
<1>7. CASE Exceed(k) \/ Handle(k)
  BY <1>7 DEF Exceed, Handle, Codes, AfterPanic
<1> QED BY <1>2, <1>3, <1>4, <1>5, <1>6, <1>7 DEF Step

LEMMA LockStep ==
  ASSUME ControlInv, NEW k \in Calls, Step(k)
  PROVE  LockInv'
<1> USE DEF ControlInv, TypeOK, LockInv, Goto
<1>1. CASE Admit(k) \/ Refuse(k)
  BY <1>1 DEF Admit, Refuse
<1>2. CASE RLock(k) \/ Hit(k) \/ Miss(k)
  BY <1>2 DEF RLock, Hit, Miss
<1>3. CASE Lock(k) \/ Create(k)
  BY <1>3 DEF Lock, Create
<1>4. CASE Allow(k) \/ Exceed(k) \/ Handle(k)
  BY <1>4 DEF Allow, Exceed, Handle
<1> QED BY <1>1, <1>2, <1>3, <1>4 DEF Step

LEMMA CacheStep ==
  ASSUME ControlInv, NEW k \in Calls, Step(k)
  PROVE  CacheInv' /\ (\A m \in Methods : cache[m] # NoLimiter => cache'[m] = cache[m])
<1> USE MethodType, GuardsAssumption DEF ControlInv, TypeOK, CacheInv, Goto
<1>1. CASE Admit(k) \/ Refuse(k)
  BY <1>1 DEF Admit, Refuse
<1>2. CASE RLock(k) \/ Hit(k) \/ Miss(k)
  BY <1>2 DEF RLock, Hit, Miss
<1>3. CASE Lock(k)
  BY <1>3 DEF Lock
<1>4. CASE Create(k)
  <2>1. CASE cache[MethodOf[k]] = NoLimiter
    BY <1>4, <2>1 DEF Create
  <2>2. CASE cache[MethodOf[k]] # NoLimiter
    BY <1>4, <2>2 DEF Create
  <2> QED BY <2>1, <2>2
<1>5. CASE Allow(k) \/ Exceed(k) \/ Handle(k)
  BY <1>5 DEF Allow, Exceed, Handle
<1> QED BY <1>1, <1>2, <1>3, <1>4, <1>5 DEF Step

LEMMA ChainStep ==
  ASSUME ControlInv, NEW k \in Calls, Step(k)
  PROVE  ChainInv'
<1>1. \A m \in Methods : cache[m] # NoLimiter => cache'[m] # NoLimiter
  BY CacheStep
<1> USE <1>1, MethodType DEF ControlInv, TypeOK, ChainInv, Goto, Accepted, AfterPanic
<1>2. CASE Admit(k) \/ Refuse(k)
  BY <1>2 DEF Admit, Refuse
<1>3. CASE RLock(k) \/ Hit(k) \/ Miss(k)
  BY <1>3 DEF RLock, Hit, Miss
<1>4. CASE Lock(k)
  BY <1>4 DEF Lock
<1>5. CASE Create(k)
  BY <1>5 DEF Create
<1>6. CASE Allow(k) \/ Exceed(k)
  BY <1>6 DEF Allow, Exceed, CacheInv
<1>7. CASE Handle(k)
  BY <1>7 DEF Handle
<1> QED BY <1>2, <1>3, <1>4, <1>5, <1>6, <1>7 DEF Step

LEMMA ControlStep == ControlInv /\ [Next]_vars => ControlInv'
<1> SUFFICES ASSUME ControlInv, [Next]_vars PROVE ControlInv'
  OBVIOUS
<1>1. ASSUME NEW k \in Calls, Step(k) PROVE ControlInv'
  BY <1>1, TypeStep, LockStep, CacheStep, ChainStep DEF ControlInv
<1>2. CASE UNCHANGED vars
  BY <1>2 DEF vars, ControlInv, TypeOK, LockInv, CacheInv, ChainInv
<1> QED BY <1>1, <1>2, ControlTick DEF Next

LEMMA ControlAlways == Spec => []ControlInv
BY ControlInit, ControlStep, PTL DEF Spec

\* Every variable keeps its type; in particular no two calls hold the lock of the
\* cache unless all of them read, and no bucket holds more than Burst.
THEOREM TypeCorrect == Spec => []TypeOK
<1>1. ControlInv => TypeOK
  BY DEF ControlInv
<1> QED BY ControlAlways, <1>1, PTL

\* Through the gateway the client of a unary call reads 200 exactly if its handler
\* returned without an error.
THEOREM AnswersAreHonest == Spec => []UnaryAnswersAreHonest
<1>1. ControlInv => UnaryAnswersAreHonest
  BY GuardsAssumption DEF ControlInv, TypeOK, ChainInv, UnaryAnswersAreHonest, AfterPanic,
     grpcCodeToHTTPStatus
<1> QED BY ControlAlways, <1>1, PTL

-------------------------------------------------------------------------------
(* The buckets *)

\* The calls of a method that the limiter let through.
Passed(m) == {j \in Calls : MethodOf[j] = m /\ (pc[j] = "handler" \/ ran[j] # "no")}

\* A limiter has given out at least what is missing from a full bucket, and at most
\* a full bucket and the refills so far.  The limits are not inductive without it:
\* they do not say what is left in the bucket.
BucketInv ==
  \A m \in Methods : cache[m] # NoLimiter =>
    /\ tokens[cache[m]] + Cardinality(Passed(m)) >= Burst
    /\ tokens[cache[m]] + Cardinality(Passed(m)) <= Burst + ticks * LimitOf(m)

LEMMA PassedFinite ==
  ASSUME NEW m
  PROVE  IsFiniteSet(Passed(m)) /\ Cardinality(Passed(m)) \in Nat
<1>1. IsFiniteSet(Calls) /\ Passed(m) \subseteq Calls
  BY GuardsAssumption DEF Passed
<1> QED BY <1>1, FS_Subset, FS_CardinalityType

LEMMA NoneBeforeLimiter ==
  ASSUME ControlInv, NEW m \in Methods, cache[m] = NoLimiter
  PROVE  Passed(m) = {} /\ Cardinality(Passed(m)) = 0
BY FS_EmptySet DEF ControlInv, ChainInv, Passed

LEMMA CachedType ==
  ASSUME ControlInv, NEW m \in Methods, cache[m] # NoLimiter
  PROVE  cache[m] \in Calls /\ MethodOf[cache[m]] = m
BY DEF ControlInv, TypeOK, CacheInv, Limiters

LEMMA OneMoreTick ==
  ASSUME NEW t \in Nat, NEW l \in Nat
  PROVE  (t + 1) * l = t * l + l /\ t * l \in Nat
OBVIOUS

LEMMA PassedUnchanged ==
  ASSUME NEW m, \A j \in Calls : (pc'[j] = "handler" \/ ran'[j] # "no")
                                   <=> (pc[j] = "handler" \/ ran[j] # "no")
  PROVE  Passed(m)' = Passed(m)
BY DEF Passed

LEMMA BucketTick == ControlInv /\ BucketInv /\ Tick => BucketInv'
<1> SUFFICES ASSUME ControlInv, BucketInv, Tick PROVE BucketInv'
  OBVIOUS
<1>0. \A m \in Methods : Passed(m)' = Passed(m)
  BY PassedUnchanged DEF Tick
<1> SUFFICES ASSUME NEW m \in Methods, cache[m] # NoLimiter
             PROVE  /\ tokens'[cache[m]] + Cardinality(Passed(m)) >= Burst
                    /\ tokens'[cache[m]] + Cardinality(Passed(m)) <= Burst + ticks' * LimitOf(m)
  BY <1>0 DEF Tick, BucketInv, LimitOf
<1> DEFINE l == cache[m]
           n == Cardinality(Passed(m))
<1>1. l \in Calls /\ MethodOf[l] = m
  BY CachedType
<1>2. tokens'[l] = Refill(l, m)
  BY <1>1 DEF Tick
<1>3. /\ Refill(l, m) \in 0..Burst
      /\ Refill(l, m) <= tokens[l] + LimitOf(m)
      /\ Refill(l, m) = Burst \/ Refill(l, m) >= tokens[l]
  BY <1>1, RefillType DEF ControlInv
<1>4. n \in Nat /\ tokens[l] \in Nat /\ Burst \in Nat /\ ticks \in Nat /\ LimitOf(m) \in Nat
  BY <1>1, PassedFinite, LimitType, GuardsAssumption DEF ControlInv, TypeOK
<1>5. tokens[l] + n >= Burst /\ tokens[l] + n <= Burst + ticks * LimitOf(m)
  BY DEF BucketInv
<1>6. ticks' * LimitOf(m) = ticks * LimitOf(m) + LimitOf(m) /\ ticks * LimitOf(m) \in Nat
  BY <1>4, OneMoreTick DEF Tick
<1> HIDE DEF l, n
<1>7. tokens'[l] + n >= Burst /\ tokens'[l] + n <= Burst + ticks' * LimitOf(m)
  BY <1>2, <1>3, <1>4, <1>5, <1>6
<1> QED BY <1>7 DEF l, n

LEMMA BucketCreate ==
  ASSUME ControlInv, BucketInv, NEW k \in Calls, Create(k)
  PROVE  BucketInv'
<1>1. \A m \in Methods : Passed(m)' = Passed(m)
  BY PassedUnchanged DEF Create, Goto, ControlInv, TypeOK
<1>2. CASE cache[MethodOf[k]] # NoLimiter
  BY <1>1, <1>2 DEF Create, BucketInv, LimitOf
<1>3. CASE cache[MethodOf[k]] = NoLimiter
  <2>1. /\ cache' = [cache EXCEPT ![MethodOf[k]] = k]
        /\ tokens' = [tokens EXCEPT ![k] = Burst]
        /\ ticks' = ticks
    BY <1>3 DEF Create
  <2> SUFFICES ASSUME NEW m \in Methods, cache'[m] # NoLimiter
               PROVE  /\ tokens'[cache'[m]] + Cardinality(Passed(m)) >= Burst
                      /\ tokens'[cache'[m]] + Cardinality(Passed(m)) <= Burst + ticks * LimitOf(m)
    BY <1>1, <2>1 DEF BucketInv, LimitOf
  <2>2. CASE m = MethodOf[k]
    <3>1. cache'[m] = k /\ tokens'[k] = Burst /\ Cardinality(Passed(m)) = 0
      BY <1>3, <2>1, <2>2, NoneBeforeLimiter DEF ControlInv, TypeOK
    <3>2. ticks * LimitOf(m) \in Nat /\ Burst \in Nat
      BY OneMoreTick, LimitType, GuardsAssumption DEF ControlInv, TypeOK
    <3> QED BY <3>1, <3>2
  <2>3. CASE m # MethodOf[k]
    <3>1. cache'[m] = cache[m]
      BY <2>1, <2>3 DEF ControlInv, TypeOK
    <3>2. cache[m] # k
      BY <2>3, <3>1, CachedType
    <3> QED BY <2>1, <3>1, <3>2, CachedType DEF BucketInv, ControlInv, TypeOK
  <2> QED BY <2>2, <2>3
<1> QED BY <1>2, <1>3

LEMMA BucketAllow ==
  ASSUME ControlInv, BucketInv, NEW k \in Calls, Allow(k)
  PROVE  BucketInv'
<1> DEFINE l == got[k]
<1>1. /\ pc[k] = "allow" /\ pc' = [pc EXCEPT ![k] = "handler"]
      /\ tokens[l] > 0 /\ tokens' = [tokens EXCEPT ![l] = @ - 1]
      /\ UNCHANGED <<cache, ran, ticks>>
  BY DEF Allow, Goto
<1>2. l = cache[MethodOf[k]] /\ l # NoLimiter /\ ran[k] = "no"
  BY <1>1 DEF ControlInv, CacheInv, ChainInv
<1>3. l \in Calls /\ MethodOf[l] = MethodOf[k]
  BY <1>2, MethodType, CachedType
<1> SUFFICES ASSUME NEW m \in Methods, cache[m] # NoLimiter
             PROVE  /\ tokens'[cache[m]] + Cardinality(Passed(m)') >= Burst
                    /\ tokens'[cache[m]] + Cardinality(Passed(m)') <= Burst + ticks * LimitOf(m)
  BY <1>1 DEF BucketInv, LimitOf
<1>4. CASE m = MethodOf[k]
  <2>1. Passed(m)' = Passed(m) \union {k} /\ k \notin Passed(m)
    BY <1>1, <1>2, <1>4 DEF Passed, ControlInv, TypeOK
  <2>2. Cardinality(Passed(m)') = Cardinality(Passed(m)) + 1
    BY <2>1, PassedFinite, FS_AddElement
  <2>3. tokens'[l] = tokens[l] - 1 /\ tokens[l] \in Nat /\ Cardinality(Passed(m)) \in Nat
    BY <1>1, <1>3, PassedFinite DEF ControlInv, TypeOK
  <2>4. /\ tokens[l] + Cardinality(Passed(m)) >= Burst
        /\ tokens[l] + Cardinality(Passed(m)) <= Burst + ticks * LimitOf(m)
    BY <1>2, <1>4 DEF BucketInv
  <2>5. /\ tokens'[l] + Cardinality(Passed(m)') = tokens[l] + Cardinality(Passed(m))
    BY <2>2, <2>3
  <2> QED BY <1>2, <1>4, <2>4, <2>5
<1>5. CASE m # MethodOf[k]
  <2>1. Passed(m)' = Passed(m)
    BY <1>1, <1>5 DEF Passed, ControlInv, TypeOK
  <2>2. cache[m] # l
    BY <1>3, <1>5, CachedType
  <2>3. tokens'[cache[m]] = tokens[cache[m]]
    BY <1>1, <2>2, CachedType DEF ControlInv, TypeOK
  <2> QED BY <2>1, <2>3 DEF BucketInv
<1> QED BY <1>4, <1>5

LEMMA BucketStep == ControlInv /\ BucketInv /\ [Next]_vars => BucketInv'
<1> SUFFICES ASSUME ControlInv, BucketInv, [Next]_vars PROVE BucketInv'
  OBVIOUS
<1>1. ASSUME UNCHANGED <<cache, tokens, ticks>>,
             \A j \in Calls : (pc'[j] = "handler" \/ ran'[j] # "no")
                                <=> (pc[j] = "handler" \/ ran[j] # "no")
      PROVE  BucketInv'
  <2>1. \A m \in Methods : Passed(m)' = Passed(m)
    BY <1>1, PassedUnchanged
  <2> QED BY <1>1, <2>1 DEF BucketInv, LimitOf
<1>2. ASSUME NEW k \in Calls, Step(k) PROVE BucketInv'
  <2> USE DEF ControlInv, TypeOK, Goto
  <2>1. CASE Admit(k) \/ Refuse(k)
    BY <1>1, <2>1 DEF Admit, Refuse
  <2>2. CASE RLock(k) \/ Hit(k) \/ Miss(k) \/ Lock(k)
    BY <1>1, <2>2 DEF RLock, Hit, Miss, Lock
  <2>3. CASE Exceed(k) \/ Handle(k)
    BY <1>1, <2>3 DEF Exceed, Handle
  <2> QED BY <1>2, <2>1, <2>2, <2>3, BucketCreate, BucketAllow DEF Step
<1>3. CASE UNCHANGED vars
  BY <1>1, <1>3 DEF vars
<1> QED BY <1>2, <1>3, BucketTick DEF Next

LEMMA BucketAlways == Spec => []BucketInv
<1>1. Init => BucketInv
  BY DEF Init, BucketInv
<1> QED BY <1>1, ControlAlways, BucketStep, PTL DEF Spec

LEMMA BucketIsLimit == ControlInv /\ BucketInv => LimitHolds
<1> SUFFICES ASSUME ControlInv, BucketInv, NEW m \in Methods
             PROVE  Cardinality(Passed(m)) <= Burst + ticks * LimitOf(m)
  BY DEF LimitHolds, Passed
<1>1. /\ Cardinality(Passed(m)) \in Nat
      /\ ticks * LimitOf(m) \in Nat /\ Burst \in Nat
  BY PassedFinite, LimitType, OneMoreTick, GuardsAssumption DEF ControlInv, TypeOK
<1>2. CASE cache[m] = NoLimiter
  BY <1>1, <1>2, NoneBeforeLimiter
<1>3. CASE cache[m] # NoLimiter
  <2>1. tokens[cache[m]] \in Nat
    BY <1>3, CachedType DEF ControlInv, TypeOK
  <2> QED BY <1>1, <1>3, <2>1 DEF BucketInv
<1> QED BY <1>2, <1>3

\* However the first calls of a method race for its limiter, no more of its calls
\* pass than one full bucket and its refills.
THEOREM LimitIsKept == Spec => []LimitHolds
BY ControlAlways, BucketAlways, BucketIsLimit, PTL

\* Who is turned away is turned away at the limit, and stays so.
RejectInv ==
  \A k \in Calls : code[k] = "ResourceExhausted" => Cardinality(Passed(MethodOf[k])) >= Burst

LEMMA PassedGrows ==
  ASSUME ControlInv, [Next]_vars, NEW m
  PROVE  Passed(m) \subseteq Passed(m)'
BY DEF ControlInv, TypeOK, Passed, Next, vars, Tick, Step, Goto, Admit, Refuse, RLock, Hit, Miss,
   Lock, Create, Allow, Exceed, Handle

LEMMA RejectStep == ControlInv /\ BucketInv /\ RejectInv /\ [Next]_vars => RejectInv'
<1> SUFFICES ASSUME ControlInv, BucketInv, RejectInv, [Next]_vars,
                    NEW k \in Calls, code'[k] = "ResourceExhausted"
             PROVE  Cardinality(Passed(MethodOf[k])') >= Burst
  BY DEF RejectInv
<1> DEFINE m == MethodOf[k]
<1>1. Cardinality(Passed(m)) >= Burst
  <2>1. CASE code[k] = "ResourceExhausted"
    BY <2>1 DEF RejectInv
  <2>2. CASE code[k] # "ResourceExhausted"
    <3>1. Exceed(k)
      BY <2>2 DEF ControlInv, TypeOK, Next, vars, Tick, Step, Goto, Admit, Refuse, RLock, Hit,
         Miss, Lock, Create, Allow, Exceed, Handle, AfterPanic
    <3>2. tokens[cache[m]] = 0 /\ cache[m] # NoLimiter
      BY <3>1 DEF Exceed, Goto, ControlInv, CacheInv
    <3> QED BY <3>2, MethodType, PassedFinite DEF BucketInv
  <2> QED BY <2>1, <2>2
<1>2. IsFiniteSet(Passed(m)') /\ Passed(m) \subseteq Passed(m)'
  <2>1. IsFiniteSet(Calls) /\ Passed(m)' \subseteq Calls
    BY GuardsAssumption DEF Passed
  <2> QED BY <2>1, PassedGrows, FS_Subset
<1>3. Cardinality(Passed(m)) <= Cardinality(Passed(m)')
  BY <1>2, FS_Subset
<1>4. Cardinality(Passed(m)') \in Nat /\ Cardinality(Passed(m)) \in Nat /\ Burst \in Nat
  BY <1>2, PassedFinite, FS_CardinalityType, GuardsAssumption
<1> QED BY <1>1, <1>3, <1>4

\* A call is turned away for the limit only when a full bucket of accepted calls of
\* its method got through.
THEOREM RejectionsAreDue == Spec => []RejectedOnlyAtLimit
<1>1. Init => RejectInv
  BY DEF Init, RejectInv
<1>2. ControlInv /\ RejectInv => RejectedOnlyAtLimit
  <2> SUFFICES ASSUME ControlInv, RejectInv, NEW k \in Calls, code[k] = "ResourceExhausted"
               PROVE  Cardinality(AheadOf(k)) >= Burst
    BY DEF RejectedOnlyAtLimit
  <2>1. AheadOf(k) = Passed(MethodOf[k])
    BY DEF AheadOf, Passed, ControlInv, ChainInv
  <2> QED BY <2>1 DEF RejectInv
<1> QED BY <1>1, <1>2, ControlAlways, BucketAlways, RejectStep, PTL DEF Spec

-------------------------------------------------------------------------------
(* The chain decides as one bucket per method does *)

Decided == [k \in Calls |-> VerdictOn(k)]
BucketsNow == [m \in Methods |-> BucketOf(m)]

\* A call that asks for a token asks the bucket of its method.
LEMMA AsksItsBucket ==
  ASSUME ControlInv, NEW k \in Calls, pc[k] = "allow"
  PROVE  /\ got[k] = cache[MethodOf[k]] /\ got[k] \in Calls
         /\ BucketOf(MethodOf[k]) = tokens[got[k]]
         /\ \A m \in Methods : cache[m] = got[k] => m = MethodOf[k]
         /\ Accepted(k) /\ VerdictOn(k) = "pending"
<1>1. got[k] = cache[MethodOf[k]] /\ cache[MethodOf[k]] # NoLimiter
  BY DEF ControlInv, CacheInv
<1>2. got[k] \in Calls /\ BucketOf(MethodOf[k]) = tokens[got[k]]
  BY <1>1, MethodType, CachedType DEF BucketOf
<1>3. \A m \in Methods : cache[m] = got[k] => m = MethodOf[k]
  BY <1>1, MethodType DEF ControlInv, CacheInv
<1>4. Accepted(k) /\ code[k] = "none" /\ ran[k] = "no"
  BY DEF ControlInv, ChainInv
<1> QED BY <1>1, <1>2, <1>3, <1>4 DEF VerdictOn

\* A step of one call leaves the verdicts on the others as they are.
LEMMA OneVerdict ==
  ASSUME NEW k \in Calls, NEW v, VerdictOn(k)' = v,
         \A j \in Calls : j # k => VerdictOn(j)' = VerdictOn(j)
  PROVE  Decided' = [Decided EXCEPT ![k] = v]
BY DEF Decided

LEMMA OthersKeep ==
  ASSUME ControlInv, NEW k \in Calls, Step(k), NEW j \in Calls, j # k
  PROVE  VerdictOn(j)' = VerdictOn(j)
<1>1. pc'[j] = pc[j] /\ code'[j] = code[j] /\ ran'[j] = ran[j]
  BY DEF ControlInv, TypeOK, Step, Goto, Admit, Refuse, RLock, Hit, Miss, Lock, Create, Allow,
     Exceed, Handle
<1> QED BY <1>1 DEF VerdictOn

LEMMA SameBuckets ==
  ASSUME UNCHANGED <<cache, tokens>>
  PROVE  BucketsNow' = BucketsNow
BY DEF BucketsNow, BucketOf

\* The refusal of authentication.
LEMMA RefuseRefuses ==
  ASSUME ControlInv, NEW k \in Calls, Refuse(k)
  PROVE  Buckets!Refuse(k)
<1>1. VerdictOn(k) = "pending" /\ VerdictOn(k)' = "refused"
  BY DEF Refuse, Goto, VerdictOn, ControlInv, TypeOK, ChainInv
<1>2. Decided' = [Decided EXCEPT ![k] = "refused"]
  BY <1>1, OneVerdict, OthersKeep DEF Step
<1>3. BucketsNow' = BucketsNow /\ ~Accepted(k) /\ ticks' = ticks
  BY SameBuckets DEF Refuse
<1> QED BY <1>1, <1>2, <1>3 DEF Buckets!Refuse, Buckets!Decide, Decided, BucketsNow

\* A call that is allowed takes a token from the bucket of its method ...
LEMMA AllowPasses ==
  ASSUME ControlInv, NEW k \in Calls, Allow(k)
  PROVE  Buckets!Pass(k)
<1>1. /\ pc[k] = "allow" /\ pc' = [pc EXCEPT ![k] = "handler"]
      /\ tokens[got[k]] > 0 /\ tokens' = [tokens EXCEPT ![got[k]] = @ - 1]
      /\ UNCHANGED <<cache, code, ran, ticks>>
  BY DEF Allow, Goto
<1>2. /\ got[k] = cache[MethodOf[k]] /\ got[k] \in Calls
      /\ BucketOf(MethodOf[k]) = tokens[got[k]]
      /\ \A m \in Methods : cache[m] = got[k] => m = MethodOf[k]
      /\ Accepted(k) /\ VerdictOn(k) = "pending"
  BY <1>1, AsksItsBucket
<1>3. code[k] = "none"
  BY <1>1 DEF ControlInv, ChainInv
<1>4. VerdictOn(k)' = "passed"
  BY <1>1, <1>3 DEF VerdictOn, ControlInv, TypeOK
<1>5. Decided' = [Decided EXCEPT ![k] = "passed"]
  BY <1>4, OneVerdict, OthersKeep DEF Step
<1>6. \A m \in Methods :
        BucketOf(m)' = IF m = MethodOf[k] THEN BucketOf(m) - 1 ELSE BucketOf(m)
  <2> SUFFICES ASSUME NEW m \in Methods
               PROVE  BucketOf(m)' = IF m = MethodOf[k] THEN BucketOf(m) - 1 ELSE BucketOf(m)
    OBVIOUS
  <2>1. CASE m = MethodOf[k]
    BY <1>1, <1>2, <2>1, GuardsAssumption DEF BucketOf, ControlInv, TypeOK
  <2>2. CASE m # MethodOf[k]
    <3>1. cache[m] # got[k]
      BY <1>2, <2>2
    <3>2. cache[m] # NoLimiter => cache[m] \in Calls
      BY CachedType
    <3> QED BY <1>1, <2>2, <3>1, <3>2 DEF BucketOf, ControlInv, TypeOK
  <2> QED BY <2>1, <2>2
<1>7. BucketsNow' = [BucketsNow EXCEPT ![MethodOf[k]] = @ - 1]
  BY <1>6, MethodType DEF BucketsNow
<1>8. BucketsNow[MethodOf[k]] > 0 /\ Decided[k] = "pending"
  BY <1>1, <1>2, MethodType DEF BucketsNow, Decided
<1> QED BY <1>1, <1>2, <1>5, <1>7, <1>8 DEF Buckets!Pass, Buckets!Decide, Decided, BucketsNow

\* ... and one that is turned away found it empty.
LEMMA ExceedRejects ==
  ASSUME ControlInv, NEW k \in Calls, Exceed(k)
  PROVE  Buckets!Reject(k)
<1>1. pc[k] = "allow" /\ tokens[got[k]] = 0 /\ UNCHANGED <<cache, tokens, ticks>>
  BY DEF Exceed, Goto
<1>2. BucketOf(MethodOf[k]) = 0 /\ Accepted(k) /\ VerdictOn(k) = "pending"
  BY <1>1, AsksItsBucket
<1>3. VerdictOn(k)' = "rejected"
  <2>1. pc'[k] = "done" /\ code'[k] = "ResourceExhausted" /\ ran'[k] = "no"
    BY <1>1 DEF Exceed, Goto, ControlInv, TypeOK, ChainInv
  <2> QED BY <2>1 DEF VerdictOn
<1>4. Decided' = [Decided EXCEPT ![k] = "rejected"]
  BY <1>3, OneVerdict, OthersKeep DEF Step
<1>5. BucketsNow' = BucketsNow /\ BucketsNow[MethodOf[k]] = 0
  BY <1>1, <1>2, SameBuckets, MethodType DEF BucketsNow
<1> QED BY <1>1, <1>2, <1>4, <1>5 DEF Buckets!Reject, Buckets!Decide, Decided, BucketsNow

\* A bucket that has no limiter yet is full, before and after a tick.
LEMMA TickRefills ==
  ASSUME ControlInv, Tick
  PROVE  Buckets!Tick
<1>1. \A m \in Methods : BucketOf(m)' = Buckets!Refilled(m)
  <2> SUFFICES ASSUME NEW m \in Methods PROVE BucketOf(m)' = Buckets!Refilled(m)
    OBVIOUS
  <2>1. CASE cache[m] = NoLimiter
    BY <2>1, LimitType, GuardsAssumption DEF Tick, BucketOf, Buckets!Refilled
  <2>2. CASE cache[m] # NoLimiter
    <3>1. cache[m] \in Calls /\ MethodOf[cache[m]] = m
      BY <2>2, CachedType
    <3>2. tokens'[cache[m]] = Refill(cache[m], m)
      BY <3>1 DEF Tick
    <3> QED BY <2>2, <3>2 DEF Tick, BucketOf, Refill, Buckets!Refilled
  <2> QED BY <2>1, <2>2
<1>2. \A k \in Calls : VerdictOn(k)' = VerdictOn(k)
  BY DEF Tick, VerdictOn
<1> QED BY <1>1, <1>2 DEF Tick, Buckets!Tick

\* The first call of a method makes its limiter with a full bucket, and nobody can
\* tell that it was not there before.
LEMMA CreateIsInvisible ==
  ASSUME ControlInv, NEW k \in Calls, Create(k)
  PROVE  BucketsNow' = BucketsNow
<1> SUFFICES ASSUME NEW m \in Methods PROVE BucketOf(m)' = BucketOf(m)
  BY DEF BucketsNow
<1>1. CASE cache[MethodOf[k]] # NoLimiter
  BY <1>1 DEF Create, BucketOf
<1>2. CASE cache[MethodOf[k]] = NoLimiter
  <2>1. /\ cache' = [cache EXCEPT ![MethodOf[k]] = k]
        /\ tokens' = [tokens EXCEPT ![k] = Burst]
    BY <1>2 DEF Create
  <2>2. CASE m = MethodOf[k]
    BY <1>2, <2>1, <2>2, GuardsAssumption DEF BucketOf, ControlInv, TypeOK
  <2>3. CASE m # MethodOf[k]
    <3>1. cache'[m] = cache[m]
      BY <2>1, <2>3 DEF ControlInv, TypeOK
    <3>2. cache[m] # NoLimiter => cache[m] \in Calls /\ cache[m] # k
      BY <2>3, CachedType
    <3> QED BY <2>1, <3>1, <3>2 DEF BucketOf, ControlInv, TypeOK
  <2> QED BY <2>2, <2>3
<1> QED BY <1>1, <1>2

\* The search for the limiter, under the lock or not, and the handler decide
\* nothing.
LEMMA OthersStutter ==
  ASSUME ControlInv, NEW k \in Calls,
         Admit(k) \/ RLock(k) \/ Hit(k) \/ Miss(k) \/ Lock(k) \/ Create(k) \/ Handle(k)
  PROVE  UNCHANGED Buckets!vars
<1>1. VerdictOn(k)' = VerdictOn(k)
  <2> USE DEF ControlInv, TypeOK, ChainInv, Goto, VerdictOn
  <2>1. CASE Admit(k) \/ RLock(k) \/ Hit(k) \/ Miss(k) \/ Lock(k) \/ Create(k)
    BY <2>1 DEF Admit, RLock, Hit, Miss, Lock, Create
  <2>2. CASE Handle(k)
    BY <2>2 DEF Handle, AfterPanic
  <2> QED BY <2>1, <2>2
<1>2. Decided' = Decided
  BY <1>1, OthersKeep DEF Decided, Step
<1>3. BucketsNow' = BucketsNow
  BY SameBuckets, CreateIsInvisible DEF Admit, RLock, Hit, Miss, Lock, Handle
<1>4. ticks' = ticks
  BY DEF Admit, RLock, Hit, Miss, Lock, Create, Handle
<1> QED BY <1>2, <1>3, <1>4 DEF Buckets!vars, Decided, BucketsNow

\* However the calls race for a limiter that is not there yet, the chain decides as
\* if every method had had one full bucket from the beginning, each call in one step.
THEOREM ChainImplementsBuckets == Spec => ImplementsBuckets
<1>1. Init => Buckets!Init
  BY DEF Init, Buckets!Init, BucketOf, VerdictOn
<1>2. ControlInv /\ [Next]_vars => [Buckets!Next]_Buckets!vars
  <2> SUFFICES ASSUME ControlInv, [Next]_vars PROVE Buckets!Next \/ UNCHANGED Buckets!vars
    OBVIOUS
  <2>1. CASE Tick
    BY <2>1, TickRefills DEF Buckets!Next
  <2>2. ASSUME NEW k \in Calls, Step(k) PROVE Buckets!Next \/ UNCHANGED Buckets!vars
    BY <2>2, RefuseRefuses, AllowPasses, ExceedRejects, OthersStutter DEF Step, Buckets!Next
  <2>3. CASE UNCHANGED vars
    BY <2>3 DEF vars, Buckets!vars, BucketOf, VerdictOn
  <2> QED BY <2>1, <2>2, <2>3 DEF Next
<1> QED BY <1>1, <1>2, ControlAlways, PTL DEF Spec, ImplementsBuckets, Buckets!Spec
================================================================================
