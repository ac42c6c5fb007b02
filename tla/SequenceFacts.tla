----------------------------- MODULE SequenceFacts -----------------------------
(***************************************************************************)
(* Facts about sequences, and about the number of times a value occurs in  *)
(* one, that the proofs of the components share.                           *)
(***************************************************************************)
EXTENDS Integers, Sequences, FiniteSets, FiniteSetTheorems, TLAPS

LEMMA EmptyFacts ==
  ASSUME NEW S
  PROVE  <<>> \in Seq(S) /\ Len(<<>>) = 0 /\ DOMAIN <<>> = {}
OBVIOUS

LEMMA SeqFacts ==
  ASSUME NEW S, NEW q \in Seq(S)
  PROVE  /\ DOMAIN q = 1..Len(q) /\ Len(q) \in Nat
         /\ q # <<>> <=> Len(q) > 0
         /\ \A i \in DOMAIN q : q[i] \in S
OBVIOUS

LEMMA SeqMono ==
  ASSUME NEW S, NEW T, S \subseteq T, NEW q \in Seq(S)
  PROVE  q \in Seq(T)
OBVIOUS

LEMMA AppendFacts ==
  ASSUME NEW S, NEW q \in Seq(S), NEW x \in S
  PROVE  /\ Append(q, x) \in Seq(S)
         /\ Len(q) \in Nat /\ DOMAIN q = 1..Len(q)
         /\ Len(Append(q, x)) = Len(q) + 1
         /\ DOMAIN Append(q, x) = 1..Len(q) + 1
         /\ \A i \in 1..Len(q) : Append(q, x)[i] = q[i]
         /\ Append(q, x)[Len(q) + 1] = x
OBVIOUS

LEMMA TailFacts ==
  ASSUME NEW S, NEW q \in Seq(S), q # <<>>
  PROVE  /\ Tail(q) \in Seq(S)
         /\ Head(q) \in S /\ Head(q) = q[1]
         /\ Len(q) \in Nat /\ Len(q) > 0
         /\ DOMAIN q = 1..Len(q) /\ DOMAIN Tail(q) = 1..Len(q) - 1
         /\ Len(Tail(q)) = Len(q) - 1
         /\ \A i \in 1..Len(q) - 1 : Tail(q)[i] = q[i + 1]
OBVIOUS

LEMMA ConcatFacts ==
  ASSUME NEW S, NEW p \in Seq(S), NEW q \in Seq(S)
  PROVE  /\ p \o q \in Seq(S)
         /\ Len(p) \in Nat /\ DOMAIN p = 1..Len(p)
         /\ Len(q) \in Nat /\ DOMAIN q = 1..Len(q)
         /\ DOMAIN (p \o q) = 1..Len(p) + Len(q)
         /\ \A i \in 1..Len(p) : (p \o q)[i] = p[i]
         /\ \A i \in 1..Len(q) : (p \o q)[Len(p) + i] = q[i]
OBVIOUS

-------------------------------------------------------------------------------
(* Positions in a sequence *)

LEMMA PositionsFinite ==
  ASSUME NEW S, NEW q \in Seq(S), NEW P \in SUBSET DOMAIN q
  PROVE  IsFiniteSet(P) /\ Cardinality(P) \in Nat
<1>1. DOMAIN q = 1..Len(q) /\ Len(q) \in Nat
  OBVIOUS
<1>2. IsFiniteSet(1..Len(q))
  BY <1>1, FS_Interval
<1>3. IsFiniteSet(P)
  BY <1>1, <1>2, FS_Subset
<1> QED BY <1>3, FS_CardinalityType

\* Positions of a concatenation: those in the first part, and those in the second
\* shifted behind it.
LEMMA PositionsConcat ==
  ASSUME NEW S, NEW p \in Seq(S), NEW q \in Seq(S),
         NEW P \in SUBSET DOMAIN p, NEW Q \in SUBSET DOMAIN q,
         NEW T, T = P \union {Len(p) + i : i \in Q}
  PROVE  Cardinality(T) = Cardinality(P) + Cardinality(Q)
<1> DEFINE Z == {Len(p) + i : i \in Q}
           f == [i \in Q |-> Len(p) + i]
<1>1. /\ DOMAIN p = 1..Len(p) /\ Len(p) \in Nat
      /\ DOMAIN q = 1..Len(q) /\ Len(q) \in Nat
  BY SeqFacts
<1>2. IsFiniteSet(P) /\ IsFiniteSet(Q) /\ Cardinality(P) \in Nat /\ Cardinality(Q) \in Nat
  BY PositionsFinite
<1>3. f \in Bijection(Q, Z)
  <2>1. f \in [Q -> Z] /\ \A z \in Z : \E i \in Q : f[i] = z
    OBVIOUS
  <2>2. \A i, j \in Q : f[i] = f[j] => i = j
    BY <1>1
  <2> HIDE DEF f, Z
  <2> QED BY <2>1, <2>2 DEF Bijection, Injection, Surjection, IsInjective
<1>4. IsFiniteSet(Z) /\ Cardinality(Z) = Cardinality(Q)
  <2> HIDE DEF f, Z
  <2>1. ExistsBijection(Q, Z)
    BY <1>3 DEF ExistsBijection
  <2> QED BY <1>2, <2>1, FS_Bijection
<1>5. P \intersect Z = {}
  BY <1>1
<1>6. T = P \union Z
  OBVIOUS
<1> HIDE DEF f, Z
<1>7. Cardinality(P \union Z) = Cardinality(P) + Cardinality(Z) - Cardinality(P \intersect Z)
  BY <1>2, <1>4, FS_Union
<1>8. Cardinality(P \intersect Z) = 0
  BY <1>5, FS_EmptySet
<1>9. Cardinality(T) = Cardinality(P \union Z)
  BY <1>6, Zenon
<1> QED BY <1>2, <1>4, <1>7, <1>8, <1>9

-------------------------------------------------------------------------------
(* How often a value occurs *)

Occurs(q, x) == Cardinality({i \in DOMAIN q : q[i] = x})

LEMMA OccursType ==
  ASSUME NEW S, NEW q \in Seq(S), NEW x
  PROVE  Occurs(q, x) \in Nat
<1>1. {i \in DOMAIN q : q[i] = x} \in SUBSET DOMAIN q
  OBVIOUS
<1> QED BY <1>1, PositionsFinite DEF Occurs

LEMMA OccursNone == \A x : Occurs(<<>>, x) = 0
<1>1. \A x : {i \in DOMAIN <<>> : <<>>[i] = x} = {}
  OBVIOUS
<1> QED BY <1>1, FS_EmptySet DEF Occurs

LEMMA OccursAppend ==
  ASSUME NEW S, NEW q \in Seq(S), NEW y \in S, NEW x
  PROVE  Occurs(Append(q, y), x) = IF y = x THEN Occurs(q, x) + 1 ELSE Occurs(q, x)
<1> DEFINE P == {i \in DOMAIN q : q[i] = x}
           Q == {i \in DOMAIN Append(q, y) : Append(q, y)[i] = x}
           n == Len(q) + 1
<1>1. /\ DOMAIN Append(q, y) = DOMAIN q \union {n} /\ n \notin DOMAIN q
      /\ \A i \in DOMAIN q : Append(q, y)[i] = q[i]
      /\ Append(q, y)[n] = y
  BY AppendFacts
<1>2. IsFiniteSet(P)
  BY PositionsFinite
<1>3. CASE y = x
  <2>1. Q = P \union {n} /\ n \notin P
    BY <1>1, <1>3
  <2> HIDE DEF P, Q, n
  <2>2. Cardinality(Q) = Cardinality(P) + 1
    BY <1>2, <2>1, FS_AddElement
  <2> QED BY <1>3, <2>2 DEF Occurs, P, Q
<1>4. CASE y # x
  <2>1. Q = P
    BY <1>1, <1>4
  <2> QED BY <1>4, <2>1 DEF Occurs
<1> QED BY <1>3, <1>4

LEMMA OccursTail ==
  ASSUME NEW S, NEW q \in Seq(S), q # <<>>, NEW x
  PROVE  Occurs(Tail(q), x) = IF Head(q) = x THEN Occurs(q, x) - 1 ELSE Occurs(q, x)
<1> DEFINE P == {i \in DOMAIN q : q[i] = x}
           Q == {i \in DOMAIN Tail(q) : Tail(q)[i] = x}
           f == [i \in Q |-> i + 1]
<1>1. /\ DOMAIN q = 1..Len(q) /\ Len(q) \in Nat /\ Len(q) > 0
      /\ DOMAIN Tail(q) = 1..Len(q) - 1
      /\ \A i \in 1..Len(q) - 1 : Tail(q)[i] = q[i + 1]
      /\ Head(q) = q[1]
  BY TailFacts
<1>2. IsFiniteSet(P) /\ IsFiniteSet(Q)
  BY PositionsFinite, TailFacts
<1>3. f \in Bijection(Q, P \ {1})
  <2>1. Q \subseteq Nat
    BY <1>1
  <2>2. \A i \in Q : i + 1 \in P \ {1}
    BY <1>1
  <2>3. \A k \in P \ {1} : k - 1 \in Q /\ (k - 1) + 1 = k
    BY <1>1
  <2> HIDE DEF P, Q
  <2>4. f \in [Q -> P \ {1}] /\ \A i, j \in Q : f[i] = f[j] => i = j
    BY <2>1, <2>2
  <2>5. \A k \in P \ {1} : \E i \in Q : f[i] = k
    BY <2>3
  <2> HIDE DEF f
  <2> QED BY <2>4, <2>5 DEF Bijection, Injection, Surjection, IsInjective
<1>4. Cardinality(P \ {1}) = Cardinality(Q)
  <2> HIDE DEF P, Q, f
  <2>1. ExistsBijection(Q, P \ {1})
    BY <1>3 DEF ExistsBijection
  <2> QED BY <1>2, <2>1, FS_Bijection
<1>5. Cardinality(P \ {1}) = IF 1 \in P THEN Cardinality(P) - 1 ELSE Cardinality(P)
  <2> HIDE DEF P
  <2> QED BY <1>2, FS_RemoveElement
<1>6. 1 \in P <=> Head(q) = x
  BY <1>1
<1> QED BY <1>4, <1>5, <1>6 DEF Occurs

LEMMA OccursConcat ==
  ASSUME NEW S, NEW p \in Seq(S), NEW q \in Seq(S), NEW x
  PROVE  Occurs(p \o q, x) = Occurs(p, x) + Occurs(q, x)
<1> DEFINE P == {i \in DOMAIN p : p[i] = x}
           Q == {i \in DOMAIN q : q[i] = x}
           T == {i \in DOMAIN (p \o q) : (p \o q)[i] = x}
<1>1. T = P \union {Len(p) + i : i \in Q}
  <2>1. /\ DOMAIN p = 1..Len(p) /\ Len(p) \in Nat
        /\ DOMAIN q = 1..Len(q) /\ Len(q) \in Nat
        /\ DOMAIN (p \o q) = 1..Len(p) + Len(q)
        /\ \A i \in 1..Len(p) : (p \o q)[i] = p[i]
        /\ \A i \in 1..Len(q) : (p \o q)[Len(p) + i] = q[i]
    BY ConcatFacts
  <2>2. ASSUME NEW k \in T PROVE k \in P \/ \E i \in Q : k = Len(p) + i
    <3>1. CASE k <= Len(p)
      BY <2>1, <2>2, <3>1
    <3>2. CASE ~(k <= Len(p))
      <4>1. k - Len(p) \in 1..Len(q) /\ k = Len(p) + (k - Len(p))
        BY <2>1, <2>2, <3>2
      <4> QED BY <2>1, <2>2, <4>1
    <3> QED BY <3>1, <3>2
  <2>3. P \subseteq T /\ \A i \in Q : Len(p) + i \in T
    BY <2>1
  <2> HIDE DEF P, Q, T
  <2> QED BY <2>2, <2>3
<1>2. P \in SUBSET DOMAIN p /\ Q \in SUBSET DOMAIN q
  OBVIOUS
<1> HIDE DEF P, Q, T
<1>3. Cardinality(T) = Cardinality(P) + Cardinality(Q)
  BY <1>1, <1>2, PositionsConcat
<1> QED BY <1>3 DEF Occurs, P, Q, T
================================================================================
