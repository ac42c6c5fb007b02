--------------------------- MODULE MCRequestGuards -----------------------------
(* Instances of RequestGuards for TLC. *)
EXTENDS RequestGuards, TLC

CONSTANTS u1, u2, s1, bad, probe, m1, health, ann, bob, nobody

MCMethodOf == [k \in {u1, u2, s1, bad} |-> m1] @@ (probe :> health)
MCUserOf   == (u1 :> ann) @@ (u2 :> bob) @@ (s1 :> ann) @@ (bad :> nobody) @@ (probe :> nobody)
MCLimits   == (m1 :> 1)
===============================================================================
