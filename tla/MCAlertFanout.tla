----------------------------- MODULE MCAlertFanout -----------------------------
(***************************************************************************)
(* Instances of AlertFanout for TLC: who subscribes with which request.    *)
(***************************************************************************)
EXTENDS AlertFanout, TLC

CONSTANTS s1, s2, s3, s4, a, b, z1

Req(id, min, zones) == [id |-> id, minSeverity |-> min, zones |-> zones]

\* A dashboard that reconnects: s1 and s2 carry the same id, s1 filters.  A
\* third call forgot its id.
SharedIds ==
  (s1 :> Req(a, 2, {z1})) @@ (s2 :> Req(a, 0, {})) @@ (s3 :> Req(EmptyId, 0, {}))

\* Beside them a dashboard with an id of its own.
SharedAndOwnIds == SharedIds @@ (s4 :> Req(b, 1, {}))

\* Two dashboards with ids of their own, one of them filtering.
DistinctIds == (s1 :> Req(a, 2, {z1})) @@ (s2 :> Req(b, 0, {}))
================================================================================
