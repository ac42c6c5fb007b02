--------------------------- MODULE MCAlertProcessing ---------------------------
(***************************************************************************)
(* Instances of AlertProcessing for TLC.                                   *)
(***************************************************************************)
EXTENDS AlertProcessing, TLC

CONSTANTS r1, r2, t1, t2, z1, z2, u1, u2

\* A loud reading that exceeds both thresholds, and a malformed one.
LoudAndMalformed ==
  (r1 :> [wellFormed |-> TRUE, zone |-> z1, level |-> 8]) @@
  (r2 :> [wellFormed |-> FALSE, zone |-> z1, level |-> 8])

\* r1 is above the limit of t1, r2 is at it and outside the zone of t2.
AroundTheLimit ==
  (r1 :> [wellFormed |-> TRUE, zone |-> z1, level |-> 8]) @@
  (r2 :> [wellFormed |-> TRUE, zone |-> z2, level |-> 7])

GlobalAndLocal ==
  (t1 :> [zone |-> AllZones, max |-> 7]) @@ (t2 :> [zone |-> z1, max |-> 6])
================================================================================
