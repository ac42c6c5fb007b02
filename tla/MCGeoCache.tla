------------------------------ MODULE MCGeoCache ------------------------------
(***************************************************************************)
(* Instances of GeoCache for TLC.                                          *)
(***************************************************************************)
EXTENDS GeoCache, TLC

CONSTANTS c1, c2

\* The louder of two cells, and each cell alone above a minimum of its own: the
\* entry of a cell serves callers with different minimums.
LoudestAndEach ==
  {[cells |-> {c1, c2}, min |-> 1, limit |-> 1],
   [cells |-> {c1}, min |-> 2, limit |-> 0],
   [cells |-> {c2}, min |-> 2, limit |-> 0]}

\* The averages of a day and of the last hour: a quiet day without a result in
\* the last hour, and a loud one with a quiet last hour.
DayAndHour == {(24 :> 1) @@ (1 :> 0), (24 :> 2) @@ (1 :> 1)}

TwoCells == Permutations({c1, c2})
===============================================================================
