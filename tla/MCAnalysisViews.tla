--------------------------- MODULE MCAnalysisViews ----------------------------
(* A small instance of AnalysisViews for TLC. *)
EXTENDS AnalysisViews, TLC

CONSTANTS r1, r2, c1

\* A moderate and a loud reading of one cell, in a batch or streamed; an empty batch
\* is refused.
MCReadings  == {r1, r2}
MCCellOf    == (r1 :> c1) @@ (r2 :> c1)
MCDecibelOf == (r1 :> 59) @@ (r2 :> 80)
MCBatches   == {<<>>, <<r1, r2>>}
===============================================================================
