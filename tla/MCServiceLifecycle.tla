-------------------------- MODULE MCServiceLifecycle ---------------------------
(* An instance of ServiceLifecycle for TLC. *)
EXTENDS ServiceLifecycle

CONSTANTS unary, stream

\* Every main of the back end.
AllMains == {alertEngine, analyzer, geoIndex, reporter, ingestor}
===============================================================================
