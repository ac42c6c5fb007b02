----------------------------- MODULE MCIngestStream -----------------------------
(***************************************************************************)
(* Instances of IngestStream for TLC: the second reading of the stream is  *)
(* not valid.                                                              *)
(***************************************************************************)
EXTENDS IngestStream

SecondInvalid == {2}
NoneInvalid == {}
================================================================================
