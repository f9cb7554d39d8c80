--------------------------- MODULE MCGenExecutor ---------------------------
(* Instances of GenExecutor for TLC.                                       *)
EXTENDS GenExecutor
=============================================================================
