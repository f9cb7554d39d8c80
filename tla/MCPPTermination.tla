-------------------------- MODULE MCPPTermination --------------------------
(* Instance of PPTermination for TLC.                                      *)
EXTENDS PPTermination
=============================================================================
