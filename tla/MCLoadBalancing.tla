-------------------------- MODULE MCLoadBalancing --------------------------
(* Instances of LoadBalancing for TLC.                                     *)
EXTENDS LoadBalancing
=============================================================================
