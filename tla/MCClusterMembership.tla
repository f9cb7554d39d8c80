------------------------ MODULE MCClusterMembership ------------------------
(* An instance of ClusterMembership for TLC: two worker processes, each at *)
(* its own address or one after the other at the same one.                 *)
EXTENDS ClusterMembership

CONSTANTS w1, w2

OwnOrShared == {[w \in Workers |-> w], [w \in Workers |-> w1]}
=============================================================================
