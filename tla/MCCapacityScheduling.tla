------------------------ MODULE MCCapacityScheduling ------------------------
(* An instance of CapacityScheduling for TLC: three requests of different  *)
(* lengths and a pool that any two of them can exhaust.                    *)
EXTENDS CapacityLoop

CONSTANTS q1, q2, q3

Prompts == q1 :> 1 @@ q2 :> 3 @@ q3 :> 4
NewTokens == q1 :> 6 @@ q2 :> 4 @@ q3 :> 2
AllPolicies == NoEvictPolicies \cup {"MAX_UTILIZATION"}
=============================================================================
