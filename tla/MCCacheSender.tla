--------------------------- MODULE MCCacheSender ---------------------------
(* Instances of CacheSender for TLC: one request goes to a generation      *)
(* server with all the ranks, the others to one with a single rank.        *)
EXTENDS CacheSender

Wide == CHOOSE q \in Requests : TRUE
Single == CHOOSE p \in Peers : TRUE
MixedCounterparts ==
    [q \in Requests |-> IF q = Wide THEN Peers ELSE {Single}]
=============================================================================
