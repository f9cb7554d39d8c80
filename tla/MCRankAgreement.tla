-------------------------- MODULE MCRankAgreement --------------------------
(* Instances of RankAgreement for TLC.                                     *)
EXTENDS RankAgreement
=============================================================================
