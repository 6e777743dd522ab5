--------------------------- MODULE MCEpochFetcher ---------------------------
(***************************************************************************)
(* Instance of EpochFetcher for TLC: a static list at genesis, a contract  *)
(* from height 1 and another one from height 3.                            *)
(***************************************************************************)
EXTENDS EpochFetcher, TLC

CONSTANT w1

MCEnterHeight == 0 :> 0 @@ 1 :> 1 @@ 2 :> 3
MCRangeValidators == 0 :> w1 @@ 1 :> Contract @@ 2 :> Contract
=============================================================================
