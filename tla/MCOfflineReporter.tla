------------------------- MODULE MCOfflineReporter -------------------------
(***************************************************************************)
(* Instances of OfflineReporter for TLC: lists of one and two validators,  *)
(* all of which may be in force at one time or another.                    *)
(***************************************************************************)
EXTENDS OfflineReporter

CONSTANTS v1, v2

\* The block height of a skip only matters to the oracle.
MCProposal == {[step |-> s, block_height |-> 1] : s \in 1..6}

ChangingLists == {<<v1, v2>>, <<v2>>}
OneList == {<<v1, v2>>}
=============================================================================
