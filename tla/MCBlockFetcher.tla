--------------------------- MODULE MCBlockFetcher ---------------------------
(***************************************************************************)
(* Instances of BlockFetcher for TLC: a chain a0 .. a4 with a fork b2 .. b6 *)
(* from a1 and a fork c4 from b3, so that a reorganisation can replace     *)
(* blocks on a fork again, and a block can be left with two children.  The *)
(* small instance, for the node that may be reset, stops at b4 and has no c4.*)
(***************************************************************************)
EXTENDS BlockFetcher, TLC

CONSTANTS a0, a1, a2, a3, a4, b2, b3, b4, b5, b6, c4

LargeTree == {a0, a1, a2, a3, a4, b2, b3, b4, b5, b6, c4}
SmallTree == {a0, a1, a2, a3, a4, b2, b3, b4}

treeParent == a0 :> None @@ a1 :> a0 @@ a2 :> a1 @@ a3 :> a2 @@ a4 :> a3
           @@ b2 :> a1 @@ b3 :> b2 @@ b4 :> b3 @@ b5 :> b4 @@ b6 :> b5
           @@ c4 :> b3

MCparent == [b \in Block |-> treeParent[b]]

MCnumber[b \in Block] ==
  IF treeParent[b] = None THEN 0 ELSE MCnumber[treeParent[b]] + 1

MCchainTo[b \in Block] ==
  IF treeParent[b] = None THEN 0 :> b
  ELSE MCchainTo[treeParent[b]] @@ MCnumber[b] :> b

FromGenesis == {0}
FromAnywhere == {0, 1, 2, 5}
=============================================================================
