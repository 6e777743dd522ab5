------------------------------- MODULE MCApp -------------------------------
(***************************************************************************)
(* Instance of App for TLC: a chain a0 .. a4 with a fork b3 - b4 from a2.  *)
(* AllSelectors' date is the time of a3, that of DateSelector between the  *)
(* times of two blocks on both forks.                                      *)
(***************************************************************************)
EXTENDS App, TLC

CONSTANTS a0, a1, a2, a3, a4, b3, b4

MCBlock == {a0, a1, a2, a3, a4, b3, b4}

treeParent == a0 :> None @@ a1 :> a0 @@ a2 :> a1 @@ a3 :> a2 @@ a4 :> a3
           @@ b3 :> a2 @@ b4 :> b3

MCparent == treeParent

MCnumber[b \in Block] ==
  IF treeParent[b] = None THEN 0 ELSE MCnumber[treeParent[b]] + 1

MCchainTo[b \in Block] ==
  IF treeParent[b] = None THEN 0 :> b
  ELSE MCchainTo[treeParent[b]] @@ MCnumber[b] :> b

MCtimestamp == a0 :> 0 @@ a1 :> 1 @@ a2 :> 2 @@ a3 :> 3 @@ a4 :> 6
            @@ b3 :> 4 @@ b4 :> 6

AllSelectors ==
  {[by |-> "latest"], [by |-> "genesis"]}
    \cup [by: {"number"}, blocknr: {2, -1}]
    \cup [by: {"date"}, timestamp: {3}]

DateSelector == [by: {"date"}, timestamp: {5}]
=============================================================================
