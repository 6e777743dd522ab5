----------------------------- MODULE MCMonitor -----------------------------
(***************************************************************************)
(* Instance of WholeMonitor for TLC: a chain a0 .. a3 that skips steps,    *)
(* and a fork b2 - b3 from a1.  The proposer of a2 equivocates with b2; b3 *)
(* has the step of a3, too, but another proposer, as where the forks       *)
(* disagree on the validators.                                             *)
(***************************************************************************)
EXTENDS WholeMonitor, TLC

CONSTANTS a0, a1, a2, a3, b2, b3

MCBlock == {a0, a1, a2, a3, b2, b3}

treeParent == a0 :> None @@ a1 :> a0 @@ a2 :> a1 @@ a3 :> a2
           @@ b2 :> a1 @@ b3 :> b2

MCparent == treeParent

MCnumber[b \in Block] ==
  IF treeParent[b] = None THEN 0 ELSE MCnumber[treeParent[b]] + 1

MCchainTo[b \in Block] ==
  IF treeParent[b] = None THEN 0 :> b
  ELSE MCchainTo[treeParent[b]] @@ MCnumber[b] :> b

MCstep == a0 :> 0 @@ a1 :> 1 @@ a2 :> 3 @@ a3 :> 6
       @@ b2 :> 3 @@ b3 :> 6

MCproposer == a0 :> "nobody" @@ a1 :> "v" @@ a2 :> "v" @@ a3 :> "w"
           @@ b2 :> "v" @@ b3 :> "u"

FromAnywhere == {0, 1, 2}

\* The oracle's list: v is the primary of the even steps.
MCValidator == {"v", "w"}
OneList == {<<"v", "w">>}
=============================================================================
