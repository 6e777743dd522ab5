--------------------------- MODULE MCSkipReporter ---------------------------
(***************************************************************************)
(* Instance of SkipReporter for TLC: a chain g - a1 - a2 - a3 with skipped *)
(* steps, a fork b1 - b2 from g whose blocks fill some of them and skip    *)
(* others, and a block c3 of a step that is on no other fork.              *)
(***************************************************************************)
EXTENDS SkipReporter, TLC

CONSTANTS g, a1, a2, a3, b1, b2, c3, None

MCBlock == {g, a1, a2, a3, b1, b2, c3}

MCparent == g :> None @@ a1 :> g @@ a2 :> a1 @@ a3 :> a2
         @@ b1 :> g @@ b2 :> b1 @@ c3 :> a2

MCnumber == g :> 0 @@ a1 :> 1 @@ a2 :> 2 @@ a3 :> 3
         @@ b1 :> 1 @@ b2 :> 2 @@ c3 :> 3

MCstep == g :> 0 @@ a1 :> 1 @@ a2 :> 4 @@ a3 :> 8
       @@ b1 :> 3 @@ b2 :> 6 @@ c3 :> 5
=============================================================================
