----------------------------- MODULE BlockFeed -----------------------------
(***************************************************************************)
(* What the block fetcher promises to the reporters registered on it: each *)
(* block is handed to them once, after its parent (the first one excepted, *)
(* where the synchronisation starts); a crash takes back exactly what has  *)
(* not been committed.  Nothing is promised about which fork a block is    *)
(* on.                                                                     *)
(***************************************************************************)
EXTENDS Sequences, SequencesExt

CONSTANTS Block, parent

VARIABLES
  delivered,  \* the blocks passed to the callbacks, in order
  durable     \* the part of it whose effects are committed

feedVars == <<delivered, durable>>

FeedInit == delivered = <<>> /\ durable = <<>>

Deliver(b) ==
  /\ b \notin ToSet(delivered)
  /\ delivered = <<>> \/ parent[b] \in ToSet(delivered)
  /\ delivered' = Append(delivered, b)
  /\ UNCHANGED durable

Persist ==
  /\ durable' = delivered
  /\ UNCHANGED delivered

Lose ==
  /\ delivered' = durable
  /\ UNCHANGED durable

FeedNext == (\E b \in Block : Deliver(b)) \/ Persist \/ Lose

FeedSpec == FeedInit /\ [][FeedNext]_feedVars
=============================================================================
