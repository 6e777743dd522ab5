------------------------------ MODULE SkipFeed ------------------------------
(***************************************************************************)
(* What the skip reporter promises to the callbacks registered on it, the  *)
(* offline reporter above all: skipped proposals come in increasing order  *)
(* of their steps, each step at most once, over restarts too; a crash takes*)
(* back exactly what has not been committed.                               *)
(***************************************************************************)
EXTENDS Integers, Sequences

CONSTANT Proposal  \* the proposals that may ever be skipped

ASSUME ProposalAssumption == \A p \in Proposal : p.step \in Nat

VARIABLES
  skips,         \* the proposals reported, in order
  durable_skips  \* the part of it whose effects are committed

skipFeedVars == <<skips, durable_skips>>

SkipFeedInit == skips = <<>> /\ durable_skips = <<>>

\* Mutant: in any order.
FollowsAny(p) == TRUE

Follows(p) == \A i \in DOMAIN skips : skips[i].step < p.step

Hear(p) ==
  /\ skips' = Append(skips, p)
  /\ UNCHANGED durable_skips

Report(p) == Follows(p) /\ Hear(p)

PersistSkips ==
  /\ durable_skips' = skips
  /\ UNCHANGED skips

ForgetSkips ==
  /\ skips' = durable_skips
  /\ UNCHANGED durable_skips

SkipFeedNext == (\E p \in Proposal : Report(p)) \/ PersistSkips \/ ForgetSkips

SkipFeedSpec == SkipFeedInit /\ [][SkipFeedNext]_skipFeedVars
=============================================================================
