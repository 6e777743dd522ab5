------------------------ MODULE EquivocationReporter ------------------------
(***************************************************************************)
(* The equivocation reporter: it is called with every block after that was *)
(* stored, looks up the stored blocks of the same proposer and step, and   *)
(* if there are several, App.equivocation_logger asks the node for each of *)
(* them by hash and appends a report to the file of the proposer at once.  *)
(***************************************************************************)
EXTENDS Chain

CONSTANTS
  step,     \* block.step
  proposer  \* get_proposer of the canonicalized block

ASSUME EquivocationAssumption ==
  step \in [Block -> Nat] /\ DOMAIN proposer = Block

VARIABLES
  equivocated,          \* equivocated_block_hashes while they are logged
  unread,               \* those of them the node has yet to be asked for
  equivocation_reports  \* the entries of all report files

equivocationVars == <<equivocated, unread, equivocation_reports>>

EquivocationInit == equivocated = {} /\ unread = {} /\ equivocation_reports = {}

Equivocate(b, c) == b # c /\ proposer[b] = proposer[c] /\ step[b] = step[c]

\* Mutant: the proposer is not part of the query.
SameProposerAndStepAnyProposer(b, stored) == {c \in stored : step[c] = step[b]}

\* BlockDB.get_blocks_by_proposer_and_step, the open session included.
SameProposerAndStep(b, stored) ==
  {c \in stored : proposer[c] = proposer[b] /\ step[c] = step[b]}

\* There are at least two.
Several(blocks) == \E b, c \in blocks : b # c

\* EquivocationReporter.__call__, whose callback is called with all of them.
CallEquivocationReporter(b, stored) ==
  LET found == SameProposerAndStep(b, stored) IN
  /\ b \in found
  /\ IF Several(found)
     THEN equivocated' = found /\ unread' = found
     ELSE UNCHANGED <<equivocated, unread>>
  /\ UNCHANGED equivocation_reports

\* One getBlock of App.equivocation_logger, which writes after the last one.
\* The headers of the first two blocks are the proof, in the order the query
\* happened to return them in.
ReadEquivocated(b) ==
  /\ b \in unread
  /\ BlockByHash(b) # None
  /\ unread' = unread \ {b}
  /\ IF unread' # {} THEN UNCHANGED <<equivocated, equivocation_reports>>
     ELSE /\ \E c, d \in equivocated :
               /\ c # d
               /\ equivocation_reports' = equivocation_reports \cup
                    {[blocks |-> equivocated, proof |-> {c, d}]}
          /\ equivocated' = {}

\* The process goes down; the report files stay as they are.
LoseEquivocated ==
  /\ equivocated' = {}
  /\ unread' = {}
  /\ UNCHANGED equivocation_reports
=============================================================================
