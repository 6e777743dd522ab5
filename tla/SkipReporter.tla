---------------------------- MODULE SkipReporter ----------------------------
(***************************************************************************)
(* The skip reporter: it is called with every block of the feed and calls  *)
(* its own callbacks with every step that no block was seen for within the *)
(* grace period.  The first callback, App.skip_logger, writes a line to    *)
(* the skip file, whose buffer is flushed before the cycle is committed.   *)
(***************************************************************************)
EXTENDS BlockFeed, Integers

CONSTANTS
  step,        \* block.step
  number,      \* block.number
  GracePeriod  \* main.GRACE_PERIOD

ASSUME SkipAssumption ==
  /\ GracePeriod \in Nat
  /\ step \in [Block -> Nat]
  /\ number \in [Block -> Nat]
  /\ \A b \in Block : number[b] = 0 <=> step[b] = 0
  /\ \A b \in Block : parent[b] \in Block => step[parent[b]] < step[b]

VARIABLES
  latest_step,             \* SkipReporter.latest_step
  open_skipped_proposals,  \* SkipReporter.open_skipped_proposals
  missed,                  \* missed_proposals whose callbacks have yet to run
  skips,                   \* the proposals reported so far, in order
  saved_skips,             \* the committed values of the variables but missed
  skip_buffer,             \* lines in the buffer of App.skip_file
  skip_file,               \* lines in the file
  flushed                  \* has the cycle's buffer been flushed?

skipState == <<latest_step, open_skipped_proposals, skips>>
fileState == <<skip_buffer, skip_file, flushed>>
skipVars == <<feedVars, skipState, missed, saved_skips, fileState>>

SkippedProposal == [step: Nat \ {0}, block_height: Nat \ {0}]

FreshSkips == [latest_step |-> 0, open_skipped_proposals |-> {}, skips |-> <<>>]

SkipInit ==
  /\ FeedInit
  /\ latest_step = 0 /\ open_skipped_proposals = {} /\ skips = <<>>
  /\ missed = {}
  /\ saved_skips = FreshSkips
  /\ skip_buffer = {} /\ skip_file = {} /\ flushed = FALSE

-----------------------------------------------------------------------------
(* A block arrives.                                                        *)

\* Genesis always has step 0 and is ignored.
SeeGenesis(b) ==
  /\ number[b] = 0
  /\ UNCHANGED <<skipState, missed>>

\* The first block only sets the step to start from.
SeeFirst(b) ==
  /\ number[b] # 0
  /\ latest_step = 0
  /\ latest_step' = step[b]
  /\ UNCHANGED <<open_skipped_proposals, skips, missed>>

\* Mutant: the latest step is opened, too.
SkippedBeforeFromLatest(b) ==
  {[step |-> s, block_height |-> number[b]] :
     s \in latest_step..(step[b] - 1)}

\* Mutant: the last skipped step is left out.
SkippedBeforeShort(b) ==
  {[step |-> s, block_height |-> number[b]] :
     s \in (latest_step + 1)..(step[b] - 2)}

\* Mutant: skips get the height of the block before them.
SkippedBeforeParent(b) ==
  {[step |-> s, block_height |-> number[b] - 1] :
     s \in (latest_step + 1)..(step[b] - 1)}

\* The steps a block leaves open behind the latest one.
SkippedBefore(b) ==
  {[step |-> s, block_height |-> number[b]] :
     s \in (latest_step + 1)..(step[b] - 1)}

\* Mutant: a late block does not close its step.
RemainOpenAll(open, b) == open

\* remove_open_skipped_proposals_with_step: a late block closes its step.
RemainOpen(open, b) == {p \in open : p.step # step[b]}

\* Mutant: the grace period is one step shorter than the step comparison.
GraceIsOverEarly(p, latest) == p.step <= latest - GracePeriod

GraceIsOver(p, latest) == p.step < latest - GracePeriod

StepSeen(b) == IF step[b] > latest_step THEN step[b] ELSE latest_step

\* Any other block opens the steps it skips, closes its own, and leaves those
\* to report whose grace period is over.
SeeBlock(b) ==
  LET open == RemainOpen(open_skipped_proposals \cup SkippedBefore(b), b) IN
  /\ number[b] # 0
  /\ latest_step # 0
  /\ latest_step' = StepSeen(b)
  /\ open_skipped_proposals' = open
  /\ missed' = {p \in open : GraceIsOver(p, latest_step')}
  /\ UNCHANGED skips

\* SkipReporter.__call__ up to its callbacks.
CallSkipReporter(b) ==
  /\ missed = {}
  /\ Deliver(b)
  /\ SeeGenesis(b) \/ SeeFirst(b) \/ SeeBlock(b)
  /\ flushed' = FALSE
  /\ UNCHANGED <<saved_skips, skip_buffer, skip_file>>

\* Mutant: the missed proposals are not sorted.
IsNextMissedUnsorted(p) == p \in missed

\* get_missed_proposals returns them sorted by step.
IsNextMissed(p) == p \in missed /\ \A q \in missed : p.step <= q.step

\* The callbacks for one missed proposal; after the last one the reported
\* proposals are closed.
ReportSkip(p) ==
  /\ IsNextMissed(p)
  /\ missed' = missed \ {p}
  /\ skips' = Append(skips, p)
  /\ skip_buffer' = skip_buffer \cup {p}
  /\ open_skipped_proposals' =
       IF missed' # {} THEN open_skipped_proposals
       ELSE {q \in open_skipped_proposals : ~GraceIsOver(q, latest_step)}
  /\ UNCHANGED <<feedVars, latest_step, saved_skips, skip_file, flushed>>

-----------------------------------------------------------------------------
(* The end of the cycle.                                                   *)

\* skip_file.flush: the lines leave the process before the commit.
FlushSkips ==
  /\ missed = {}
  /\ skip_file' = skip_file \cup skip_buffer
  /\ skip_buffer' = {}
  /\ flushed' = TRUE
  /\ UNCHANGED <<feedVars, skipState, missed, saved_skips>>

\* Mutant: the cycle is committed before the file is flushed.
ReadyToCommitUnflushed == missed = {}

ReadyToCommit == flushed

CommitSkips ==
  /\ ReadyToCommit
  /\ Persist
  /\ saved_skips' = [latest_step |-> latest_step,
                     open_skipped_proposals |-> open_skipped_proposals,
                     skips |-> skips]
  /\ flushed' = FALSE
  /\ UNCHANGED <<skipState, missed, skip_buffer, skip_file>>

\* The process goes down: what was not committed is forgotten, but lines of
\* the buffer may have reached the file, those for the lower steps first (all
\* of them after an exception, which closes the file).
LoseSkips ==
  /\ Lose
  /\ latest_step' = saved_skips.latest_step
  /\ open_skipped_proposals' = saved_skips.open_skipped_proposals
  /\ skips' = saved_skips.skips
  /\ missed' = {}
  /\ \E p \in skip_buffer \cup {[step |-> 0]} :
       skip_file' = skip_file \cup {q \in skip_buffer : q.step <= p.step}
  /\ skip_buffer' = {}
  /\ flushed' = FALSE
  /\ UNCHANGED saved_skips

SkipNext ==
  \/ \E b \in Block : CallSkipReporter(b)
  \/ \E p \in missed : ReportSkip(p)
  \/ FlushSkips
  \/ CommitSkips
  \/ LoseSkips

SkipSpec == SkipInit /\ [][SkipNext]_skipVars

-----------------------------------------------------------------------------
(* Properties.                                                             *)

SkipTypeOK ==
  /\ delivered \in Seq(Block) /\ durable \in Seq(Block)
  /\ latest_step \in Nat
  /\ open_skipped_proposals \in SUBSET SkippedProposal
  /\ missed \in SUBSET SkippedProposal
  /\ skips \in Seq(SkippedProposal)
  /\ saved_skips \in [latest_step: Nat,
                      open_skipped_proposals: SUBSET SkippedProposal,
                      skips: Seq(SkippedProposal)]
  /\ skip_buffer \in SUBSET SkippedProposal
  /\ skip_file \in SUBSET SkippedProposal
  /\ flushed \in BOOLEAN

SeenSteps == {step[b] : b \in ToSet(delivered)}
ReportedSteps == {p.step : p \in ToSet(skips)}
OpenSteps == {p.step : p \in open_skipped_proposals}

\* Steps are reported in increasing order, so none twice, whatever forks the
\* blocks come from and wherever the process restarts.  OfflineReporter relies
\* on it: it asserts the order and bisects the list it appends the steps to.
SkipsInOrder ==
  \A i, j \in DOMAIN skips : i < j => skips[i].step < skips[j].step

\* No step is reported or kept open that a block was delivered for in time:
\* blocks of any fork close their step, also those that arrive after higher
\* ones.
OpenIsUnseen ==
  /\ OpenSteps \cap SeenSteps = {}
  /\ missed \subseteq open_skipped_proposals

\* No step gets lost: each one between the first counted block and the latest
\* step was seen, is open or has been reported, over restarts too.
FirstCounted(d, i) ==
  number[d[i]] # 0 /\ \A j \in 1..(i - 1) : number[d[j]] = 0

IsFirstCounted(i) == FirstCounted(delivered, i)

StepsAccounted ==
  \A i \in DOMAIN delivered :
    IsFirstCounted(i) =>
      \A s \in (step[delivered[i]] + 1)..latest_step :
        s \in SeenSteps \cup OpenSteps \cup ReportedSteps

\* Between two blocks no step is open whose grace period is over, and none has
\* been reported before it was.
GraceKept ==
  /\ missed = {} => \A s \in OpenSteps : latest_step <= s + GracePeriod
  /\ \A s \in ReportedSteps : s + GracePeriod < latest_step

\* A skip is attributed to the height of a block that was delivered, and lies
\* between that block and its parent: had the primary proposed, the block
\* would have had this height on the same fork.
SkipFitsAFork ==
  \A p \in open_skipped_proposals \cup ToSet(skips) :
    \E b \in ToSet(delivered) :
      /\ number[b] = p.block_height
      /\ p.step < step[b]
      /\ parent[b] \in ToSet(delivered)
      /\ step[parent[b]] < p.step

\* The proposals that a tree of blocks can have skipped.
PossibleProposal ==
  UNION {{[step |-> s, block_height |-> number[b]] : s \in 1..step[b]} :
           b \in Block}

\* What the reporter calls its callbacks with is what SkipFeed promises to
\* them: increasing steps, and after a crash a continuation of what was
\* committed.
Skipped == INSTANCE SkipFeed WITH Proposal <- PossibleProposal,
                                  durable_skips <- saved_skips.skips
ImplementsSkipFeed == Skipped!SkipFeedSpec

\* Every committed skip has its line in the skip file, wherever the process is
\* killed; the file may have lines of cycles that were not committed.
CommittedSkipsInFile == ToSet(saved_skips.skips) \subseteq skip_file

\* End to end: in the committed state no step whose grace period is over is
\* without a line in the skip file, unless a block was delivered for it.
MissesOnFile ==
  \A i \in DOMAIN durable :
    FirstCounted(durable, i) =>
      \A s \in (step[durable[i]] + 1)..(saved_skips.latest_step - GracePeriod - 1) :
        \/ \E b \in ToSet(durable) : step[b] = s
        \/ \E p \in skip_file : p.step = s

\* The skip file has all it should have when the process goes down after a
\* commit: the skips that are committed, and with them every miss that is over.
SkipFileComplete == CommittedSkipsInFile /\ MissesOnFile
=============================================================================
