------------------------------ MODULE Monitor ------------------------------
(***************************************************************************)
(* The App: the block fetcher with the reporters that are registered on it *)
(* and everything that survives a process: the database, the skip file and *)
(* the equivocation reports.  The skip reporter is called with each block  *)
(* before the equivocation reporter is; an exception of either ends the    *)
(* process and rolls the cycle back, as one of the fetcher does.           *)
(***************************************************************************)
EXTENDS BlockFetcher, EquivocationReporter

CONSTANT GracePeriod

VARIABLES
  latest_step, open_skipped_proposals, missed, skips, saved_skips,
  skip_buffer, skip_file, flushed,  \* as in SkipReporter
  due,        \* the block the equivocation reporter has yet to be called with
  failure,    \* the exception of a reporter that the process went down with
  node_reset  \* history: has the node ever been reset?

Skips == INSTANCE SkipReporter WITH durable <- saved.delivered

\* Steps grow along a chain and only genesis has step 0.
ASSUME StepAssumption ==
  /\ GracePeriod \in Nat
  /\ \A b \in Block : number[b] = 0 <=> step[b] = 0
  /\ \A b \in Block : parent[b] \in Block => step[parent[b]] < step[b]

skipReporterVars == <<latest_step, open_skipped_proposals, missed, skips,
                      saved_skips, skip_buffer, skip_file, flushed>>
reporterVars == <<skipReporterVars, equivocationVars, due>>
monitorVars == <<vars, reporterVars, failure, node_reset>>

MonitorInit ==
  /\ Init
  /\ Skips!SkipInit
  /\ EquivocationInit
  /\ due = None
  /\ failure = "none"
  /\ node_reset = FALSE

-----------------------------------------------------------------------------
\* Mutant: equivocations are logged while the cycle goes on.
IdleAhead == missed = {} /\ due = None

\* The callbacks that have been started are done.
Idle == missed = {} /\ due = None /\ unread = {}

\* What a process that goes down takes with it.
LoseReporters == Skips!LoseSkips /\ LoseEquivocated /\ due' = None

\* Any part of a cycle but the callbacks and its end.
FetchStep ==
  /\ Idle
  /\ pc \notin {"callbacks", "commit"}
  /\ CycleStep
  /\ IF pc' = "down" THEN LoseReporters ELSE UNCHANGED reporterVars
  /\ UNCHANGED <<failure, node_reset>>

\* A reporter raises an exception.
ReporterFails(e) ==
  /\ Kill
  /\ LoseReporters
  /\ failure' = e
  /\ UNCHANGED node_reset

\* The first callback for the next block.
RunSkipReporter ==
  /\ Idle
  /\ RunCallback
  /\ Skips!CallSkipReporter(Head(queue))
  /\ due' = Head(queue)
  /\ UNCHANGED <<equivocationVars, failure, node_reset>>

\* Mutant: the oracle's limit is exclusive.
HeightKnownBelow(p) == p.block_height < max_block_height

\* The oracle answers up to its max_height, which limits the cycle, too.
HeightKnown(p) == p.block_height <= max_block_height

\* The skip reporter asks the oracle for the primary of a missed proposal.
RunSkipCallbacks(p) ==
  /\ Skips!IsNextMissed(p)
  /\ IF ~HeightKnown(p) THEN ReporterFails("HeightUnknown")
     ELSE /\ UNCHANGED <<vars, equivocationVars, due, failure, node_reset>>
          /\ Skips!ReportSkip(p)

\* The second callback for the same block.
RunEquivocationReporter ==
  /\ missed = {}
  /\ due # None
  /\ IF due \notin db THEN ReporterFails("AssertionError")
     ELSE /\ CallEquivocationReporter(due, db)
          /\ due' = None
          /\ UNCHANGED <<vars, skipReporterVars, failure, node_reset>>

\* A block that the node does not know any more cannot be logged.
LogEquivocation(b) ==
  /\ b \in unread
  /\ IF BlockByHash(b) = None THEN ReporterFails("OrphanGone")
     ELSE /\ ReadEquivocated(b)
          /\ UNCHANGED <<vars, skipReporterVars, due, failure, node_reset>>

\* The end of the cycle: the skip file is flushed and the session committed.
FlushCycle ==
  /\ Idle
  /\ pc = "commit"
  /\ ~flushed
  /\ UNCHANGED <<vars, equivocationVars, due, failure, node_reset>>
  /\ Skips!FlushSkips

CommitCycle ==
  /\ Idle
  /\ Commit
  /\ Skips!CommitSkips
  /\ UNCHANGED <<equivocationVars, due, failure, node_reset>>

MonitorStep ==
  \/ FetchStep
  \/ RunSkipReporter
  \/ \E p \in missed : RunSkipCallbacks(p)
  \/ RunEquivocationReporter
  \/ \E b \in unread : LogEquivocation(b)
  \/ FlushCycle
  \/ CommitCycle

StopProcess == Kill /\ LoseReporters /\ UNCHANGED <<failure, node_reset>>

StartProcess ==
  /\ Restart
  /\ failure' = "none"
  /\ UNCHANGED <<reporterVars, node_reset>>

\* The node goes on, or is reset.
MonitorNode ==
  /\ \E b \in Block : \/ Import(b) /\ UNCHANGED node_reset
                      \/ Reset(b) /\ node_reset' = TRUE
  /\ UNCHANGED <<fetcherVars, reporterVars, failure>>

MonitorNext == MonitorStep \/ StopProcess \/ StartProcess \/ MonitorNode

MonitorSpec == MonitorInit /\ [][MonitorNext]_monitorVars

\* As for the block fetcher: a process that runs goes on.
MonitorFairSpec == MonitorSpec /\ WF_monitorVars(MonitorStep)

-----------------------------------------------------------------------------
(* Properties.                                                             *)

\* Whenever blocks of one proposer and step are in the committed database,
\* there is a report of exactly these blocks on file, although they came from
\* different forks in different cycles and processes, and the file is written
\* before the cycle is committed.
EquivocationsOnFile ==
  \A b \in saved.db :
    LET found == SameProposerAndStep(b, saved.db) IN
    Several(found) =>
      \E r \in equivocation_reports : r.blocks = found

\* Every report, also that of a cycle which was rolled back, proves an
\* equivocation: it does not matter which proof is used (README.md:82).
ReportsProve ==
  \A r \in equivocation_reports :
    \E b, c \in r.blocks : Equivocate(b, c) /\ r.proof = {b, c}

\* As long as the node is not reset, no reporter ever fails: the oracle knows
\* the height of each missed proposal, also of those that were opened by an
\* earlier process or come from a branch that was fetched by one; the node
\* knows all equivocating blocks; and each block is stored when it is reported.
ReportersFailByResetOnly ==
  /\ failure # "AssertionError"
  /\ failure # "none" => node_reset

\* End to end: once the node's tip has settled, a process that stays up brings
\* a line for each missed step on the way to it into the skip file, unless a
\* block of another fork was seen for the step.
MissesReported ==
  (<>[][FALSE]_tip /\ <>[](pc # "down")) =>
    <>[](\A i \in DOMAIN saved.delivered :
           Skips!IsFirstCounted(i) =>
             \A s \in (step[delivered[i]] + 1)..(step[tip] - GracePeriod - 1) :
               s \in Skips!SeenSteps \cup {p.step : p \in skip_file})
=============================================================================
