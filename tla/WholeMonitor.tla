---------------------------- MODULE WholeMonitor ----------------------------
(***************************************************************************)
(* The monitor with the offline reporter: the skip reporter calls the skip *)
(* logger with a missed proposal and then the offline reporter, before it  *)
(* goes on to the next one.  The state of the offline reporter is          *)
(* committed or forgotten with everything else; its report files stay.     *)
(* That the proposals come in an order it can take is not assumed here, as *)
(* it is in OfflineReporter.                                               *)
(***************************************************************************)
EXTENDS Monitor

CONSTANTS
  Validator, ValidatorLists, WindowSize, SkipsAllowed, SkipsOutOf,
  MaxReports  \* as in OfflineReporter

VARIABLES
  heard,  \* the proposals the offline reporter was called with, in order
  reported_validators, intervals, offline_time, saved_offline, reports,
  counted,       \* as in OfflineReporter
  offline_error  \* the exception of the offline reporter

Offline == INSTANCE OfflineReporter WITH
             Proposal <- Skips!PossibleProposal,
             skips <- heard,
             durable_skips <- saved_skips.skips,
             error <- offline_error

ASSUME WindowAssumption == Offline!OfflineAssumption

offlineReporterVars == <<heard, reported_validators, intervals, offline_time,
                         saved_offline, reports, counted, offline_error>>
wholeVars == <<monitorVars, offlineReporterVars>>

WholeInit == MonitorInit /\ Offline!OfflineInit

-----------------------------------------------------------------------------
\* The offline reporter has been called with each proposal the skip logger has.
AllHeard == heard = skips

\* The second callback of the skip reporter for the same proposal, whichever
\* validators the oracle knows for its height; an exception ends the process.
CallOffline(vs) ==
  LET p == Last(skips) IN
  /\ ~AllHeard
  /\ IF Offline!Raised(Offline!PrimaryOf(vs, p.step), p.step) = "none"
     THEN UNCHANGED monitorVars
     ELSE StopProcess
  /\ Offline!HandleSkip(p, vs)

\* Any other part of a cycle but the commit.
RunOthers ==
  /\ AllHeard
  /\ \/ FetchStep
     \/ RunSkipReporter
     \/ \E p \in missed : RunSkipCallbacks(p)
     \/ RunEquivocationReporter
     \/ \E b \in unread : LogEquivocation(b)
     \/ FlushCycle
  /\ IF pc' = "down" THEN Offline!LoseOffline("none")
     ELSE UNCHANGED offlineReporterVars

WholeStep ==
  \/ \E vs \in ValidatorLists : CallOffline(vs)
  \/ RunOthers
  \/ AllHeard /\ CommitCycle /\ Offline!CommitOffline

WholeNext ==
  \/ WholeStep
  \/ StopProcess /\ Offline!LoseOffline("none")
  \/ (StartProcess \/ MonitorNode) /\ UNCHANGED offlineReporterVars

WholeSpec == WholeInit /\ [][WholeNext]_wholeVars

\* As for the monitor: a process that runs goes on.
WholeFairSpec == WholeSpec /\ WF_wholeVars(WholeStep)

-----------------------------------------------------------------------------
(* Properties.                                                             *)

\* A validator that has been reported for good has a report file whose steps
\* all have their lines in the skip file, although the one file is written
\* while the cycle is open, the other is buffered until its end, and the
\* process may go down between the two any number of times.
ReportsBacked ==
  \A v \in saved_offline.reported :
    \E r \in reports :
      /\ r.validator = v
      /\ \A o \in r.intervals : \E p \in skip_file : p.step = o.step
=============================================================================
