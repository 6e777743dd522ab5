-------------------------- MODULE OfflineReporter --------------------------
(***************************************************************************)
(* The offline reporter: it is called with every skipped proposal and its  *)
(* primary, adds up the time a validator was offline within a window of    *)
(* steps, and reports a validator once, when this is more than the allowed *)
(* share of the window.  App.offline_logger writes the report to a file of *)
(* its own at once; everything else is committed at the end of the cycle.  *)
(***************************************************************************)
EXTENDS SkipFeed, FiniteSets

CONSTANTS
  Validator,
  ValidatorLists,  \* what PrimaryOracle.get_validators may answer
  WindowSize,      \* offline_window_size, in steps
  SkipsAllowed,    \* allowed_skip_rate is SkipsAllowed in ...
  SkipsOutOf,      \* ... SkipsOutOf assigned steps
  MaxReports       \* bound: no crash with more report files than this

ASSUME OfflineAssumption ==
  /\ WindowSize \in Nat
  /\ SkipsAllowed \in Nat /\ SkipsOutOf \in Nat \ {0}
  /\ SkipsAllowed <= SkipsOutOf
  /\ MaxReports \in Nat
  /\ \A vs \in ValidatorLists : vs \in Seq(Validator) /\ vs # <<>>

VARIABLES
  reported_validators,  \* OfflineReporter.reported_validators
  intervals,            \* recent_offline_intervals_by_validator
  offline_time,         \* offline_time_by_validator
  saved_offline,        \* the committed values of these and of counted
  reports,              \* the report files
  counted,              \* history: the intervals ever added, by validator
  error                 \* the exception the process went down with

offlineState == <<reported_validators, intervals, offline_time, counted>>
offlineVars == <<skipFeedVars, offlineState, saved_offline, reports, error>>

OfflineInterval == [step: Nat, length: Nat]

FreshOffline == [reported |-> {}, intervals |-> [v \in Validator |-> {}],
                 time |-> [v \in Validator |-> 0],
                 counted |-> [v \in Validator |-> {}]]

OfflineInit ==
  /\ SkipFeedInit
  /\ reported_validators = {}
  /\ intervals = FreshOffline.intervals
  /\ offline_time = FreshOffline.time
  /\ counted = FreshOffline.counted
  /\ saved_offline = FreshOffline
  /\ reports = {}
  /\ error = "none"

-----------------------------------------------------------------------------
\* PrimaryOracle.get_primary, from the list in force at the skip's height.
PrimaryOf(vs, s) == vs[(s % Len(vs)) + 1]

\* An interval of length n stands for n turns, those of all the validators in
\* the list: adding lengths up is counting turns.
Turns(os) == UNION {{o} \X (1..o.length) : o \in os}

TotalLength(os) == Cardinality(Turns(os))

\* Mutant: an interval right at the cutoff is dropped.
RecentShort(os, s) == {o \in os : o.step > s - WindowSize}

\* bisect_right by (cutoff, 0) keeps an interval right at the cutoff.
Recent(os, s) == {o \in os : o.step >= s - WindowSize}

\* Mutant: the time of an interval at the cutoff is taken away while the
\* interval stays, and again when that goes.
KeptTimeAtCutoff(v, s) ==
  offline_time[v] - TotalLength({o \in intervals[v] : o.step <= s - WindowSize})

\* Mutant: cleared intervals still count.
KeptTimeUncleared(v, s) == offline_time[v]

\* _clear_outdated_offline_intervals: what is left of the time of v at step s.
KeptTime(v, s) ==
  offline_time[v] - TotalLength(intervals[v] \ Recent(intervals[v], s))

\* Mutant: a validator may reach the allowed rate.
IsOfflineAtRate(time) == time * SkipsOutOf >= SkipsAllowed * WindowSize

\* Mutant: the time up to the last step is compared, not including it.
IsOfflineByCount(time) == (time - 1) * SkipsOutOf > SkipsAllowed * WindowSize

\* _is_offline: offline_time / offline_window_size > allowed_skip_rate
IsOffline(time) == time * SkipsOutOf > SkipsAllowed * WindowSize

\* Mutant: the interval that makes the validator offline is not reported.
ReportedIntervalsBefore(os, o) == os

ReportedIntervals(os, o) == os \cup {o}

-----------------------------------------------------------------------------
(* Commit and failure.                                                     *)

\* OfflineReporter.state is pickled with the state of the skip reporter.
CommitOffline ==
  /\ PersistSkips
  /\ saved_offline' = [reported |-> reported_validators, intervals |-> intervals,
                       time |-> offline_time, counted |-> counted]
  /\ UNCHANGED <<offlineState, reports, error>>

\* The process goes down; the report files stay.
LoseOffline(e) ==
  /\ Cardinality(reports) <= MaxReports
  /\ ForgetSkips
  /\ reported_validators' = saved_offline.reported
  /\ intervals' = saved_offline.intervals
  /\ offline_time' = saved_offline.time
  /\ counted' = saved_offline.counted
  /\ error' = e
  /\ UNCHANGED <<saved_offline, reports>>

-----------------------------------------------------------------------------
(* A skip is reported.                                                     *)

\* A validator that has been reported is ignored.
IgnoreSkip(p) ==
  /\ Hear(p)
  /\ error' = "none"
  /\ UNCHANGED <<offlineState, saved_offline, reports>>

\* _update_offline_intervals and _is_offline, with the report if it is; the
\* file lists the steps of the intervals.
CountSkip(p, v, length) ==
  LET o == [step |-> p.step, length |-> length]
      kept == [w \in Validator |-> Recent(intervals[w], p.step)]
  IN
  /\ Hear(p)
  /\ offline_time' = [w \in Validator |->
       KeptTime(w, p.step) + IF w = v THEN length ELSE 0]
  /\ counted' = [counted EXCEPT ![v] = @ \cup {o}]
  /\ \/ /\ IsOffline(offline_time'[v])
        /\ reported_validators' = reported_validators \cup {v}
        /\ intervals' = [kept EXCEPT ![v] = {}]
        /\ reports' = reports \cup
             {[validator |-> v, intervals |-> ReportedIntervals(kept[v], o)]}
     \/ /\ ~IsOffline(offline_time'[v])
        /\ intervals' = [kept EXCEPT ![v] = @ \cup {o}]
        /\ UNCHANGED <<reported_validators, reports>>
  /\ error' = "none"
  /\ UNCHANGED saved_offline

\* The assertion of _update_offline_intervals.
InOrder(v, s) == \A o \in Recent(intervals[v], s) : o.step < s

\* The exception that a skip of v makes the reporter raise: the assertion, or
\* the division by a window of size 0.
Raised(v, s) ==
  IF v \in reported_validators THEN "none"
  ELSE IF ~InOrder(v, s) THEN "AssertionError"
  ELSE IF WindowSize = 0 THEN "ZeroDivisionError"
  ELSE "none"

\* OfflineReporter.__call__; an exception ends the process.
HandleSkip(p, vs) ==
  LET v == PrimaryOf(vs, p.step)
      e == Raised(v, p.step)
  IN IF e # "none" THEN LoseOffline(e)
     ELSE IF v \in reported_validators THEN IgnoreSkip(p)
     ELSE CountSkip(p, v, Len(vs))

\* The feed calls it.
CallOfflineReporter(p, vs) == Follows(p) /\ HandleSkip(p, vs)

OfflineNext ==
  \/ \E p \in Proposal, vs \in ValidatorLists : CallOfflineReporter(p, vs)
  \/ CommitOffline
  \/ LoseOffline("none")

OfflineSpec == OfflineInit /\ [][OfflineNext]_offlineVars

-----------------------------------------------------------------------------
(* Properties.                                                             *)

OfflineValues ==
  [reported: SUBSET Validator,
   intervals: [Validator -> SUBSET OfflineInterval],
   time: [Validator -> Nat],
   counted: [Validator -> SUBSET OfflineInterval]]

OfflineTypeOK ==
  /\ [reported |-> reported_validators, intervals |-> intervals,
      time |-> offline_time, counted |-> counted] \in OfflineValues
  /\ saved_offline \in OfflineValues
  /\ reports \in SUBSET [validator: Validator, intervals: SUBSET OfflineInterval]
  /\ error \in {"none", "AssertionError", "ZeroDivisionError"}

\* The time is more than the allowed rate of the window.
Exceeds(time) == time * SkipsOutOf > SkipsAllowed * WindowSize

\* The window that ends with step s, of the intervals os.
WindowAt(os, s) == {o \in os : o.step \in (s - WindowSize)..s}

\* s is the step of the last interval that any validator was given.
IsLastCounted(s) ==
  /\ \E v \in Validator : \E o \in counted[v] : o.step = s
  /\ \A v \in Validator : \A o \in counted[v] : o.step <= s

\* The intervals kept for a validator that has not been reported are its skips
\* in the window of the last skip counted, whoever's that was.
IntervalsAreWindow ==
  \A s \in {p.step : p \in Proposal} :
    IsLastCounted(s) =>
      \A v \in Validator :
        intervals[v] = IF v \in reported_validators THEN {}
                       ELSE WindowAt(counted[v], s)

\* The time that is added to and taken from on the way is their sum.
OfflineTimeIsSum ==
  \A v \in Validator \ reported_validators :
    offline_time[v] = TotalLength(intervals[v])

\* No validator gets away: whoever has not been reported has never been
\* offline for more than the allowed share of a window.
UnreportedWithinRate ==
  \A v \in Validator \ reported_validators :
    \A o \in counted[v] : ~Exceeds(TotalLength(WindowAt(counted[v], o.step)))

\* A reported validator has a file with just the skips that made it offline,
\* although the file is written before the commit and files of cycles that
\* were rolled back are still there.
ReportStands ==
  \A v \in reported_validators :
    \E o \in counted[v] :
      /\ \A u \in counted[v] : u.step <= o.step
      /\ [validator |-> v, intervals |-> WindowAt(counted[v], o.step)] \in reports

\* Every file, also one of a cycle that was rolled back, lists skips within one
\* window that add up to more than the allowed rate of it.
ReportsJustified ==
  \A r \in reports :
    /\ \A o, u \in r.intervals : o.step <= u.step + WindowSize
    /\ Exceeds(TotalLength(r.intervals))

\* No skip makes the reporter fail: neither the order assertion, over restarts
\* and reports, nor the division.  (With a window of at least one step.)
NeverFails == error = "none"

-----------------------------------------------------------------------------
(* Claims of the repository that the code does not live up to.             *)

\* The size of the window is offline_window_size (help of --offline-window):
\* a report takes more than the allowed rate of skips within so many steps.
\* Violated, the window of the code is one step wider.
WindowHasItsSize ==
  \A r \in reports :
    \E u \in r.intervals :
      Exceeds(TotalLength({o \in r.intervals :
                             /\ u.step - WindowSize < o.step
                             /\ o.step <= u.step}))
=============================================================================
