--------------------------- MODULE MonitorProofs ---------------------------
(***************************************************************************)
(* Theorems about Monitor and WholeMonitor, for every tree of blocks, any  *)
(* assignment of steps and proposers, and whatever the node does.  The     *)
(* specifications of the fetcher, the skip reporter and the offline        *)
(* reporter are shown to hold in the composition, so that their theorems   *)
(* can be used.                                                            *)
(***************************************************************************)
EXTENDS WholeMonitor, BlockFetcherProofs

-----------------------------------------------------------------------------
(* The parts of a composed step.                                           *)

\* What a step of the fetcher that is none of the callbacks and not the commit
\* does to the database: it fails, inserts a branch or leaves it alone.
LEMMA FetchCases ==
  ASSUME CycleStep, pc \notin {"callbacks", "commit"}
  PROVE  \/ \E e \in Error : Down(e)
         \/ \E bs : /\ db' = db \cup ToSet(bs)
                    /\ queue' = bs
                    /\ pc' = "callbacks"
                    /\ UNCHANGED <<delivered, saved>>
         \/ UNCHANGED <<db, queue, delivered, saved>> /\ pc' # "down"
  <1>1. ASSUME NEW bs, NEW initial, NEW next, Insert(bs, initial, next)
        PROVE  \/ \E e \in Error : Down(e)
               \/ \E cs : /\ db' = db \cup ToSet(cs)
                          /\ queue' = cs
                          /\ pc' = "callbacks"
                          /\ UNCHANGED <<delivered, saved>>
    BY <1>1, InsertCases
  <1>2. CASE UpdateEpochs \/ ReadTarget \/ FetchForward
    BY <1>2 DEF UpdateEpochs, ReadTarget, FetchForward, memory
  <1>3. CASE ResolveInitialBlock
    BY <1>3 DEF ResolveInitialBlock, Error, memory
  <1>4. CASE ReadLatest
    BY <1>1, <1>4 DEF ReadLatest, memory
  <1>5. CASE FetchSafeBlock
    BY <1>1, <1>5 DEF FetchSafeBlock, Error
  <1>6. CASE InsertForward
    BY <1>1, <1>6 DEF InsertForward, memory, locals
  <1>7. CASE FetchBranchHead
    BY <1>7 DEF FetchBranchHead, Error, memory, locals
  <1>8. CASE FetchParent
    BY <1>8 DEF FetchParent, Error
  <1>9. CASE InsertBackward
    BY <1>1, <1>9 DEF InsertBackward, memory, locals
  <1>10. ~RunCallback /\ ~Commit
    BY DEF RunCallback, Commit
  <1> QED BY <1>2, <1>3, <1>4, <1>5, <1>6, <1>7, <1>8, <1>9, <1>10 DEF CycleStep

\* The composition adds no step to the fetcher, nor leaves one unaccounted.
LEMMA StepFetches == [MonitorNext]_monitorVars => [Next]_vars
  <1> SUFFICES ASSUME [MonitorNext]_monitorVars PROVE [Next]_vars
    OBVIOUS
  <1>1. CASE FetchStep
    BY <1>1 DEF FetchStep, Next
  <1>2. CASE RunSkipReporter
    BY <1>2 DEF RunSkipReporter, Next, CycleStep
  <1>3. ASSUME NEW e, ReporterFails(e) PROVE Next
    BY <1>3 DEF ReporterFails, Next
  <1>4. CASE \E p \in missed : RunSkipCallbacks(p)
    BY <1>3, <1>4 DEF RunSkipCallbacks
  <1>5. CASE RunEquivocationReporter
    BY <1>3, <1>5 DEF RunEquivocationReporter
  <1>6. CASE \E b \in unread : LogEquivocation(b)
    BY <1>3, <1>6 DEF LogEquivocation
  <1>7. CASE FlushCycle
    BY <1>7 DEF FlushCycle
  <1>8. CASE CommitCycle
    BY <1>8 DEF CommitCycle, Next, CycleStep
  <1>9. CASE StopProcess \/ StartProcess
    BY <1>9 DEF StopProcess, StartProcess, Next
  <1>10. CASE MonitorNode
    BY <1>10 DEF MonitorNode, Next, NodeStep, ChainNext
  <1>11. CASE UNCHANGED monitorVars
    BY <1>11 DEF monitorVars
  <1> QED BY <1>1, <1>2, <1>4, <1>5, <1>6, <1>7, <1>8, <1>9, <1>10, <1>11
      DEF MonitorNext, MonitorStep

\* The block fetcher behaves with its reporters as it does on its own: all
\* theorems about Spec hold of the whole monitor.
THEOREM MonitorRefinesFetcher == MonitorSpec => Spec
  <1>1. MonitorInit => Init
    BY DEF MonitorInit
  <1> QED BY <1>1, StepFetches, PTL DEF MonitorSpec, Spec

\* What is proved about the fetcher holds in the monitor.
LEMMA MonitorShapes == MonitorSpec => [](TypeInv /\ ShapeInv)
  BY MonitorRefinesFetcher, ShapesHold, PTL

\* Every step of the monitor is one of the skip reporter or leaves it alone.
LEMMA StepSkips ==
  TypeInv /\ [MonitorNext]_monitorVars => [Skips!SkipNext]_(Skips!skipVars)
  <1> SUFFICES ASSUME TypeInv, [MonitorNext]_monitorVars
               PROVE  [Skips!SkipNext]_(Skips!skipVars)
    OBVIOUS
  <1>u. ASSUME UNCHANGED <<delivered, saved>>, UNCHANGED skipReporterVars
        PROVE  UNCHANGED Skips!skipVars
    BY <1>u DEF skipReporterVars, Skips!skipVars, Skips!feedVars, Skips!skipState,
                Skips!fileState
  <1>l. LoseReporters => Skips!SkipNext
    BY DEF LoseReporters, Skips!SkipNext
  <1>f. ASSUME NEW e, ReporterFails(e) PROVE Skips!SkipNext
    BY <1>l, <1>f DEF ReporterFails
  <1>v. /\ UNCHANGED vars => UNCHANGED <<delivered, saved>>
        /\ UNCHANGED fetcherVars => UNCHANGED <<delivered, saved>>
        /\ UNCHANGED reporterVars => UNCHANGED skipReporterVars
    BY DEF vars, fetcherVars, memory, reporterVars
  <1>1. CASE FetchStep
    <2>1. CASE pc' = "down"
      BY <1>1, <1>l, <2>1 DEF FetchStep
    <2>2. CASE pc' # "down"
      <3>1. UNCHANGED <<delivered, saved>>
        BY <1>1, <2>2, FetchCases DEF FetchStep, Down
      <3> QED BY <1>1, <1>u, <1>v, <2>2, <3>1 DEF FetchStep
    <2> QED BY <2>1, <2>2
  <1>2. CASE RunSkipReporter
    <2>1. Head(queue) \in Block
      <3>1. queue \in Seq(Block) /\ queue # <<>>
        BY <1>2 DEF TypeInv, TypeOK, RunSkipReporter, RunCallback
      <3> QED BY <3>1, HeadTailProperties
    <2> QED BY <1>2, <2>1 DEF RunSkipReporter, Skips!SkipNext
  <1>3. CASE \E p \in missed : RunSkipCallbacks(p)
    BY <1>3, <1>f DEF RunSkipCallbacks, Skips!SkipNext
  <1>4. CASE RunEquivocationReporter
    BY <1>4, <1>f, <1>u, <1>v DEF RunEquivocationReporter
  <1>5. CASE \E b \in unread : LogEquivocation(b)
    BY <1>5, <1>f, <1>u, <1>v DEF LogEquivocation
  <1>6. CASE FlushCycle
    BY <1>6 DEF FlushCycle, Skips!SkipNext
  <1>7. CASE CommitCycle
    BY <1>7 DEF CommitCycle, Skips!SkipNext
  <1>8. CASE StopProcess
    BY <1>8, <1>l DEF StopProcess
  <1>9. CASE StartProcess
    BY <1>9, <1>u, <1>v DEF StartProcess, Restart, memory
  <1>10. CASE MonitorNode
    BY <1>10, <1>u, <1>v DEF MonitorNode
  <1>11. CASE UNCHANGED monitorVars
    BY <1>11, <1>u, <1>v DEF monitorVars
  <1> QED BY <1>1, <1>2, <1>3, <1>4, <1>5, <1>6, <1>7, <1>8, <1>9, <1>10, <1>11
      DEF MonitorNext, MonitorStep

\* So does the skip reporter, which the fetcher feeds and commits or rolls back
\* with its own state: all theorems about SkipSpec hold of the whole monitor.
THEOREM MonitorRefinesSkipReporter == MonitorSpec => Skips!SkipSpec
  <1>1. MonitorInit => Skips!SkipInit
    BY DEF MonitorInit
  <1> QED BY <1>1, StepSkips, MonitorShapes, PTL DEF MonitorSpec, Skips!SkipSpec

-----------------------------------------------------------------------------
(* What a reporter's exception, a kill and a failing fetch have in common. *)

Falls(e) == Down(e) /\ LoseReporters

\* Where each step of the monitor leaves the variables the equivocation
\* reports depend on.
Quiet == UNCHANGED <<db, queue, saved, due, equivocationVars>>

FetchInserts ==
  /\ Idle /\ pc # "callbacks"
  /\ UNCHANGED <<saved, due, equivocationVars>>
  /\ db' = db \cup ToSet(queue')

Calls ==
  /\ Idle
  /\ queue # <<>>
  /\ due' = Head(queue)
  /\ queue' = Tail(queue)
  /\ UNCHANGED <<db, saved, equivocationVars>>

Looks ==
  /\ due # None
  /\ due \in db
  /\ CallEquivocationReporter(due, db)
  /\ due' = None
  /\ UNCHANGED <<db, queue, saved>>

Reads ==
  /\ \E b \in unread : ReadEquivocated(b)
  /\ UNCHANGED <<db, queue, saved, due>>

Commits ==
  /\ Idle /\ pc = "commit"
  /\ saved'.db = db
  /\ queue' = <<>>
  /\ UNCHANGED <<db, due, equivocationVars>>

\* What a step does to the log of equivocations.
LEMMA ReportCases ==
  ASSUME [MonitorNext]_monitorVars
  PROVE  \/ \E e : Falls(e)
         \/ Quiet \/ FetchInserts \/ Calls \/ Looks \/ Reads \/ Commits
  <1>1. CASE FetchStep
    <2>1. CASE pc' = "down"
      <3>1. \E e \in Error : Down(e)
        BY <1>1, <2>1, FetchCases DEF FetchStep
      <3> QED BY <1>1, <2>1, <3>1 DEF FetchStep, Falls
    <2>2. CASE pc' # "down"
      <3>1. UNCHANGED <<due, equivocationVars>>
        BY <1>1, <2>2 DEF FetchStep, reporterVars
      <3> QED BY <1>1, <2>2, <3>1, FetchCases
          DEF FetchStep, Down, FetchInserts, Quiet
    <2> QED BY <2>1, <2>2
  <1>2. CASE RunSkipReporter
    BY <1>2 DEF RunSkipReporter, RunCallback, Calls
  <1>f. ASSUME NEW e, ReporterFails(e) PROVE \E x : Falls(x)
    BY <1>f DEF ReporterFails, Kill, Falls
  <1>q. ASSUME UNCHANGED <<vars, equivocationVars, due>> PROVE Quiet
    BY <1>q DEF Quiet, vars, fetcherVars, memory, locals
  <1>3. CASE \E p \in missed : RunSkipCallbacks(p)
    BY <1>3, <1>f, <1>q DEF RunSkipCallbacks
  <1>4. CASE RunEquivocationReporter
    BY <1>4, <1>f
    DEF RunEquivocationReporter, Looks, vars, fetcherVars, memory, locals
  <1>5. CASE \E b \in unread : LogEquivocation(b)
    BY <1>5, <1>f DEF LogEquivocation, Reads, vars, fetcherVars, memory, locals
  <1>6. CASE FlushCycle
    BY <1>6, <1>q DEF FlushCycle
  <1>7. CASE CommitCycle
    BY <1>7 DEF CommitCycle, Commit, LocalsReset, memory, Commits
  <1>8. CASE StopProcess
    BY <1>8 DEF StopProcess, Kill, Falls
  <1>9. CASE StartProcess
    BY <1>9 DEF StartProcess, Restart, memory, locals, reporterVars, Quiet
  <1>10. CASE MonitorNode
    BY <1>10 DEF MonitorNode, fetcherVars, memory, locals, reporterVars, Quiet
  <1>11. CASE UNCHANGED monitorVars
    BY <1>11, <1>q DEF monitorVars, reporterVars
  <1> QED BY <1>1, <1>2, <1>3, <1>4, <1>5, <1>6, <1>7, <1>8, <1>9, <1>10, <1>11
      DEF MonitorNext, MonitorStep

-----------------------------------------------------------------------------
(* Every report proves an equivocation.                                    *)

Alike(blocks) ==
  \A b, c \in blocks : proposer[b] = proposer[c] /\ step[b] = step[c]

ProofInv == Alike(equivocated) /\ ReportsProve

\* A proof is taken from blocks that are alike.
LEMMA ProofStep == ProofInv /\ [MonitorNext]_monitorVars => ProofInv'
  <1> SUFFICES ASSUME ProofInv, [MonitorNext]_monitorVars PROVE ProofInv'
    OBVIOUS
  <1>1. CASE UNCHANGED equivocationVars
    BY <1>1 DEF ProofInv, ReportsProve, Alike, equivocationVars
  <1>2. CASE \E e : Falls(e)
    BY <1>2 DEF Falls, LoseReporters, LoseEquivocated, ProofInv, ReportsProve, Alike
  <1>3. CASE Looks
    BY <1>3 DEF Looks, CallEquivocationReporter, SameProposerAndStep, ProofInv,
                ReportsProve, Alike
  <1>4. CASE Reads
    <2>1. CASE UNCHANGED <<equivocated, equivocation_reports>>
      BY <2>1 DEF ProofInv, ReportsProve, Alike
    <2>2. CASE ~UNCHANGED <<equivocated, equivocation_reports>>
      <3>1. PICK c \in equivocated, d \in equivocated :
              /\ c # d
              /\ equivocation_reports' = equivocation_reports \cup
                   {[blocks |-> equivocated, proof |-> {c, d}]}
        BY <1>4, <2>2 DEF Reads, ReadEquivocated
      <3>2. equivocated' = {}
        BY <1>4, <2>2 DEF Reads, ReadEquivocated
      <3>3. Equivocate(c, d)
        BY <3>1 DEF Equivocate, ProofInv, Alike
      <3>4. ReportsProve'
        BY <3>1, <3>3 DEF ReportsProve, ProofInv, Equivocate
      <3> QED BY <3>2, <3>4 DEF ProofInv, Alike
    <2> QED BY <2>1, <2>2
  <1> QED BY <1>1, <1>2, <1>3, <1>4, ReportCases
      DEF Quiet, FetchInserts, Calls, Commits

\* Whatever is reported, also by a cycle that is rolled back afterwards, is an
\* equivocation, and the two headers of the report prove it.
THEOREM ReportsProveHolds == MonitorSpec => []ReportsProve
  <1>1. MonitorInit => ProofInv
    BY DEF MonitorInit, EquivocationInit, ProofInv, Alike, ReportsProve
  <1>2. ProofInv => ReportsProve
    BY DEF ProofInv
  <1> QED BY <1>1, <1>2, ProofStep, PTL DEF MonitorSpec

-----------------------------------------------------------------------------
(* Every equivocation is on file.  What is stored is reported, or a block  *)
(* of it has yet to be reported on; the commit waits for all of them.      *)

OnFile(blocks, files) == \E r \in files : r.blocks = blocks

\* A callback for one of the blocks is to come.
Awaited(blocks, q, d) == \E c \in blocks : c \in ToSet(q) \/ c = d

StoredInv ==
  \A b \in db :
    LET found == SameProposerAndStep(b, db) IN
    Several(found) => OnFile(found, equivocation_reports) \/ equivocated = found \/ Awaited(found, queue, due)

LogInv ==
  /\ unread \subseteq equivocated
  /\ unread = {} => equivocated = {}
  /\ due # None => unread = {} /\ due \in db
  /\ equivocated \subseteq db

FiledInv == LogInv /\ StoredInv /\ EquivocationsOnFile

\* The callbacks take the queue's first block.
LEMMA QueueSplits ==
  ASSUME NEW q \in Seq(Block), q # <<>>
  PROVE  ToSet(q) = {Head(q)} \cup ToSet(Tail(q))
  <1> DEFINE t == Tail(q)
  <1>1. /\ Head(q) = q[1] /\ t \in Seq(Block) /\ Len(t) = Len(q) - 1
        /\ Len(q) \in Nat \ {0}
        /\ \A i \in 1..Len(t) : t[i] = q[i + 1]
    BY HeadTailProperties, EmptySeq, LenProperties
  <1>2. DOMAIN q = 1..Len(q) /\ DOMAIN t = 1..Len(t)
    BY <1>1, LenProperties
  <1> HIDE DEF t
  <1>3. ToSet(q) = {q[i] : i \in 1..Len(q)} /\ ToSet(t) = {t[i] : i \in 1..Len(t)}
    BY <1>2 DEF ToSet
  <1>4. ASSUME NEW x \in ToSet(q) PROVE x \in {Head(q)} \cup ToSet(t)
    <2>1. PICK i \in 1..Len(q) : x = q[i]
      BY <1>3, <1>4
    <2>2. i = 1 \/ (i - 1 \in 1..Len(t) /\ t[i - 1] = q[i])
      BY <1>1
    <2> QED BY <1>1, <1>3, <2>1, <2>2
  <1>5. ASSUME NEW x \in {Head(q)} \cup ToSet(t) PROVE x \in ToSet(q)
    <2>1. 1 \in 1..Len(q) /\ \A i \in 1..Len(t) : i + 1 \in 1..Len(q)
      BY <1>1
    <2> QED BY <1>1, <1>3, <1>5, <2>1
  <1> QED BY <1>4, <1>5 DEF t

\* A report is written once all of its blocks have been read.
LEMMA LogStep ==
  TypeInv /\ ShapeInv /\ LogInv /\ [MonitorNext]_monitorVars => LogInv'
  <1> SUFFICES ASSUME TypeInv, ShapeInv, LogInv, [MonitorNext]_monitorVars
               PROVE  LogInv'
    OBVIOUS
  <1>1. CASE Quiet
    BY <1>1 DEF Quiet, LogInv, equivocationVars
  <1>2. CASE \E e : Falls(e)
    BY <1>2 DEF Falls, LoseReporters, LoseEquivocated, LogInv
  <1>3. CASE FetchInserts
    BY <1>3 DEF FetchInserts, LogInv, equivocationVars
  <1>4. CASE Calls
    <2>1. Head(queue) \in ToSet(queue)
      <3>1. queue \in Seq(Block) /\ queue # <<>>
        BY <1>4 DEF Calls, TypeInv, TypeOK
      <3>2. Head(queue) = queue[1] /\ 1 \in DOMAIN queue
        BY <3>1, EmptySeq, LenProperties
      <3> QED BY <3>2 DEF ToSet
    <2>2. Head(queue) \in db
      BY <2>1 DEF ShapeInv, MemoryShape, DeliveryShape
    <2> QED BY <1>4, <2>2 DEF Calls, Idle, LogInv, equivocationVars
  <1>5. CASE Looks
    BY <1>5 DEF Looks, CallEquivocationReporter, SameProposerAndStep, LogInv
  <1>6. CASE Reads
    BY <1>6 DEF Reads, ReadEquivocated, LogInv
  <1>7. CASE Commits
    BY <1>7 DEF Commits, LogInv, equivocationVars
  <1> QED BY <1>1, <1>2, <1>3, <1>4, <1>5, <1>6, <1>7, ReportCases

\* A stored equivocation is on file, being logged, or its block is still to come.
LEMMA StoredStep ==
  TypeInv /\ ShapeInv /\ FiledInv /\ [MonitorNext]_monitorVars => StoredInv'
  <1> SUFFICES ASSUME TypeInv, ShapeInv, FiledInv, [MonitorNext]_monitorVars,
                      NEW b \in db', Several(SameProposerAndStep(b, db'))
               PROVE  \/ OnFile(SameProposerAndStep(b, db'), equivocation_reports')
                      \/ equivocated' = SameProposerAndStep(b, db')
                      \/ Awaited(SameProposerAndStep(b, db'), queue', due')
    BY DEF StoredInv
  <1> DEFINE found == SameProposerAndStep(b, db')
  <1> SUFFICES \/ OnFile(found, equivocation_reports')
               \/ equivocated' = found
               \/ Awaited(found, queue', due')
    OBVIOUS
  <1>0. b \in found /\ found \subseteq db'
    BY DEF SameProposerAndStep
  <1>s. db' = db => \/ OnFile(found, equivocation_reports)
                    \/ equivocated = found
                    \/ Awaited(found, queue, due)
    BY DEF FiledInv, StoredInv
  <1>i. Idle => due = None /\ equivocated = {} /\ equivocated # found
    BY <1>0 DEF Idle, FiledInv, LogInv
  <1> HIDE DEF found
  <1>n. None \notin Block /\ db \subseteq Block
    BY ChainAssumption DEF TypeInv, TypeOK
  <1>k. /\ equivocation_reports \subseteq equivocation_reports'
        /\ OnFile(found, equivocation_reports)
        => OnFile(found, equivocation_reports')
    BY DEF OnFile
  <1>1. CASE Quiet
    BY <1>1, <1>s DEF Quiet, equivocationVars, OnFile, Awaited
  <1>2. CASE \E e : Falls(e)
    <2>1. /\ db' = saved.db /\ equivocation_reports' = equivocation_reports
      BY <1>2 DEF Falls, Down, LoseReporters, LoseEquivocated
    <2>2. OnFile(found, equivocation_reports)
      BY <2>1 DEF FiledInv, EquivocationsOnFile, OnFile, found
    <2> QED BY <2>1, <2>2, <1>k
  <1>3. CASE FetchInserts
    <2>1. queue = <<>> /\ ToSet(queue) = {}
      <3>1. ToSet(<<>>) = {}
        BY DEF ToSet
      <3> QED BY <1>3, <3>1 DEF FetchInserts, ShapeInv, CycleShape
    <2>2. CASE found \cap ToSet(queue') # {}
      BY <2>2 DEF Awaited
    <2>3. CASE found \cap ToSet(queue') = {}
      <3>1. b \in db /\ found = SameProposerAndStep(b, db)
        BY <1>0, <1>3, <2>3 DEF FetchInserts, SameProposerAndStep, found
      <3>2. Several(found)
        BY DEF found
      <3>3. OnFile(found, equivocation_reports) \/ equivocated = found \/ Awaited(found, queue, due)
        BY <3>1, <3>2 DEF FiledInv, StoredInv
      <3>4. ~Awaited(found, queue, due)
        BY <3>1, <2>1, <1>i, <1>3, <1>n DEF Awaited, FetchInserts, SameProposerAndStep
      <3> QED BY <3>3, <3>4, <1>i, <1>k, <1>3 DEF FetchInserts, equivocationVars
    <2> QED BY <2>2, <2>3
  <1>4. CASE Calls
    <2>1. ToSet(queue) = {Head(queue)} \cup ToSet(Tail(queue))
      BY <1>4, QueueSplits DEF Calls, TypeInv, TypeOK
    <2>2. db' = db /\ due' = Head(queue) /\ queue' = Tail(queue)
          /\ UNCHANGED equivocationVars
      BY <1>4 DEF Calls
    <2>3. Awaited(found, queue, due) => Awaited(found, queue', due')
      BY <1>4, <1>0, <1>i, <1>n, <2>1, <2>2 DEF Awaited, Calls
    <2> QED BY <1>s, <1>k, <2>2, <2>3 DEF equivocationVars
  <1>5. CASE Looks
    <2>1. db' = db /\ equivocated = {} /\ equivocated # found
      BY <1>5, <1>0 DEF Looks, FiledInv, LogInv
    <2>2. CASE due \in found
      <3>1. found = SameProposerAndStep(due, db)
        BY <2>1, <2>2 DEF found, SameProposerAndStep
      <3>2. Several(SameProposerAndStep(due, db))
        BY <3>1 DEF found
      <3> QED BY <1>5, <3>1, <3>2 DEF Looks, CallEquivocationReporter
    <2>3. CASE due \notin found
      <3>1. UNCHANGED <<queue, equivocation_reports>>
        BY <1>5 DEF Looks, CallEquivocationReporter
      <3>2. Awaited(found, queue, due) => Awaited(found, queue', due')
        BY <2>3, <3>1 DEF Awaited
      <3> QED BY <1>s, <1>k, <2>1, <3>1, <3>2
    <2> QED BY <2>2, <2>3
  <1>6. CASE Reads
    <2>1. UNCHANGED <<db, queue, due>>
      BY <1>6 DEF Reads
    <2>2. Awaited(found, queue, due) => Awaited(found, queue', due')
      BY <2>1 DEF Awaited
    <2>3. equivocation_reports \subseteq equivocation_reports'
      BY <1>6 DEF Reads, ReadEquivocated
    <2>4. ASSUME equivocated = found
          PROVE  OnFile(found, equivocation_reports') \/ equivocated' = found
      <3>1. CASE UNCHANGED equivocated
        BY <2>4, <3>1
      <3>2. CASE ~UNCHANGED equivocated
        <4>1. PICK c \in equivocated, d \in equivocated :
                equivocation_reports' = equivocation_reports \cup
                  {[blocks |-> equivocated, proof |-> {c, d}]}
          BY <1>6, <3>2 DEF Reads, ReadEquivocated
        <4> DEFINE r == [blocks |-> equivocated, proof |-> {c, d}]
        <4>2. r \in equivocation_reports' /\ r.blocks = found
          BY <2>4, <4>1
        <4> QED BY <4>2 DEF OnFile
      <3> QED BY <3>1, <3>2
    <2> QED BY <1>s, <1>k, <2>1, <2>2, <2>3, <2>4
  <1>7. CASE Commits
    <2>1. queue = <<>> /\ ToSet(queue) = {}
      <3>1. ToSet(<<>>) = {}
        BY DEF ToSet
      <3> QED BY <1>7, <3>1 DEF Commits, ShapeInv, CycleShape
    <2>2. db' = db /\ UNCHANGED equivocationVars
      BY <1>7 DEF Commits
    <2>3. ~Awaited(found, queue, due)
      BY <1>7, <1>0, <1>i, <1>n, <2>1, <2>2 DEF Awaited, Commits
    <2> QED BY <1>s, <1>k, <1>7, <1>i, <2>2, <2>3 DEF equivocationVars, Commits
  <1> QED BY <1>1, <1>2, <1>3, <1>4, <1>5, <1>6, <1>7, ReportCases DEF found

\* At the commit nothing is being logged or still to come.
LEMMA CommittedStep ==
  TypeInv /\ ShapeInv /\ FiledInv /\ [MonitorNext]_monitorVars
    => EquivocationsOnFile'
  <1> SUFFICES ASSUME TypeInv, ShapeInv, FiledInv, [MonitorNext]_monitorVars,
                      NEW b \in saved'.db,
                      Several(SameProposerAndStep(b, saved'.db))
               PROVE  OnFile(SameProposerAndStep(b, saved'.db), equivocation_reports')
    BY DEF EquivocationsOnFile, OnFile
  <1>1. CASE saved' = saved /\ equivocation_reports \subseteq equivocation_reports'
    BY <1>1 DEF FiledInv, EquivocationsOnFile, OnFile
  <1>2. CASE Commits
    <2> DEFINE found == SameProposerAndStep(b, db)
    <2>1. queue = <<>> /\ ToSet(queue) = {}
      <3>1. ToSet(<<>>) = {}
        BY DEF ToSet
      <3> QED BY <1>2, <3>1 DEF Commits, ShapeInv, CycleShape
    <2>2. saved'.db = db /\ due = None /\ equivocated = {}
      BY <1>2 DEF Commits, Idle, FiledInv, LogInv
    <2>3. b \in found /\ found \subseteq db /\ None \notin db
      BY <2>2, ChainAssumption DEF SameProposerAndStep, TypeInv, TypeOK
    <2>4. OnFile(found, equivocation_reports) \/ equivocated = found \/ Awaited(found, queue, due)
      BY <2>2 DEF FiledInv, StoredInv
    <2>5. OnFile(found, equivocation_reports)
      BY <2>1, <2>2, <2>3, <2>4 DEF Awaited
    <2> QED BY <1>2, <2>2, <2>5 DEF Commits, equivocationVars, OnFile
  <1>3. CASE \E e : Falls(e)
    BY <1>1, <1>3 DEF Falls, Down, LoseReporters, LoseEquivocated
  <1>4. CASE Quiet \/ FetchInserts \/ Calls
    BY <1>1, <1>4 DEF Quiet, FetchInserts, Calls, equivocationVars
  <1>5. CASE Looks \/ Reads
    BY <1>1, <1>5 DEF Looks, CallEquivocationReporter, Reads, ReadEquivocated
  <1> QED BY <1>2, <1>3, <1>4, <1>5, ReportCases

\* So what is committed is on file.
LEMMA FiledHolds == MonitorSpec => []FiledInv
  <1>1. MonitorInit => FiledInv
    BY DEF MonitorInit, Init, FetcherInit, FreshState, EquivocationInit, FiledInv,
           LogInv, StoredInv, EquivocationsOnFile
  <1>2. TypeInv /\ ShapeInv /\ FiledInv /\ [MonitorNext]_monitorVars => FiledInv'
    BY LogStep, StoredStep, CommittedStep DEF FiledInv
  <1> QED BY <1>1, <1>2, MonitorShapes, PTL DEF MonitorSpec

\* The blocks of an equivocation come from different forks, are stored in
\* different cycles, perhaps of different processes, and all are stored before
\* the first of them is reported on: still no cycle is committed without the
\* report.
THEOREM EquivocationsOnFileHolds == MonitorSpec => []EquivocationsOnFile
  <1>1. FiledInv => EquivocationsOnFile
    BY DEF FiledInv
  <1> QED BY <1>1, FiledHolds, PTL

-----------------------------------------------------------------------------
(* No reporter fails without a reset of the node: all blocks the monitor   *)
(* holds are served by the node, none above its tip (FetchedInv), and no   *)
(* block or open proposal is above the height that the cycle knows the     *)
(* validators for.                                                         *)

\* Open proposals have the height of a block that the node has had.
OpenInv ==
  /\ \A p \in open_skipped_proposals \cup saved_skips.open_skipped_proposals :
       p.block_height \in Nat /\ p.block_height <= number[tip]
  /\ missed \subseteq open_skipped_proposals
  /\ missed # {} => pc \notin {"down", "epochs"}
  /\ delivered = <<>> => latest_step = 0
  /\ saved.delivered = <<>> => saved_skips.latest_step = 0

\* In a cycle, none is above the height whose validators are known.  The one
\* exception among the blocks is the first one of all, which opens nothing.
QueueKnown ==
  \/ \A b \in ToSet(queue) : number[b] <= max_block_height
  \/ latest_step = 0 /\ Len(queue) = 1

HeightInv ==
  pc \notin {"down", "epochs"} =>
    /\ \A p \in open_skipped_proposals : p.block_height <= max_block_height
    /\ \A b \in ToSet(current_branch) : number[b] <= max_block_height
    /\ QueueKnown
    /\ pc = "forward" =>
         /\ target <= max_block_height
         /\ \A b \in ToSet(batch) : number[b] <= max_block_height

\* An inserted branch has only known heights, or is the first block.
LEMMA InsertHeights ==
  ASSUME HeightInv, UNCHANGED <<open_skipped_proposals, latest_step>>,
         pc \notin {"down", "epochs"},
         NEW bs, NEW initial, NEW next, Insert(bs, initial, next), pc' # "down",
         \/ \A b \in ToSet(bs) : number[b] <= max_block_height
         \/ latest_step = 0 /\ Len(bs) = 1
  PROVE  HeightInv'
  <1>1. \A e : ~Down(e)
    BY DEF Down
  <1> QED BY <1>1, EmptySet DEF Insert, HeightInv, QueueKnown

\* A cycle fetches no block above the height its epochs are known for.
LEMMA FetchHeights ==
  ASSUME TypeInv, ShapeInv, FetchedInv, OpenInv, HeightInv,
         CycleStep, pc \notin {"callbacks", "commit"}, pc' # "down",
         UNCHANGED <<open_skipped_proposals, latest_step>>
  PROVE  HeightInv'
  <1>d. \A e : ~Down(e)
    BY DEF Down
  <1>q. queue = <<>> /\ ToSet(queue) = {}
    BY EmptySet DEF ShapeInv, CycleShape
  <1>t. /\ current_branch \in Seq(Block) /\ batch \in Seq(Block)
        /\ max_block_height \in Nat /\ served \subseteq Block
        /\ \A b \in Block : number[b] \in Nat
    BY ChainAssumption DEF TypeInv, TypeOK, ChainTypeOK
  <1>f. db = {} => delivered = <<>> /\ latest_step = 0
    <2>1. db = {} => ToSet(delivered) = {}
      BY DEF ShapeInv, MemoryShape, DeliveryShape
    <2>2. delivered # <<>> => delivered[1] \in ToSet(delivered)
      <3>1. delivered \in Seq(Block)
        BY DEF TypeInv, TypeOK
      <3>2. delivered # <<>> => 1 \in DOMAIN delivered
        BY <3>1, EmptySeq, LenProperties
      <3> QED BY <3>2 DEF ToSet
    <2> QED BY <2>1, <2>2 DEF OpenInv
  <1>1. CASE UpdateEpochs
    <2>1. /\ max_block_height' = number[tip]
          /\ pc' # "forward" /\ UNCHANGED <<queue, current_branch>>
      BY <1>1 DEF UpdateEpochs, memory
    <2>2. \A b \in ToSet(current_branch) : number[b] <= number[tip]
      BY DEF FetchedInv
    <2> QED BY <2>1, <2>2, <1>q DEF HeightInv, QueueKnown, OpenInv
  <1>2. CASE ResolveInitialBlock
    BY <1>2, <1>d DEF ResolveInitialBlock, memory, HeightInv, QueueKnown
  <1>3. CASE ReadLatest
    <2>1. CASE number[initial_block] > FinalHeight
      BY <1>3, <2>1 DEF ReadLatest, memory, HeightInv, QueueKnown
    <2>2. CASE ~(number[initial_block] > FinalHeight)
      <3>1. latest_step = 0 /\ Len(<<initial_block>>) = 1
        BY <1>3, <1>f DEF ReadLatest, ShapeInv, CycleShape
      <3> QED BY <1>3, <2>2, <3>1, InsertHeights DEF ReadLatest
    <2> QED BY <2>1, <2>2
  <1>4. CASE FetchSafeBlock
    <2>1. latest_step = 0 /\ Len(<<BlockAt(safe)>>) = 1
      BY <1>4, <1>f DEF FetchSafeBlock, ShapeInv, CycleShape
    <2> QED BY <1>4, <1>d, <2>1, InsertHeights DEF FetchSafeBlock
  <1>5. CASE ReadTarget
    <2>1. target' <= max_block_height /\ ToSet(batch) = {}
      <3>1. FinalHeight \in Int
        BY <1>t, FetcherAssumption
        DEF FinalHeight, Larger, TypeInv, TypeOK, ChainTypeOK
      <3>2. batch = <<>>
        BY <1>5 DEF ReadTarget, ShapeInv, CycleShape
      <3> QED BY <1>5, <1>t, <3>1, <3>2, EmptySet DEF ReadTarget, Smaller
    <2> QED BY <1>5, <2>1 DEF ReadTarget, memory, HeightInv, QueueKnown
  <1>6. CASE FetchForward
    <2> DEFINE b == BlockAt(NextForward)
    <2>1. /\ b \in Block /\ number[b] = NextForward
      BY <1>6, BlockAtNumber DEF FetchForward, ForwardDone, TypeInv, TypeOK
    <2>2. number[b] <= max_block_height
      <3>1. ~(NextForward > target) /\ target <= max_block_height
        BY <1>6 DEF FetchForward, ForwardDone, HeightInv
      <3>2. NextForward \in Nat /\ target \in Nat
        BY <2>1, <1>t DEF TypeInv, TypeOK
      <3> QED BY <1>t, <2>1, <3>1, <3>2
    <2>3. ToSet(batch') = ToSet(batch) \cup {b}
      BY <1>6, <1>t, <2>1, AppendSet DEF FetchForward
    <2> HIDE DEF b
    <2> QED BY <1>6, <2>2, <2>3 DEF FetchForward, memory, HeightInv, QueueKnown
  <1>7. CASE InsertForward
    <2>1. CASE batch = <<>>
      BY <1>7, <2>1 DEF InsertForward, memory, locals, HeightInv, QueueKnown
    <2>2. CASE batch # <<>>
      BY <1>7, <2>2, InsertHeights DEF InsertForward, HeightInv
    <2> QED BY <2>1, <2>2
  <1>8. CASE FetchBranchHead
    <2> DEFINE b == BlockAt(max_block_height)
    <2>1. CASE UNCHANGED current_branch
      BY <1>8, <1>d, <2>1 DEF FetchBranchHead, memory, locals, HeightInv, QueueKnown
    <2>2. CASE ~UNCHANGED current_branch
      <3>1. b # None /\ current_branch' = <<b>> /\ pc' = "parents" /\ pc = "branch"
            /\ UNCHANGED <<max_block_height, queue>>
        BY <1>8, <1>d, <2>2 DEF FetchBranchHead, memory
      <3>2. number[b] = max_block_height
        BY <3>1, BlockAtNumber DEF TypeInv, TypeOK
      <3>3. ToSet(current_branch') = {b}
        BY <3>1 DEF ToSet
      <3> HIDE DEF b
      <3>4. \A c \in ToSet(current_branch') : number[c] <= max_block_height
        BY <1>t, <3>2, <3>3
      <3> QED BY <3>1, <3>4 DEF HeightInv, QueueKnown
    <2> QED BY <2>1, <2>2
  <1>9. CASE FetchParent
    <2> DEFINE l == Last(current_branch)
               p == BlockByHash(parent[l])
    <2>1. /\ p # None /\ current_branch' = Append(current_branch, p)
          /\ pc' = pc /\ pc = "parents"
          /\ UNCHANGED <<max_block_height, queue>>
      BY <1>9, <1>d DEF FetchParent
    <2>2. p \in Block /\ p = parent[l]
      BY <2>1, BlockByHashType DEF TypeInv, TypeOK
    <2>3. l \in ToSet(current_branch) /\ l \in Block
      BY <1>t, <2>1, LastInSet DEF TypeInv, Control
    <2>4. number[p] = number[l] - 1
      BY <2>2, <2>3, ParentNumber
    <2>5. number[l] <= max_block_height
      BY <2>1, <2>3 DEF HeightInv
    <2>6. ToSet(current_branch') = ToSet(current_branch) \cup {p}
      BY <1>t, <2>1, <2>2, AppendSet
    <2>7. number[p] <= max_block_height
      BY <1>t, <2>2, <2>3, <2>4, <2>5
    <2> HIDE DEF p, l
    <2> QED BY <2>1, <2>6, <2>7 DEF HeightInv, QueueKnown
  <1>10. CASE InsertBackward
    <2>1. CASE BranchComplete
      <3>1. \A b \in ToSet(Reverse(current_branch)) : number[b] <= max_block_height
        BY <1>10, <1>t, ReverseSet DEF InsertBackward, HeightInv
      <3> QED BY <1>10, <2>1, <3>1, InsertHeights DEF InsertBackward
    <2>2. CASE ~BranchComplete
      BY <1>10, <2>2 DEF InsertBackward, memory, locals, HeightInv, QueueKnown
    <2> QED BY <2>1, <2>2
  <1>11. ~RunCallback /\ ~Commit
    BY DEF RunCallback, Commit
  <1> QED BY <1>1, <1>2, <1>3, <1>4, <1>5, <1>6, <1>7, <1>8, <1>9, <1>10, <1>11
      DEF CycleStep

\* The callback for a block opens proposals of its height only.
LEMMA CallHeights ==
  ASSUME TypeInv, ShapeInv, FetchedInv, OpenInv, HeightInv, RunSkipReporter
  PROVE  OpenInv' /\ HeightInv'
  <1> DEFINE b == Head(queue)
  <1>1. /\ queue \in Seq(Block) /\ queue # <<>> /\ delivered \in Seq(Block)
        /\ max_block_height \in Nat
    BY DEF RunSkipReporter, RunCallback, TypeInv, TypeOK
  <1>2. ToSet(queue) = {b} \cup ToSet(Tail(queue))
    BY <1>1, QueueSplits
  <1>3. b \in db /\ b \in Block /\ number[b] \in Nat /\ number[b] <= number[tip]
    <2>1. b \in db
      BY <1>2 DEF ShapeInv, MemoryShape, DeliveryShape
    <2>2. b \in Block
      BY <2>1 DEF TypeInv, TypeOK
    <2> QED BY <2>1, <2>2, ChainAssumption DEF FetchedInv
  <1>4. /\ pc = "callbacks" /\ pc' \notin {"down", "epochs", "forward"}
        /\ queue' = Tail(queue) /\ delivered' = Append(delivered, b)
        /\ UNCHANGED <<tip, saved, saved_skips, max_block_height, current_branch>>
    BY DEF RunSkipReporter, RunCallback, chainVars, TypeInv, TypeOK,
           Skips!CallSkipReporter
  <1>5. delivered' # <<>>
    BY <1>1, <1>3, <1>4, AppendProperties, EmptySeq
  <1>6. CASE UNCHANGED <<open_skipped_proposals, missed>>
    <2>1. Len(queue) = 1 => ToSet(Tail(queue)) = {}
      <3>1. Tail(queue) \in Seq(Block) /\ Len(Tail(queue)) = Len(queue) - 1
        BY <1>1, HeadTailProperties
      <3>2. Len(queue) = 1 => Len(Tail(queue)) = 0
        BY <3>1
      <3>3. Len(Tail(queue)) = 0 => Tail(queue) = <<>>
        BY <3>1, EmptySeq
      <3> QED BY <3>2, <3>3, EmptySet
    <2>2. \A c \in ToSet(queue') : number[c] <= max_block_height
      BY <1>2, <1>4, <2>1 DEF HeightInv, QueueKnown
    <2> QED BY <1>4, <1>5, <1>6, <2>2 DEF OpenInv, HeightInv, QueueKnown
  <1>7. CASE Skips!SeeBlock(b)
    <2>1. latest_step # 0
      BY <1>7 DEF Skips!SeeBlock
    <2>2. \A c \in ToSet(queue) : number[c] <= max_block_height
      BY <1>4, <2>1 DEF HeightInv, QueueKnown
    <2>3. /\ missed' \subseteq open_skipped_proposals'
          /\ \A p \in open_skipped_proposals' :
               p \in open_skipped_proposals \/ p.block_height = number[b]
      BY <1>7 DEF Skips!SeeBlock, Skips!RemainOpen, Skips!SkippedBefore
    <2>4. OpenInv'
      BY <1>3, <1>4, <1>5, <2>3 DEF OpenInv
    <2> HIDE DEF b
    <2>5. HeightInv'
      BY <1>2, <1>4, <2>2, <2>3 DEF HeightInv, QueueKnown
    <2> QED BY <2>4, <2>5
  <1>8. Skips!SeeGenesis(b) \/ Skips!SeeFirst(b) \/ Skips!SeeBlock(b)
    BY DEF RunSkipReporter, Skips!CallSkipReporter
  <1>9. Skips!SeeGenesis(b) \/ Skips!SeeFirst(b)
        => UNCHANGED <<open_skipped_proposals, missed>>
    BY DEF Skips!SeeGenesis, Skips!SeeFirst, Skips!skipState
  <1> QED BY <1>6, <1>7, <1>8, <1>9

\* A process that goes down falls back to the committed proposals.
LEMMA FallHeights ==
  ASSUME OpenInv, NEW e, Falls(e)
  PROVE  OpenInv' /\ HeightInv'
  <1>1. /\ open_skipped_proposals' = saved_skips.open_skipped_proposals
        /\ latest_step' = saved_skips.latest_step
        /\ delivered' = saved.delivered
        /\ missed' = {} /\ pc' = "down"
        /\ UNCHANGED <<saved, saved_skips, tip>>
    BY DEF Falls, Down, LoseReporters, Skips!LoseSkips, chainVars
  <1> QED BY <1>1 DEF OpenInv, HeightInv

\* The steps that leave the fetcher and the open proposals as they are.
LEMMA StillHeights ==
  ASSUME OpenInv, HeightInv, UNCHANGED vars,
         UNCHANGED <<latest_step, open_skipped_proposals, missed, saved_skips>>
  PROVE  OpenInv' /\ HeightInv'
  BY DEF OpenInv, HeightInv, QueueKnown, vars, chainVars, fetcherVars, memory, locals

ResetInv ==
  /\ failure # "AssertionError"
  /\ ~node_reset =>
       FetchedInv /\ OpenInv /\ HeightInv /\ failure = "none"

\* Without a reset, each callback finds what it looks up.
LEMMA ResetStep ==
  ASSUME TypeInv, ShapeInv, LogInv, ResetInv, [MonitorNext]_monitorVars
  PROVE  ResetInv'
  <1>n. ~node_reset' => ~node_reset
    BY DEF MonitorNext, MonitorStep, FetchStep, RunSkipReporter, RunSkipCallbacks,
           RunEquivocationReporter, LogEquivocation, FlushCycle, CommitCycle,
           StopProcess, StartProcess, MonitorNode, ReporterFails, monitorVars
  <1>q. \A b \in unread : b \in db
    BY DEF LogInv
  <1>1. CASE FetchStep
    <2>1. failure' = failure /\ CycleStep
      BY <1>1 DEF FetchStep
    <2>2. CASE pc' = "down"
      <3>1. \E e \in Error : Falls(e)
        BY <1>1, <2>2, FetchCases DEF FetchStep, Falls
      <3> QED BY <1>n, <2>1, <3>1, FallHeights, FetchServed DEF ResetInv
    <2>3. CASE pc' # "down"
      <3>1. /\ UNCHANGED <<latest_step, open_skipped_proposals, missed, saved_skips>>
            /\ UNCHANGED <<delivered, saved>>
            /\ pc \notin {"callbacks", "commit"} /\ missed = {}
        BY <1>1, <2>3, FetchCases
        DEF FetchStep, Down, Idle, reporterVars, skipReporterVars
      <3>2. UNCHANGED tip
        <4>1. \A e : Down(e) => UNCHANGED tip
          BY DEF Down, chainVars
        <4>2. \A bs, initial, next : Insert(bs, initial, next) => UNCHANGED tip
          BY <4>1 DEF Insert, chainVars
        <4> QED BY <2>1, <4>1, <4>2
            DEF CycleStep, UpdateEpochs, ResolveInitialBlock, ReadLatest,
                FetchSafeBlock, ReadTarget, FetchForward, InsertForward,
                FetchBranchHead, FetchParent, InsertBackward, RunCallback,
                Commit, chainVars
      <3>3. OpenInv => OpenInv'
        BY <3>1, <3>2 DEF OpenInv
      <3> QED BY <1>n, <2>1, <2>3, <3>1, <3>3, FetchHeights, FetchServed DEF ResetInv
    <2> QED BY <2>2, <2>3
  <1>2. CASE RunSkipReporter
    <2>1. CycleStep /\ failure' = failure
      BY <1>2 DEF RunSkipReporter, CycleStep
    <2> QED BY <1>2, <1>n, <2>1, CallHeights, FetchServed DEF ResetInv
  <1>f. ASSUME NEW e, ReporterFails(e), e # "AssertionError", node_reset
        PROVE  ResetInv'
    BY <1>f DEF ReporterFails, ResetInv
  <1>u. ASSUME UNCHANGED <<vars, failure>>,
               UNCHANGED <<latest_step, open_skipped_proposals, missed, saved_skips>>
        PROVE  ResetInv'
    <2>1. FetchedInv => FetchedInv'
      BY <1>u DEF vars, chainVars, fetcherVars, memory, locals, FetchedInv, Chain
    <2> QED BY <1>u, <1>n, <2>1, StillHeights DEF ResetInv
  <1>3. CASE \E p \in missed : RunSkipCallbacks(p)
    <2> PICK p \in missed : RunSkipCallbacks(p)
      BY <1>3
    <2>1. CASE ~HeightKnown(p)
      <3>1. node_reset
        <4> SUFFICES ASSUME ~node_reset PROVE FALSE
          OBVIOUS
        <4>1. OpenInv /\ HeightInv
          BY DEF ResetInv
        <4>2. pc \notin {"down", "epochs"} /\ p \in open_skipped_proposals
          BY <4>1 DEF OpenInv
        <4> QED BY <2>1, <4>1, <4>2 DEF HeightInv, HeightKnown
      <3> QED BY <1>f, <2>1, <3>1 DEF RunSkipCallbacks
    <2>2. CASE HeightKnown(p)
      <3>1. /\ UNCHANGED <<vars, failure, node_reset>>
            /\ UNCHANGED <<latest_step, saved_skips>>
            /\ missed' = missed \ {p}
            /\ missed' = {} \/ UNCHANGED open_skipped_proposals
            /\ open_skipped_proposals' \subseteq open_skipped_proposals
        BY <2>2 DEF RunSkipCallbacks, Skips!ReportSkip
      <3>2. UNCHANGED <<pc, tip, saved, delivered, queue, batch, current_branch,
                        target, max_block_height>>
        BY <3>1 DEF vars, chainVars, fetcherVars, memory, locals
      <3>3. FetchedInv => FetchedInv'
        BY <3>1 DEF vars, chainVars, fetcherVars, memory, locals, FetchedInv, Chain
      <3>4. OpenInv => OpenInv'
        BY <3>1, <3>2 DEF OpenInv
      <3>5. HeightInv => HeightInv'
        BY <3>1, <3>2 DEF HeightInv, QueueKnown
      <3> QED BY <3>1, <3>3, <3>4, <3>5 DEF ResetInv
    <2> QED BY <2>1, <2>2
  <1>4. CASE RunEquivocationReporter
    <2>1. due \in db
      BY <1>4 DEF RunEquivocationReporter, LogInv
    <2> QED BY <1>4, <1>u, <2>1 DEF RunEquivocationReporter, skipReporterVars
  <1>5. CASE \E b \in unread : LogEquivocation(b)
    <2> PICK b \in unread : LogEquivocation(b)
      BY <1>5
    <2>1. CASE BlockByHash(b) = None
      <3>1. b \in Block /\ None \notin Block
        BY <1>q, ChainAssumption DEF TypeInv, TypeOK
      <3>2. node_reset
        BY <1>q, <2>1, <3>1 DEF BlockByHash, ResetInv, FetchedInv
      <3> QED BY <1>f, <2>1, <3>2 DEF LogEquivocation
    <2>2. CASE BlockByHash(b) # None
      BY <1>u, <2>2 DEF LogEquivocation, skipReporterVars
    <2> QED BY <2>1, <2>2
  <1>6. CASE FlushCycle
    BY <1>6, <1>u DEF FlushCycle, Skips!FlushSkips, Skips!skipState
  <1>7. CASE CommitCycle
    <2>1. /\ CycleStep /\ failure' = failure
          /\ saved'.delivered = delivered /\ UNCHANGED <<delivered, tip>>
          /\ pc' = "epochs"
          /\ UNCHANGED <<latest_step, open_skipped_proposals, missed>>
          /\ missed = {}
          /\ saved_skips'.latest_step = latest_step
          /\ saved_skips'.open_skipped_proposals = open_skipped_proposals
      BY <1>7 DEF CommitCycle, Commit, CycleStep, Idle, memory, chainVars,
                  Skips!CommitSkips, Skips!skipState
    <2>2. OpenInv => OpenInv'
      BY <2>1 DEF OpenInv
    <2>3. HeightInv'
      BY <2>1 DEF HeightInv
    <2> QED BY <1>n, <2>1, <2>2, <2>3, FetchServed DEF ResetInv
  <1>8. CASE StopProcess
    <2>1. Kill /\ Falls("killed") /\ failure' = failure
      BY <1>8 DEF StopProcess, Kill, Falls
    <2> QED BY <1>n, <2>1, FallHeights, FetchServed DEF ResetInv
  <1>9. CASE StartProcess
    <2>1. /\ Restart /\ failure' = "none" /\ pc = "down" /\ pc' = "epochs"
          /\ UNCHANGED <<latest_step, open_skipped_proposals, missed, saved_skips,
                         delivered, saved, tip>>
      BY <1>9 DEF StartProcess, Restart, reporterVars, skipReporterVars, memory,
                  chainVars
    <2>2. OpenInv => OpenInv'
      BY <2>1 DEF OpenInv
    <2>3. HeightInv'
      BY <2>1 DEF HeightInv
    <2> QED BY <1>n, <2>1, <2>2, <2>3, FetchServed DEF ResetInv
  <1>10. CASE MonitorNode
    <2>1. failure' = failure /\ UNCHANGED fetcherVars
          /\ UNCHANGED <<latest_step, open_skipped_proposals, missed, saved_skips>>
      BY <1>10 DEF MonitorNode, reporterVars, skipReporterVars
    <2>2. CASE node_reset'
      BY <2>1, <2>2 DEF ResetInv
    <2>3. CASE ~node_reset'
      <3>1. \E b \in Block : Import(b)
        BY <1>10, <2>3 DEF MonitorNode
      <3>2. FetchedInv' /\ number[tip] <= number[tip'] /\ OpenInv /\ HeightInv
        BY <1>n, <2>1, <2>3, <3>1, ImportServed DEF ResetInv
      <3>3. number[tip] \in Nat /\ number[tip'] \in Nat
        BY <3>1, ChainAssumption DEF Import, TypeInv, TypeOK, ChainTypeOK
      <3>4. UNCHANGED <<pc, saved, delivered, queue, batch, current_branch,
                        target, max_block_height>>
        BY <2>1 DEF fetcherVars, memory, locals
      <3>5. OpenInv'
        BY <2>1, <3>2, <3>3, <3>4 DEF OpenInv
      <3>6. HeightInv'
        BY <2>1, <3>2, <3>4 DEF HeightInv, QueueKnown
      <3> QED BY <1>n, <2>1, <2>3, <3>2, <3>5, <3>6 DEF ResetInv
    <2> QED BY <2>2, <2>3
  <1>11. CASE UNCHANGED monitorVars
    BY <1>11, <1>u DEF monitorVars, reporterVars, skipReporterVars
  <1> QED BY <1>1, <1>2, <1>3, <1>4, <1>5, <1>6, <1>7, <1>8, <1>9, <1>10, <1>11
      DEF MonitorNext, MonitorStep

\* At first nothing has failed.
LEMMA ResetInit == MonitorInit => ResetInv
  <1> SUFFICES ASSUME MonitorInit PROVE ResetInv
    OBVIOUS
  <1>1. tip \in Block /\ number[tip] = 0 /\ served = Chain(tip)
    BY DEF MonitorInit, Init, ChainInit
  <1>2. \A b \in Chain(tip) : number[b] <= number[tip]
    <2>1. \A n \in 0..number[tip] : number[chainTo[tip][n]] = n
      BY <1>1, ChainAssumption
    <2> QED BY <1>1, <2>1 DEF Chain
  <1>3. FetchedInv
    BY <1>1, <1>2, EmptySet DEF MonitorInit, Init, FetcherInit, FreshState, FetchedInv
  <1>4. OpenInv /\ HeightInv /\ failure = "none"
    BY DEF MonitorInit, Init, FetcherInit, FreshState, Skips!SkipInit,
           Skips!FreshSkips, OpenInv, HeightInv
  <1> QED BY <1>3, <1>4 DEF ResetInv

\* The height of a skip is always one that the cycle knows the validators for,
\* also when the skip was opened by an earlier process or the block comes from
\* a branch one has fetched; the node has all equivocating blocks; and each
\* block is stored before it is reported on.
THEOREM ReportersFailByResetOnlyHolds == MonitorSpec => []ReportersFailByResetOnly
  <1>1. ResetInv => ReportersFailByResetOnly
    BY DEF ResetInv, ReportersFailByResetOnly
  <1>2. FiledInv => LogInv
    BY DEF FiledInv
  <1>3. TypeInv /\ ShapeInv /\ LogInv /\ ResetInv /\ [MonitorNext]_monitorVars
        => ResetInv'
    BY ResetStep
  <1> QED BY <1>1, <1>2, <1>3, ResetInit, FiledHolds, MonitorShapes, PTL
      DEF MonitorSpec

-----------------------------------------------------------------------------
(* The reporters' own theorems.                                            *)

\* The skip reporter and the offline reporter with what is proved of them.
SP == INSTANCE SkipReporterProofs WITH durable <- saved.delivered
OP == INSTANCE OfflineReporterProofs WITH
        Proposal <- Skips!PossibleProposal, skips <- heard,
        durable_skips <- saved_skips.skips, error <- offline_error

\* What the skip reporter assumes of steps and numbers is assumed of the chain.
LEMMA SkipReporterAssumed == SP!SkipAssumption
  BY StepAssumption, ChainAssumption, EquivocationAssumption DEF SP!SkipAssumption

\* What the offline reporter assumes holds of the proposals of the skip reporter.
LEMMA OfflineReporterAssumed == OP!ProposalAssumption /\ OP!OfflineAssumption
  <1>1. \A p \in Skips!PossibleProposal : p.step \in Nat
    <2>1. \A b \in Block : step[b] \in Nat
      BY EquivocationAssumption
    <2>2. \A b \in Block : \A s \in 1..step[b] : s \in Nat
      BY <2>1
    <2> QED BY <2>2 DEF Skips!PossibleProposal
  <1> QED BY <1>1, WindowAssumption
          DEF OP!ProposalAssumption, OP!OfflineAssumption, Offline!OfflineAssumption

\* The skip reporter of the monitor is the one its theorems are about.
LEMMA SameSkipReporter == Skips!SkipSpec => SP!SkipSpec
  <1>1. Skips!SkipInit => SP!SkipInit
    BY DEF Skips!SkipInit, SP!SkipInit, Skips!FeedInit, SP!FeedInit,
           Skips!FreshSkips, SP!FreshSkips
  <1>2. ASSUME NEW b \in Block PROVE Skips!CallSkipReporter(b) => SP!CallSkipReporter(b)
    <2>1. Skips!SeeBlock(b) => SP!SeeBlock(b)
      BY DEF Skips!SeeBlock, Skips!RemainOpen, Skips!SkippedBefore, Skips!GraceIsOver,
             Skips!StepSeen, SP!SeeBlock, SP!RemainOpen, SP!SkippedBefore,
             SP!GraceIsOver, SP!StepSeen
    <2>2. Skips!SeeGenesis(b) \/ Skips!SeeFirst(b) => SP!SeeGenesis(b) \/ SP!SeeFirst(b)
      BY DEF Skips!SeeGenesis, Skips!SeeFirst, Skips!skipState, SP!SeeGenesis,
             SP!SeeFirst, SP!skipState
    <2> QED BY <2>1, <2>2
            DEF Skips!CallSkipReporter, Skips!Deliver, Skips!ToSet,
                SP!CallSkipReporter, SP!Deliver, SP!ToSet
  <1>3. ASSUME NEW p \in missed PROVE Skips!ReportSkip(p) => SP!ReportSkip(p)
    BY DEF Skips!ReportSkip, Skips!IsNextMissed, Skips!GraceIsOver, Skips!feedVars,
           SP!ReportSkip, SP!IsNextMissed, SP!GraceIsOver, SP!feedVars
  <1>4. Skips!FlushSkips => SP!FlushSkips
    BY DEF Skips!FlushSkips, Skips!feedVars, Skips!skipState,
           SP!FlushSkips, SP!feedVars, SP!skipState
  <1>5. Skips!CommitSkips => SP!CommitSkips
    BY DEF Skips!CommitSkips, Skips!ReadyToCommit, Skips!Persist, Skips!skipState,
           SP!CommitSkips, SP!ReadyToCommit, SP!Persist, SP!skipState
  <1>6. Skips!LoseSkips => SP!LoseSkips
    BY DEF Skips!LoseSkips, Skips!Lose, SP!LoseSkips, SP!Lose
  <1>7. [Skips!SkipNext]_(Skips!skipVars) => [SP!SkipNext]_(SP!skipVars)
    BY <1>2, <1>3, <1>4, <1>5, <1>6
    DEF Skips!SkipNext, Skips!skipVars, Skips!feedVars, Skips!skipState,
        Skips!fileState, SP!SkipNext, SP!skipVars, SP!feedVars, SP!skipState,
        SP!fileState
  <1> QED BY <1>1, <1>7, PTL DEF Skips!SkipSpec, SP!SkipSpec

\* The same of the offline reporter.
LEMMA SameOfflineReporter == Offline!OfflineSpec => OP!OfflineSpec
  <1>1. Offline!OfflineInit => OP!OfflineInit
    BY DEF Offline!OfflineInit, OP!OfflineInit, Offline!SkipFeedInit,
           OP!SkipFeedInit, Offline!FreshOffline, OP!FreshOffline
  <1>2. \A e : Offline!LoseOffline(e) => OP!LoseOffline(e)
    BY DEF Offline!LoseOffline, Offline!ForgetSkips, Offline!Cardinality,
           OP!LoseOffline, OP!ForgetSkips, OP!Cardinality
  <1>3. Offline!CommitOffline => OP!CommitOffline
    BY DEF Offline!CommitOffline, Offline!PersistSkips, Offline!offlineState,
           OP!CommitOffline, OP!PersistSkips, OP!offlineState
  <1>4. \A os, s : Offline!Recent(os, s) = OP!Recent(os, s)
    BY DEF Offline!Recent, OP!Recent
  <1>5. ASSUME NEW p \in Skips!PossibleProposal, NEW v, NEW length
        PROVE  Offline!CountSkip(p, v, length) => OP!CountSkip(p, v, length)
    <2>1. \A w, s : Offline!KeptTime(w, s) = OP!KeptTime(w, s)
      BY <1>4 DEF Offline!KeptTime, OP!KeptTime, Offline!TotalLength, OP!TotalLength,
             Offline!Turns, OP!Turns, Offline!Cardinality, OP!Cardinality
    <2> QED BY <1>4, <2>1
            DEF Offline!CountSkip, Offline!Hear, Offline!IsOffline,
                Offline!ReportedIntervals, OP!CountSkip, OP!Hear, OP!IsOffline,
                OP!ReportedIntervals
  <1>6. ASSUME NEW p \in Skips!PossibleProposal, NEW vs \in ValidatorLists
        PROVE  Offline!CallOfflineReporter(p, vs) => OP!CallOfflineReporter(p, vs)
    <2>1. \A s : Offline!PrimaryOf(vs, s) = OP!PrimaryOf(vs, s)
      BY DEF Offline!PrimaryOf, OP!PrimaryOf
    <2>2. \A v, s : Offline!Raised(v, s) = OP!Raised(v, s)
      BY <1>4 DEF Offline!Raised, Offline!InOrder, OP!Raised, OP!InOrder
    <2>3. Offline!IgnoreSkip(p) => OP!IgnoreSkip(p)
      BY DEF Offline!IgnoreSkip, Offline!Hear, Offline!offlineState,
             OP!IgnoreSkip, OP!Hear, OP!offlineState
    <2>4. Offline!Follows(p) => OP!Follows(p)
      BY DEF Offline!Follows, OP!Follows
    <2> QED BY <1>2, <1>5, <2>1, <2>2, <2>3, <2>4
            DEF Offline!CallOfflineReporter, Offline!HandleSkip,
                OP!CallOfflineReporter, OP!HandleSkip
  <1>7. [Offline!OfflineNext]_(Offline!offlineVars) => [OP!OfflineNext]_(OP!offlineVars)
    BY <1>2, <1>3, <1>6
    DEF Offline!OfflineNext, Offline!offlineVars, Offline!skipFeedVars,
        Offline!offlineState, OP!OfflineNext, OP!offlineVars, OP!skipFeedVars,
        OP!offlineState
  <1> QED BY <1>1, <1>7, PTL DEF Offline!OfflineSpec, OP!OfflineSpec

-----------------------------------------------------------------------------
(* The monitor with the offline reporter.                                  *)

\* A step of the whole monitor is one of the monitor or leaves it alone.
LEMMA WholeSteps == [WholeNext]_wholeVars => [MonitorNext]_monitorVars
  <1> SUFFICES ASSUME [WholeNext]_wholeVars PROVE [MonitorNext]_monitorVars
    OBVIOUS
  <1>1. CASE \E vs \in ValidatorLists : CallOffline(vs)
    BY <1>1 DEF CallOffline, MonitorNext
  <1>2. CASE RunOthers
    BY <1>2 DEF RunOthers, MonitorNext, MonitorStep
  <1>3. CASE CommitCycle
    BY <1>3 DEF MonitorNext, MonitorStep
  <1>4. CASE StopProcess \/ StartProcess \/ MonitorNode
    BY <1>4 DEF MonitorNext
  <1>5. CASE UNCHANGED wholeVars
    BY <1>5 DEF wholeVars
  <1> QED BY <1>1, <1>2, <1>3, <1>4, <1>5 DEF WholeNext, WholeStep

\* The monitor behaves with the offline reporter as it does without, whatever
\* that raises: all theorems about MonitorSpec hold of the whole monitor.
THEOREM WholeRefinesMonitor == WholeSpec => MonitorSpec
  <1>1. WholeInit => MonitorInit
    BY DEF WholeInit
  <1> QED BY <1>1, WholeSteps, PTL DEF WholeSpec, MonitorSpec

-----------------------------------------------------------------------------
(* What the offline reporter hears.                                        *)

\* What the skip reporter calls its callbacks with in the monitor: possible
\* proposals in increasing order.
SkipsSound ==
  /\ skips \in Seq(Skips!PossibleProposal)
  /\ \A i, j \in DOMAIN skips : i < j => skips[i].step < skips[j].step

\* This is what the skip reporter's own theorems say.
LEMMA SkipsAreSound == MonitorSpec => []SkipsSound
  <1>1. SP!SkipTypeOK /\ SP!SkipFitsAFork /\ SP!SkipsInOrder => SkipsSound
    <2> SUFFICES ASSUME SP!SkipTypeOK, SP!SkipFitsAFork, SP!SkipsInOrder
                 PROVE  SkipsSound
      OBVIOUS
    <2>1. skips \in Seq(SP!SkippedProposal) /\ delivered \in Seq(Block)
      BY DEF SP!SkipTypeOK
    <2>2. DOMAIN skips = 1..Len(skips) /\ Len(skips) \in Nat
      BY <2>1, LenProperties
    <2>3. ASSUME NEW i \in 1..Len(skips) PROVE skips[i] \in Skips!PossibleProposal
      <3>1. skips[i] \in SP!SkippedProposal /\ skips[i] \in SP!ToSet(skips)
        BY <2>1, <2>2, ElementOfSeq DEF SP!ToSet
      <3>2. PICK b \in SP!ToSet(delivered) :
              number[b] = skips[i].block_height /\ skips[i].step < step[b]
        BY <3>1 DEF SP!SkipFitsAFork
      <3>3. b \in Block /\ step[b] \in Nat
        BY <2>1, EquivocationAssumption DEF SP!ToSet
      <3>4. /\ skips[i].step \in 1..step[b]
            /\ skips[i] = [step |-> skips[i].step, block_height |-> number[b]]
        BY <3>1, <3>2, <3>3 DEF SP!SkippedProposal
      <3> QED BY <3>3, <3>4 DEF Skips!PossibleProposal
    <2>4. skips \in [1..Len(skips) -> Skips!PossibleProposal]
      BY <2>1, <2>3, LenProperties
    <2>5. skips \in Seq(Skips!PossibleProposal)
      BY <2>2, <2>4, SeqDef
    <2> QED BY <2>5 DEF SP!SkipsInOrder, SkipsSound
  <1> QED BY <1>1, SkipReporterAssumed, SameSkipReporter, MonitorRefinesSkipReporter,
             SP!SkipTypesCorrect, SP!SkipFitsAForkHolds, SP!SkipsInOrderHolds, PTL

\* A process that is down has no callbacks to run.
DownIdle == pc = "down" => missed = {} /\ due = None /\ unread = {}

\* It loses them when it goes down and gets none before the next one starts.
LEMMA DownStep == TypeInv /\ DownIdle /\ [MonitorNext]_monitorVars => DownIdle'
  <1> SUFFICES ASSUME TypeInv, DownIdle, [MonitorNext]_monitorVars PROVE DownIdle'
    OBVIOUS
  <1>l. LoseReporters => missed' = {} /\ due' = None /\ unread' = {}
    BY DEF LoseReporters, Skips!LoseSkips, LoseEquivocated
  <1>f. ASSUME NEW e, ReporterFails(e) PROVE DownIdle'
    BY <1>l, <1>f DEF ReporterFails, DownIdle
  <1>u. UNCHANGED vars => UNCHANGED pc
    BY DEF vars, fetcherVars, locals
  <1>1. CASE FetchStep
    BY <1>1, <1>l DEF FetchStep, DownIdle
  <1>2. CASE RunSkipReporter
    BY <1>2 DEF RunSkipReporter, RunCallback, TypeInv, TypeOK, DownIdle
  <1>3. CASE \E p \in missed : RunSkipCallbacks(p)
    BY <1>3, <1>f, <1>u DEF RunSkipCallbacks, DownIdle
  <1>4. CASE RunEquivocationReporter
    BY <1>4, <1>f, <1>u DEF RunEquivocationReporter, DownIdle
  <1>5. CASE \E b \in unread : LogEquivocation(b)
    BY <1>5, <1>f, <1>u DEF LogEquivocation, DownIdle
  <1>6. CASE FlushCycle
    BY <1>6, <1>u DEF FlushCycle, DownIdle
  <1>7. CASE CommitCycle
    BY <1>7 DEF CommitCycle, Commit, DownIdle
  <1>8. CASE StopProcess
    BY <1>8, <1>l DEF StopProcess, DownIdle
  <1>9. CASE StartProcess
    BY <1>9 DEF StartProcess, Restart, DownIdle
  <1>10. CASE MonitorNode \/ UNCHANGED monitorVars
    BY <1>10, <1>u
    DEF MonitorNode, monitorVars, fetcherVars, locals, reporterVars, skipReporterVars,
        equivocationVars, DownIdle
  <1> QED BY <1>1, <1>2, <1>3, <1>4, <1>5, <1>6, <1>7, <1>8, <1>9, <1>10
      DEF MonitorNext, MonitorStep

\* The state of the monitor that the offline reporter is called in.
LEMMA WholeSound == WholeSpec => [](TypeInv /\ DownIdle /\ SkipsSound)
  <1>1. MonitorInit => DownIdle
    BY DEF MonitorInit, Init, FetcherInit, DownIdle
  <1> QED BY <1>1, DownStep, WholeRefinesMonitor, MonitorShapes, SkipsAreSound, PTL
          DEF MonitorSpec

\* The offline reporter is at most one proposal behind the skip logger.
HeardInv ==
  /\ heard \in Seq(Skips!PossibleProposal)
  /\ \/ heard = skips
     \/ \E p \in Skips!PossibleProposal : skips = Append(heard, p)

\* What the parts of a cycle but the commit do to the proposals reported.
LEMMA OthersReport ==
  ASSUME TypeInv, DownIdle, RunOthers
  PROVE  /\ pc' = "down" =>
              UNCHANGED saved_skips /\ skips' = saved_skips.skips
         /\ pc' # "down" =>
              UNCHANGED saved_skips /\ (skips' = skips \/ \E p : skips' = Append(skips, p))
  <1>l. LoseReporters => UNCHANGED saved_skips /\ skips' = saved_skips.skips
    BY DEF LoseReporters, Skips!LoseSkips
  <1>f. ASSUME NEW e, ReporterFails(e)
        PROVE  pc' = "down" /\ UNCHANGED saved_skips /\ skips' = saved_skips.skips
    BY <1>l, <1>f DEF ReporterFails, Kill, Down
  <1>u. UNCHANGED vars => UNCHANGED pc
    BY DEF vars, fetcherVars, locals
  <1>1. CASE FetchStep
    BY <1>1, <1>l DEF FetchStep, reporterVars, skipReporterVars
  <1>2. CASE RunSkipReporter
    <2>1. pc' # "down"
      BY <1>2 DEF RunSkipReporter, RunCallback, TypeInv, TypeOK
    <2>2. UNCHANGED <<skips, saved_skips>>
      BY <1>2 DEF RunSkipReporter, Skips!CallSkipReporter, Skips!SeeGenesis,
                  Skips!SeeFirst, Skips!SeeBlock, Skips!skipState
    <2> QED BY <2>1, <2>2
  <1>3. CASE \E p \in missed : RunSkipCallbacks(p)
    BY <1>3, <1>f, <1>u DEF RunSkipCallbacks, Skips!ReportSkip, DownIdle
  <1>4. CASE RunEquivocationReporter
    BY <1>4, <1>f, <1>u DEF RunEquivocationReporter, skipReporterVars, DownIdle
  <1>5. CASE \E b \in unread : LogEquivocation(b)
    BY <1>5, <1>f, <1>u DEF LogEquivocation, skipReporterVars, DownIdle
  <1>6. CASE FlushCycle
    BY <1>6, <1>u DEF FlushCycle, Skips!FlushSkips, Skips!skipState
  <1> QED BY <1>1, <1>2, <1>3, <1>4, <1>5, <1>6 DEF RunOthers

\* Of the proposals heard and the one that is next, if the reporter is behind.
LEMMA HeardNext ==
  ASSUME SkipsSound, HeardInv, ~AllHeard
  PROVE  LET p == Last(skips) IN
         /\ p \in Skips!PossibleProposal
         /\ skips = Append(heard, p)
         /\ Offline!Follows(p)
  <1>1. PICK p \in Skips!PossibleProposal : skips = Append(heard, p)
    BY DEF HeardInv, AllHeard
  <1>2. /\ Len(heard) \in Nat /\ Len(skips) = Len(heard) + 1
        /\ DOMAIN heard = 1..Len(heard) /\ DOMAIN skips = 1..Len(skips)
        /\ skips[Len(skips)] = p
        /\ \A i \in 1..Len(heard) : skips[i] = heard[i]
    BY <1>1, AppendProperties, LenProperties DEF HeardInv
  <1>3. Last(skips) = p
    BY <1>2 DEF Last
  <1>4. \A i \in DOMAIN heard : heard[i].step < p.step
    <2> TAKE i \in DOMAIN heard
    <2>1. i \in DOMAIN skips /\ Len(skips) \in DOMAIN skips /\ i < Len(skips)
      BY <1>2
    <2> QED BY <2>1, <1>2 DEF SkipsSound
  <1> QED BY <1>1, <1>3, <1>4 DEF Offline!Follows

\* What the offline reporter does with the proposal it is called with.
LEMMA HeardCalled ==
  ASSUME SkipsSound, HeardInv, NEW vs \in ValidatorLists, CallOffline(vs)
  PROVE  /\ Offline!CallOfflineReporter(Last(skips), vs)
         /\ heard' = skips'
  <1> DEFINE p == Last(skips)
             e == Offline!Raised(Offline!PrimaryOf(vs, p.step), p.step)
  <1>1. ~AllHeard /\ Offline!HandleSkip(p, vs)
    BY DEF CallOffline
  <1>2. skips = Append(heard, p) /\ Offline!Follows(p)
    BY <1>1, HeardNext
  <1>3. CASE e = "none"
    <2>1. Offline!Hear(p)
      BY <1>1, <1>3 DEF Offline!HandleSkip, Offline!IgnoreSkip, Offline!CountSkip
    <2>2. UNCHANGED skips
      BY <1>3 DEF CallOffline, monitorVars, reporterVars, skipReporterVars
    <2> QED BY <1>1, <1>2, <2>1, <2>2 DEF Offline!Hear, Offline!CallOfflineReporter
  <1>4. CASE e # "none"
    <2>1. heard' = saved_skips.skips
      BY <1>1, <1>4 DEF Offline!HandleSkip, Offline!LoseOffline, Offline!ForgetSkips
    <2>2. skips' = saved_skips.skips
      BY <1>4 DEF CallOffline, StopProcess, LoseReporters, Skips!LoseSkips
    <2> QED BY <1>1, <1>2, <2>1, <2>2 DEF Offline!CallOfflineReporter
  <1> QED BY <1>3, <1>4

\* Every step keeps the offline reporter at most one proposal behind.
LEMMA HeardStep ==
  ASSUME TypeInv, DownIdle, SkipsSound, SkipsSound', HeardInv,
         [WholeNext]_wholeVars
  PROVE  HeardInv'
  <1>s. skips' \in Seq(Skips!PossibleProposal)
    BY DEF SkipsSound
  <1>e. heard' = skips' => HeardInv'
    BY <1>s DEF HeardInv
  <1>l. ASSUME NEW x, Offline!LoseOffline(x), skips' = saved_skips.skips PROVE HeardInv'
    BY <1>e, <1>l DEF Offline!LoseOffline, Offline!ForgetSkips
  <1>u. UNCHANGED <<heard, skips>> => HeardInv'
    BY DEF HeardInv
  <1>1. ASSUME NEW vs \in ValidatorLists, CallOffline(vs) PROVE HeardInv'
    BY <1>1, <1>e, HeardCalled
  <1>2. CASE RunOthers
    <2>1. CASE pc' = "down"
      BY <1>2, <2>1, <1>l, OthersReport DEF RunOthers
    <2>2. CASE pc' # "down" /\ skips' = skips
      BY <1>2, <2>2, <1>u DEF RunOthers, offlineReporterVars
    <2>3. CASE pc' # "down" /\ \E p : skips' = Append(skips, p)
      <3>1. PICK p : skips' = Append(skips, p)
        BY <2>3
      <3>2. /\ Len(skips) \in Nat /\ DOMAIN skips' = 1..(Len(skips) + 1)
            /\ skips'[Len(skips) + 1] = p
        BY <3>1, AppendProperties DEF SkipsSound
      <3>3. p \in Skips!PossibleProposal
        BY <1>s, <3>2, ElementOfSeq
      <3>4. heard = skips /\ heard' = heard
        BY <1>2, <2>3 DEF RunOthers, AllHeard, offlineReporterVars
      <3> QED BY <3>1, <3>3, <3>4 DEF HeardInv
    <2> QED BY <1>2, <2>1, <2>2, <2>3, OthersReport
  <1>3. CASE CommitCycle /\ Offline!CommitOffline
    BY <1>3, <1>u DEF CommitCycle, Skips!CommitSkips, Skips!skipState,
                      Offline!CommitOffline, Offline!PersistSkips
  <1>4. CASE StopProcess /\ Offline!LoseOffline("none")
    BY <1>4, <1>l DEF StopProcess, LoseReporters, Skips!LoseSkips
  <1>5. CASE (StartProcess \/ MonitorNode) /\ UNCHANGED offlineReporterVars
    BY <1>5, <1>u DEF StartProcess, MonitorNode, reporterVars, skipReporterVars,
                      offlineReporterVars
  <1>6. CASE UNCHANGED wholeVars
    BY <1>6, <1>u DEF wholeVars, monitorVars, reporterVars, skipReporterVars,
                      offlineReporterVars
  <1> QED BY <1>1, <1>2, <1>3, <1>4, <1>5, <1>6 DEF WholeNext, WholeStep

\* A step of the whole monitor is one of the offline reporter with its feed.
LEMMA StepHears ==
  ASSUME TypeInv, DownIdle, SkipsSound, HeardInv, [WholeNext]_wholeVars
  PROVE  [Offline!OfflineNext]_(Offline!offlineVars)
  <1>u. UNCHANGED <<saved_skips, offlineReporterVars>> => UNCHANGED Offline!offlineVars
    BY DEF offlineReporterVars, Offline!offlineVars, Offline!skipFeedVars,
           Offline!offlineState
  <1>1. ASSUME NEW vs \in ValidatorLists, CallOffline(vs) PROVE Offline!OfflineNext
    <2>1. Last(skips) \in Skips!PossibleProposal
      BY <1>1, HeardNext DEF CallOffline
    <2> QED BY <1>1, <2>1, HeardCalled DEF Offline!OfflineNext
  <1>2. CASE RunOthers
    <2>1. CASE pc' = "down"
      BY <1>2, <2>1 DEF RunOthers, Offline!OfflineNext
    <2>2. CASE pc' # "down"
      BY <1>2, <2>2, <1>u, OthersReport DEF RunOthers
    <2> QED BY <2>1, <2>2
  <1>3. CASE CommitCycle /\ Offline!CommitOffline
    BY <1>3 DEF Offline!OfflineNext
  <1>4. CASE StopProcess /\ Offline!LoseOffline("none")
    BY <1>4 DEF Offline!OfflineNext
  <1>5. CASE (StartProcess \/ MonitorNode) /\ UNCHANGED offlineReporterVars
    BY <1>5, <1>u DEF StartProcess, MonitorNode, reporterVars, skipReporterVars
  <1>6. CASE UNCHANGED wholeVars
    BY <1>6, <1>u DEF wholeVars, monitorVars, reporterVars, skipReporterVars
  <1> QED BY <1>1, <1>2, <1>3, <1>4, <1>5, <1>6 DEF WholeNext, WholeStep

\* The offline reporter has heard nothing at the start.
LEMMA HeardInit == WholeInit => HeardInv
  <1>1. <<>> \in Seq(Skips!PossibleProposal)
    BY EmptySeq
  <1> QED BY <1>1 DEF WholeInit, MonitorInit, Skips!SkipInit, Offline!OfflineInit,
                      Offline!SkipFeedInit, HeardInv

-----------------------------------------------------------------------------
(* What it does with it.                                                   *)

\* What the offline reporter assumes of its feed holds in the monitor: nothing
\* it is proved to do there depends on an assumption about the skip reporter.
THEOREM WholeRefinesOffline == WholeSpec => Offline!OfflineSpec
  <1>1. TypeInv /\ DownIdle /\ SkipsSound /\ SkipsSound' /\ HeardInv
          /\ [WholeNext]_wholeVars => HeardInv'
    BY HeardStep
  <1>2. TypeInv /\ DownIdle /\ SkipsSound /\ HeardInv /\ [WholeNext]_wholeVars
          => [Offline!OfflineNext]_(Offline!offlineVars)
    BY StepHears
  <1>3. WholeInit => Offline!OfflineInit
    BY DEF WholeInit
  <1> QED BY <1>1, <1>2, <1>3, HeardInit, WholeSound, PTL
          DEF WholeSpec, Offline!OfflineSpec

\* Given a window of at least one step, the offline reporter never brings the
\* monitor down.
THEOREM OfflineNeverFails ==
  ASSUME WindowSize # 0
  PROVE  WholeSpec => [](offline_error = "none")
  <1>1. OP!NeverFails <=> offline_error = "none"
    BY DEF OP!NeverFails
  <1> QED BY <1>1, WholeRefinesOffline, SameOfflineReporter, OfflineReporterAssumed,
             OP!NeverFailsHolds, PTL

\* The report of a validator that is in the committed state rests on skips that
\* the skip reporter has committed, and these have their lines in the file.
THEOREM ReportsBackedHolds == WholeSpec => []ReportsBacked
  <1>1. OP!OfflineTypes /\ OP!OfflineInv /\ SP!CommittedSkipsInFile => ReportsBacked
    <2> SUFFICES ASSUME OP!OfflineTypes, OP!OfflineInv, SP!CommittedSkipsInFile,
                        NEW v \in saved_offline.reported
                 PROVE  \E r \in reports :
                          /\ r.validator = v
                          /\ \A o \in r.intervals : \E p \in skip_file : p.step = o.step
      BY DEF ReportsBacked
    <2> DEFINE cnt == saved_offline.counted[v]
               file(o) == [validator |-> v, intervals |-> OP!WindowAt(cnt, o.step)]
    <2>1. PICK o \in cnt : file(o) \in reports
      BY DEF OP!OfflineInv, OP!HasFile
    <2>2. ASSUME NEW u \in OP!WindowAt(cnt, o.step)
          PROVE  \E p \in skip_file : p.step = u.step
      <3>1. u \in cnt /\ v \in Validator
        BY DEF OP!WindowAt, OP!OfflineTypes
      <3>2. PICK i \in DOMAIN saved_skips.skips : saved_skips.skips[i].step = u.step
        BY <3>1 DEF OP!OfflineInv, OP!FromSkips
      <3>3. saved_skips.skips[i] \in skip_file
        BY DEF SP!CommittedSkipsInFile, SP!ToSet
      <3> QED BY <3>2, <3>3
    <2> QED BY <2>1, <2>2
  <1> QED BY <1>1, WholeRefinesMonitor, MonitorRefinesSkipReporter, SameSkipReporter,
             SkipReporterAssumed, SP!CommittedSkipsInFileHolds, WholeRefinesOffline,
             SameOfflineReporter, OfflineReporterAssumed, OP!OfflineInvHolds, PTL

\* The skip file of the monitor has all committed skips and misses no step whose
\* grace period was over when a cycle was committed, for any fork choice of the node, reset and crash.
THEOREM MonitorFileComplete == WholeSpec => []Skips!SkipFileComplete
  <1>1. SP!SkipFileComplete <=> Skips!SkipFileComplete
    BY DEF SP!SkipFileComplete, SP!CommittedSkipsInFile, SP!MissesOnFile,
           SP!FirstCounted, SP!ToSet, Skips!SkipFileComplete,
           Skips!CommittedSkipsInFile, Skips!MissesOnFile, Skips!FirstCounted,
           Skips!ToSet
  <1> QED BY <1>1, WholeRefinesMonitor, MonitorRefinesSkipReporter, SameSkipReporter,
             SkipReporterAssumed, SP!SkipFileCompleteHolds, PTL

=============================================================================
