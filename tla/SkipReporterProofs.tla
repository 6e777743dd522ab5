------------------------- MODULE SkipReporterProofs -------------------------
(***************************************************************************)
(* Theorems about SkipReporter.  They hold for every tree of blocks, every *)
(* assignment of steps that grows along the chains and every grace period, *)
(* in whichever order the feed delivers the forks and wherever the process *)
(* goes down.                                                              *)
(***************************************************************************)
EXTENDS SkipReporter, SequenceTheorems, TLAPS

-----------------------------------------------------------------------------
(* Sequences.                                                              *)

\* Appending adds one element to the elements of a sequence.
LEMMA AppendElements ==
  ASSUME NEW S, NEW s \in Seq(S), NEW e \in S
  PROVE  /\ Append(s, e) \in Seq(S)
         /\ ToSet(Append(s, e)) = ToSet(s) \cup {e}
  BY AppendProperties DEF ToSet

\* The elements of a sequence over S are in S.
LEMMA ElementsInRange ==
  ASSUME NEW S, NEW s \in Seq(S)
  PROVE  ToSet(s) \subseteq S
  BY DEF ToSet

-----------------------------------------------------------------------------
(* Types.                                                                  *)

\* Every skip that a block opens is a proposal above the latest step and below
\* the block's own.
LEMMA SkippedBeforeType ==
  ASSUME latest_step \in Nat \ {0}, NEW b \in Block, number[b] # 0
  PROVE  /\ SkippedBefore(b) \in SUBSET SkippedProposal
         /\ \A p \in SkippedBefore(b) : latest_step < p.step /\ p.step < step[b]
         /\ \A p, q \in SkippedBefore(b) : p.step = q.step => p = q
  <1>1. number[b] \in Nat \ {0} /\ step[b] \in Nat
    BY SkipAssumption
  <1>2. \A s \in (latest_step + 1)..(step[b] - 1) :
          s \in Nat \ {0} /\ latest_step < s /\ s < step[b]
    BY <1>1
  <1> QED BY <1>1, <1>2 DEF SkippedBefore, SkippedProposal

\* The initial state is well typed.
LEMMA SkipInitTypes == SkipInit => SkipTypeOK
  <1>1. <<>> \in Seq(Block) /\ <<>> \in Seq(SkippedProposal)
    BY EmptySeq
  <1>2. FreshSkips \in [latest_step: Nat,
                        open_skipped_proposals: SUBSET SkippedProposal,
                        skips: Seq(SkippedProposal)]
    BY <1>1 DEF FreshSkips
  <1> SUFFICES ASSUME SkipInit PROVE SkipTypeOK
    OBVIOUS
  <1>3. saved_skips \in [latest_step: Nat,
                         open_skipped_proposals: SUBSET SkippedProposal,
                         skips: Seq(SkippedProposal)]
    BY <1>2 DEF SkipInit
  <1> QED BY <1>1, <1>3 DEF SkipInit, FeedInit, SkipTypeOK

\* Every step keeps the types.
LEMMA SkipStepTypes == SkipTypeOK /\ [SkipNext]_skipVars => SkipTypeOK'
  <1> SUFFICES ASSUME SkipTypeOK, [SkipNext]_skipVars PROVE SkipTypeOK'
    OBVIOUS
  <1>1. ASSUME NEW b \in Block, CallSkipReporter(b) PROVE SkipTypeOK'
    <2>1. /\ delivered' \in Seq(Block)
          /\ UNCHANGED <<durable, saved_skips, skip_buffer, skip_file>>
          /\ flushed' \in BOOLEAN
      BY <1>1, AppendProperties DEF CallSkipReporter, Deliver, SkipTypeOK
    <2>2. step[b] \in Nat
      BY SkipAssumption
    <2>3. CASE SeeGenesis(b) \/ SeeFirst(b)
      BY <2>1, <2>2, <2>3 DEF SeeGenesis, SeeFirst, skipState, SkipTypeOK
    <2>4. CASE SeeBlock(b)
      <3>1. SkippedBefore(b) \in SUBSET SkippedProposal
        BY <2>4, SkippedBeforeType DEF SeeBlock, SkipTypeOK
      <3>2. /\ open_skipped_proposals' \in SUBSET SkippedProposal
            /\ missed' \in SUBSET SkippedProposal
        BY <2>4, <3>1 DEF SeeBlock, RemainOpen, SkipTypeOK
      <3> QED BY <2>1, <2>2, <2>4, <3>2 DEF SeeBlock, StepSeen, SkipTypeOK
    <2> QED BY <1>1, <2>3, <2>4 DEF CallSkipReporter
  <1>2. ASSUME NEW p \in missed, ReportSkip(p) PROVE SkipTypeOK'
    <2>1. p \in SkippedProposal
      BY DEF SkipTypeOK
    <2>2. skips' \in Seq(SkippedProposal)
      BY <1>2, <2>1, AppendProperties DEF ReportSkip, SkipTypeOK
    <2> QED BY <1>2, <2>1, <2>2 DEF ReportSkip, SkipTypeOK, feedVars
  <1>3. CASE FlushSkips
    BY <1>3 DEF FlushSkips, SkipTypeOK, feedVars, skipState
  <1>4. CASE CommitSkips
    BY <1>4 DEF CommitSkips, Persist, SkipTypeOK, skipState
  <1>5. CASE LoseSkips
    BY <1>5 DEF LoseSkips, Lose, SkipTypeOK
  <1>6. CASE UNCHANGED skipVars
    BY <1>6 DEF skipVars, feedVars, skipState, fileState, SkipTypeOK
  <1> QED BY <1>1, <1>2, <1>3, <1>4, <1>5, <1>6 DEF SkipNext

\* The variables of the skip reporter and of its file keep their types.
THEOREM SkipTypesCorrect == SkipSpec => []SkipTypeOK
  BY SkipInitTypes, SkipStepTypes, PTL DEF SkipSpec

-----------------------------------------------------------------------------
(* The order of the reports.                                               *)

\* What links the latest step l, the open proposals, the missed ones among
\* them and the reported ones sk.  The open ones stay apart from the reported
\* ones because the grace period has separated them since both were opened.
Separated(l, open, miss, sk) ==
  /\ miss \subseteq open
  /\ \A p \in open : p.step <= l
  /\ \A p, q \in open : p.step = q.step => p = q
  /\ \A p \in miss : GraceIsOver(p, l)
  /\ miss = {} => \A p \in open : ~GraceIsOver(p, l)
  /\ \A r \in ToSet(sk) : r.step < l - GracePeriod
  /\ \A r \in ToSet(sk) : \A p \in miss : r.step < p.step
  /\ \A i, j \in DOMAIN sk : i < j => sk[i].step < sk[j].step

\* The blocks in d are not above the latest step l, and none of their steps is
\* open.
SeenApart(l, open, d) ==
  \A b \in ToSet(d) : step[b] <= l /\ \A p \in open : p.step # step[b]

ReportInv ==
  /\ Separated(latest_step, open_skipped_proposals, missed, skips)
  /\ SeenApart(latest_step, open_skipped_proposals, delivered)
  /\ Separated(saved_skips.latest_step, saved_skips.open_skipped_proposals,
               {}, saved_skips.skips)
  /\ SeenApart(saved_skips.latest_step, saved_skips.open_skipped_proposals,
               durable)
  /\ flushed => missed = {}

\* Nothing has been reported yet.
LEMMA ReportInit == SkipInit => ReportInv
  BY DEF SkipInit, FeedInit, FreshSkips, ReportInv, Separated, SeenApart, ToSet

\* A block keeps the proposals apart.
LEMMA SeeSeparates ==
  ASSUME SkipTypeOK, ReportInv, NEW b \in Block, CallSkipReporter(b)
  PROVE  /\ Separated(latest_step', open_skipped_proposals', missed', skips')
         /\ SeenApart(latest_step', open_skipped_proposals', delivered')
  <1> DEFINE l == latest_step
             open == open_skipped_proposals
  <1>t. /\ l \in Nat /\ step[b] \in Nat /\ GracePeriod \in Nat
        /\ number[b] = 0 <=> step[b] = 0
        /\ open \in SUBSET SkippedProposal
        /\ \A p \in open : p.step \in Nat \ {0}
        /\ ToSet(skips) \subseteq SkippedProposal
        /\ \A r \in ToSet(skips) : r.step \in Nat
        /\ \A c \in Block : step[c] \in Nat
        /\ ToSet(delivered) \subseteq Block
    <2>1. ToSet(skips) \subseteq SkippedProposal /\ ToSet(delivered) \subseteq Block
      BY ElementsInRange DEF SkipTypeOK
    <2>2. \A p \in SkippedProposal : p.step \in Nat \ {0}
      BY DEF SkippedProposal
    <2> QED BY <2>1, <2>2, SkipAssumption DEF SkipTypeOK
  <1>d. ToSet(delivered') = ToSet(delivered) \cup {b}
    BY AppendElements DEF CallSkipReporter, Deliver, SkipTypeOK
  <1>m. /\ missed = {}
        /\ Separated(l, open, {}, skips)
        /\ SeenApart(l, open, delivered)
    BY DEF CallSkipReporter, ReportInv
  <1>z. l = 0 => open = {}
    BY <1>t, <1>m DEF Separated
  <1>1. CASE SeeGenesis(b)
    <2>1. step[b] = 0 /\ UNCHANGED <<skipState, missed>>
      BY <1>1, <1>t DEF SeeGenesis
    <2> QED BY <2>1, <1>t, <1>d, <1>m DEF skipState, Separated, SeenApart
  <1>2. CASE SeeFirst(b)
    <2>1. /\ l = 0 /\ latest_step' = step[b] /\ open = {}
          /\ UNCHANGED <<open_skipped_proposals, skips, missed>>
      BY <1>2, <1>z DEF SeeFirst
    <2>2. ToSet(skips) = {}
      BY <2>1, <1>t, <1>m DEF Separated
    <2> QED BY <2>1, <2>2, <1>t, <1>d, <1>m DEF Separated, SeenApart
  <1>3. CASE SeeBlock(b)
    <2> DEFINE new == SkippedBefore(b)
               now == RemainOpen(open \cup new, b)
    <2>1. /\ l # 0 /\ number[b] # 0
          /\ latest_step' = StepSeen(b)
          /\ open_skipped_proposals' = now
          /\ missed' = {p \in now : GraceIsOver(p, latest_step')}
          /\ skips' = skips
      BY <1>3 DEF SeeBlock
    <2>2. /\ new \in SUBSET SkippedProposal
          /\ \A p \in new : l < p.step /\ p.step < step[b]
          /\ \A p, q \in new : p.step = q.step => p = q
      BY <2>1, <1>t, SkippedBeforeType
    <2>3. \A p \in now : /\ p \in open \/ p \in new
                         /\ p.step # step[b]
                         /\ p.step \in Nat \ {0}
      BY <2>2, <1>t DEF RemainOpen, SkippedProposal
    <2>4. latest_step' \in Nat /\ l <= latest_step' /\ step[b] <= latest_step'
      BY <2>1, <1>t DEF StepSeen
    <2>5. \A p \in now : p.step <= latest_step' /\ l - GracePeriod <= p.step
      BY <2>2, <2>3, <2>4, <1>t, <1>m DEF Separated, GraceIsOver
    <2>6. \A p, q \in now : p.step = q.step => p = q
      BY <2>2, <2>3, <1>t, <1>m DEF Separated
    <2>7. \A r \in ToSet(skips) :
            /\ r.step < latest_step' - GracePeriod
            /\ \A p \in now : r.step < p.step
      <3> SUFFICES ASSUME NEW r \in ToSet(skips)
                   PROVE  /\ r.step < latest_step' - GracePeriod
                          /\ \A p \in now : r.step < p.step
        OBVIOUS
      <3>1. r.step \in Nat /\ r.step < l - GracePeriod
        BY <1>t, <1>m DEF Separated
      <3>2. \A p \in now : p.step \in Nat /\ l - GracePeriod <= p.step
        BY <2>3, <2>5
      <3>3. r.step < latest_step' - GracePeriod
        BY <3>1, <2>4, <1>t
      <3>4. \A p \in now : r.step < p.step
        BY <3>1, <3>2, <1>t
      <3> QED BY <3>3, <3>4
    <2>8. Separated(latest_step', now, missed', skips)
      <3> HIDE DEF now, new
      <3>1. /\ missed' \subseteq now
            /\ \A p \in missed' : GraceIsOver(p, latest_step')
            /\ missed' = {} => \A p \in now : ~GraceIsOver(p, latest_step')
        BY <2>1
      <3>2. \A i, j \in DOMAIN skips : i < j => skips[i].step < skips[j].step
        BY <1>m DEF Separated
      <3> QED BY <3>1, <3>2, <2>5, <2>6, <2>7 DEF Separated
    <2>9. SeenApart(latest_step', now, delivered')
      <3> SUFFICES ASSUME NEW c \in ToSet(delivered')
                   PROVE  step[c] <= latest_step' /\ \A p \in now : p.step # step[c]
        BY DEF SeenApart
      <3>1. CASE c = b
        BY <3>1, <2>3, <2>4
      <3>2. CASE c \in ToSet(delivered)
        <4>1. /\ step[c] \in Nat /\ step[c] <= l
              /\ \A p \in open : p.step # step[c]
          BY <3>2, <1>t, <1>m DEF SeenApart
        <4>2. step[c] <= latest_step'
          BY <4>1, <2>4, <1>t
        <4>3. \A p \in new : p.step # step[c]
          BY <4>1, <2>2, <1>t DEF SkippedProposal
        <4> QED BY <4>1, <4>2, <4>3, <2>3
      <3> QED BY <1>d, <3>1, <3>2
    <2> QED BY <2>1, <2>8, <2>9
  <1> QED BY <1>1, <1>2, <1>3 DEF CallSkipReporter

\* So does a report: it is the lowest missed proposal and above all reported
\* before.
LEMMA ReportSeparates ==
  ASSUME SkipTypeOK, ReportInv, NEW p \in missed, ReportSkip(p)
  PROVE  /\ Separated(latest_step', open_skipped_proposals', missed', skips')
         /\ SeenApart(latest_step', open_skipped_proposals', delivered')
  <1>t. /\ skips \in Seq(SkippedProposal) /\ p \in SkippedProposal
        /\ \A q \in open_skipped_proposals : q.step \in Nat
        /\ \A q \in missed : q.step \in Nat
    BY DEF SkipTypeOK, SkippedProposal
  <1>m. /\ Separated(latest_step, open_skipped_proposals, missed, skips)
        /\ SeenApart(latest_step, open_skipped_proposals, delivered)
    BY DEF ReportInv
  <1>1. /\ missed' = missed \ {p}
        /\ skips' = Append(skips, p)
        /\ open_skipped_proposals' \subseteq open_skipped_proposals
        /\ missed' # {} => open_skipped_proposals' = open_skipped_proposals
        /\ missed' = {} => \A q \in open_skipped_proposals' :
                             ~GraceIsOver(q, latest_step)
        /\ UNCHANGED <<latest_step, delivered>>
    BY DEF ReportSkip, feedVars
  <1>2. \A q \in missed' : p.step < q.step
    <2> SUFFICES ASSUME NEW q \in missed' PROVE p.step < q.step
      OBVIOUS
    <2>1. q \in missed /\ q # p /\ p.step <= q.step
      BY <1>1 DEF ReportSkip, IsNextMissed
    <2>2. p.step # q.step
      BY <2>1, <1>m DEF Separated
    <2> QED BY <2>1, <2>2, <1>t
  <1>3. ToSet(skips') = ToSet(skips) \cup {p}
    BY <1>1, <1>t, AppendElements
  <1>4. missed' \subseteq open_skipped_proposals'
    BY <1>1, <1>m DEF Separated
  <1>5. \A r \in ToSet(skips') : /\ r.step < latest_step - GracePeriod
                                 /\ \A q \in missed' : r.step < q.step
    BY <1>1, <1>2, <1>3, <1>m DEF Separated, GraceIsOver
  <1>6. \A i, j \in DOMAIN skips' : i < j => skips'[i].step < skips'[j].step
    <2> SUFFICES ASSUME NEW i \in DOMAIN skips', NEW j \in DOMAIN skips', i < j
                 PROVE  skips'[i].step < skips'[j].step
      OBVIOUS
    <2>1. /\ DOMAIN skips' = 1..(Len(skips) + 1) /\ DOMAIN skips = 1..Len(skips)
          /\ Len(skips) \in Nat
          /\ skips'[Len(skips) + 1] = p
          /\ \A k \in 1..Len(skips) : skips'[k] = skips[k]
      BY <1>1, <1>t, AppendProperties
    <2>2. i \in DOMAIN skips /\ skips'[i] = skips[i] /\ skips[i] \in ToSet(skips)
      BY <2>1 DEF ToSet
    <2>3. CASE j \in DOMAIN skips
      BY <2>1, <2>2, <2>3, <1>m DEF Separated
    <2>4. CASE j = Len(skips) + 1
      BY <2>1, <2>2, <2>4, <1>m DEF Separated
    <2> QED BY <2>1, <2>3, <2>4
  <1>7. SeenApart(latest_step', open_skipped_proposals', delivered')
    BY <1>1, <1>m DEF SeenApart
  <1>8. /\ \A q \in open_skipped_proposals' : q.step <= latest_step
        /\ \A q, r \in open_skipped_proposals' : q.step = r.step => q = r
        /\ \A q \in missed' : GraceIsOver(q, latest_step)
    BY <1>1, <1>m DEF Separated
  <1> QED BY <1>1, <1>4, <1>5, <1>6, <1>7, <1>8 DEF Separated

\* Every step keeps the reports in order.
LEMMA ReportStep == SkipTypeOK /\ ReportInv /\ [SkipNext]_skipVars => ReportInv'
  <1> SUFFICES ASSUME SkipTypeOK, ReportInv, [SkipNext]_skipVars
               PROVE  ReportInv'
    OBVIOUS
  <1>1. ASSUME NEW b \in Block, CallSkipReporter(b) PROVE ReportInv'
    BY <1>1, SeeSeparates DEF CallSkipReporter, Deliver, ReportInv
  <1>2. ASSUME NEW p \in missed, ReportSkip(p) PROVE ReportInv'
    BY <1>2, ReportSeparates DEF ReportSkip, feedVars, ReportInv
  <1>3. CASE FlushSkips
    BY <1>3 DEF FlushSkips, feedVars, skipState, ReportInv
  <1>4. CASE CommitSkips
    BY <1>4 DEF CommitSkips, ReadyToCommit, Persist, skipState, ReportInv
  <1>5. CASE LoseSkips
    BY <1>5 DEF LoseSkips, Lose, ReportInv
  <1>6. CASE UNCHANGED skipVars
    BY <1>6 DEF skipVars, feedVars, skipState, fileState, ReportInv
  <1> QED BY <1>1, <1>2, <1>3, <1>4, <1>5, <1>6 DEF SkipNext

\* The invariant holds throughout.
LEMMA ReportInvHolds == SkipSpec => [](SkipTypeOK /\ ReportInv)
  BY SkipInitTypes, SkipStepTypes, ReportInit, ReportStep, PTL DEF SkipSpec

\* The reported steps increase, over forks and restarts.
THEOREM SkipsInOrderHolds == SkipSpec => []SkipsInOrder
  <1>1. ReportInv => SkipsInOrder
    BY DEF ReportInv, Separated, SkipsInOrder
  <1> QED BY <1>1, ReportInvHolds, PTL

\* No step of a delivered block is open or about to be reported.
THEOREM OpenIsUnseenHolds == SkipSpec => []OpenIsUnseen
  <1>1. ReportInv => OpenIsUnseen
    BY DEF ReportInv, Separated, SeenApart, OpenIsUnseen, OpenSteps, SeenSteps
  <1> QED BY <1>1, ReportInvHolds, PTL

\* Steps are reported when, and only when, their grace period is over.
THEOREM GraceKeptHolds == SkipSpec => []GraceKept
  <1>1. SkipTypeOK /\ ReportInv => GraceKept
    <2> SUFFICES ASSUME SkipTypeOK, ReportInv PROVE GraceKept
      OBVIOUS
    <2>t. /\ latest_step \in Nat /\ GracePeriod \in Nat
          /\ \A p \in open_skipped_proposals : p.step \in Nat
          /\ \A r \in ToSet(skips) : r.step \in Nat
      <3>1. ToSet(skips) \subseteq SkippedProposal
        BY ElementsInRange DEF SkipTypeOK
      <3>2. \A p \in SkippedProposal : p.step \in Nat
        BY DEF SkippedProposal
      <3> QED BY <3>1, <3>2, SkipAssumption DEF SkipTypeOK
    <2>1. ASSUME missed = {}, NEW p \in open_skipped_proposals
          PROVE  latest_step <= p.step + GracePeriod
      <3>1. ~(p.step < latest_step - GracePeriod)
        BY <2>1 DEF ReportInv, Separated, GraceIsOver
      <3> QED BY <3>1, <2>t
    <2>2. ASSUME NEW r \in ToSet(skips)
          PROVE  r.step + GracePeriod < latest_step
      <3>1. r.step < latest_step - GracePeriod
        BY DEF ReportInv, Separated
      <3> QED BY <3>1, <2>t
    <2> QED BY <2>1, <2>2 DEF GraceKept, OpenSteps, ReportedSteps
  <1> QED BY <1>1, ReportInvHolds, PTL

-----------------------------------------------------------------------------
(* The skip file.                                                          *)

\* A reported skip is in the buffer or in the file, and in the file when the
\* cycle may be committed.
FileInv ==
  /\ ToSet(skips) \subseteq skip_buffer \cup skip_file
  /\ flushed => ToSet(skips) \subseteq skip_file
  /\ ToSet(saved_skips.skips) \subseteq skip_file

\* Both are empty at the start.
LEMMA FileInit == SkipInit => FileInv
  BY DEF SkipInit, FreshSkips, FileInv, ToSet

\* Every step keeps the reported skips in one of them.
LEMMA FileStep == SkipTypeOK /\ ReportInv /\ FileInv /\ [SkipNext]_skipVars => FileInv'
  <1> SUFFICES ASSUME SkipTypeOK, ReportInv, FileInv, [SkipNext]_skipVars
               PROVE  FileInv'
    OBVIOUS
  <1>1. ASSUME NEW b \in Block, CallSkipReporter(b) PROVE FileInv'
    BY <1>1
    DEF CallSkipReporter, SeeGenesis, SeeFirst, SeeBlock, skipState, FileInv
  <1>2. ASSUME NEW p \in missed, ReportSkip(p) PROVE FileInv'
    <2>1. ~flushed /\ p \in SkippedProposal
      BY <1>2 DEF ReportInv, SkipTypeOK
    <2>2. ToSet(skips') = ToSet(skips) \cup {p}
      BY <1>2, <2>1, AppendElements DEF ReportSkip, SkipTypeOK
    <2> QED BY <1>2, <2>1, <2>2 DEF ReportSkip, FileInv
  <1>3. CASE FlushSkips
    BY <1>3 DEF FlushSkips, skipState, FileInv
  <1>4. CASE CommitSkips
    BY <1>4 DEF CommitSkips, ReadyToCommit, skipState, FileInv
  <1>5. CASE LoseSkips
    BY <1>5 DEF LoseSkips, FileInv
  <1>6. CASE UNCHANGED skipVars
    BY <1>6 DEF skipVars, skipState, fileState, FileInv
  <1> QED BY <1>1, <1>2, <1>3, <1>4, <1>5, <1>6 DEF SkipNext

\* Every committed skip has its line in the file.
THEOREM CommittedSkipsInFileHolds == SkipSpec => []CommittedSkipsInFile
  <1>1. FileInv => CommittedSkipsInFile
    BY DEF FileInv, CommittedSkipsInFile
  <1> QED BY <1>1, FileInit, FileStep, ReportInvHolds, PTL DEF SkipSpec

-----------------------------------------------------------------------------
(* The promise to the callbacks.                                           *)

\* Only steps a tree of blocks can skip are open.
PossibleInv ==
  /\ open_skipped_proposals \subseteq PossibleProposal
  /\ saved_skips.open_skipped_proposals \subseteq PossibleProposal

\* No step is open at the start.
LEMMA PossibleInit == SkipInit => PossibleInv
  BY DEF SkipInit, FreshSkips, PossibleInv

\* What a block opens is possible.
LEMMA SkippedBeforePossible ==
  ASSUME latest_step \in Nat, NEW b \in Block
  PROVE  SkippedBefore(b) \subseteq PossibleProposal
  <1>1. \A s \in (latest_step + 1)..(step[b] - 1) : s \in 1..step[b]
    BY SkipAssumption
  <1>2. SkippedBefore(b) \subseteq
          {[step |-> s, block_height |-> number[b]] : s \in 1..step[b]}
    BY <1>1 DEF SkippedBefore
  <1> QED BY <1>2 DEF PossibleProposal

\* Every step keeps to the possible steps.
LEMMA PossibleStep ==
  SkipTypeOK /\ PossibleInv /\ [SkipNext]_skipVars => PossibleInv'
  <1> SUFFICES ASSUME SkipTypeOK, PossibleInv, [SkipNext]_skipVars
               PROVE  PossibleInv'
    OBVIOUS
  <1>1. ASSUME NEW b \in Block, CallSkipReporter(b) PROVE PossibleInv'
    <2>1. SkippedBefore(b) \subseteq PossibleProposal
      BY SkippedBeforePossible DEF SkipTypeOK
    <2>2. open_skipped_proposals' \subseteq PossibleProposal
      BY <1>1, <2>1
      DEF CallSkipReporter, SeeGenesis, SeeFirst, SeeBlock, RemainOpen,
          skipState, PossibleInv
    <2> QED BY <1>1, <2>2 DEF CallSkipReporter, PossibleInv
  <1>2. ASSUME NEW p \in missed, ReportSkip(p) PROVE PossibleInv'
    BY <1>2 DEF ReportSkip, PossibleInv
  <1>3. CASE FlushSkips \/ UNCHANGED skipVars
    BY <1>3 DEF FlushSkips, skipVars, skipState, PossibleInv
  <1>4. CASE CommitSkips
    BY <1>4 DEF CommitSkips, skipState, PossibleInv
  <1>5. CASE LoseSkips
    BY <1>5 DEF LoseSkips, PossibleInv
  <1> QED BY <1>1, <1>2, <1>3, <1>4, <1>5 DEF SkipNext

\* Every step of the reporter is one of the skip feed or leaves it alone.
LEMMA StepSkips ==
  ASSUME SkipTypeOK, ReportInv, PossibleInv, [SkipNext]_skipVars
  PROVE  [Skipped!SkipFeedNext]_(Skipped!skipFeedVars)
  <1>1. ASSUME NEW b \in Block, CallSkipReporter(b)
        PROVE  UNCHANGED Skipped!skipFeedVars
    BY <1>1
    DEF CallSkipReporter, SeeGenesis, SeeFirst, SeeBlock, skipState,
        Skipped!skipFeedVars
  <1>2. ASSUME NEW p \in missed, ReportSkip(p)
        PROVE  Skipped!SkipFeedNext
    <2>1. p \in PossibleProposal
      BY DEF ReportInv, Separated, PossibleInv
    <2>2. Skipped!Follows(p)
      BY DEF ReportInv, Separated, Skipped!Follows, ToSet
    <2>3. Skipped!Report(p)
      BY <1>2, <2>2 DEF ReportSkip, Skipped!Report, Skipped!Hear
    <2> QED BY <2>1, <2>3 DEF Skipped!SkipFeedNext
  <1>3. CASE FlushSkips \/ UNCHANGED skipVars
    BY <1>3 DEF FlushSkips, skipVars, skipState, Skipped!skipFeedVars
  <1>4. CASE CommitSkips
    BY <1>4
    DEF CommitSkips, skipState, Skipped!PersistSkips, Skipped!SkipFeedNext
  <1>5. CASE LoseSkips
    BY <1>5 DEF LoseSkips, Skipped!ForgetSkips, Skipped!SkipFeedNext
  <1> QED BY <1>1, <1>2, <1>3, <1>4, <1>5 DEF SkipNext

\* The skip reporter implements what the offline reporter is specified
\* against: increasing steps, and a crash takes back what is not committed.
THEOREM SkipFeedImplemented == SkipSpec => ImplementsSkipFeed
  <1>1. SkipInit => Skipped!SkipFeedInit
    BY DEF SkipInit, FreshSkips, Skipped!SkipFeedInit
  <1>2. SkipTypeOK /\ ReportInv /\ PossibleInv /\ [SkipNext]_skipVars
          => [Skipped!SkipFeedNext]_(Skipped!skipFeedVars)
    BY StepSkips
  <1> QED BY <1>1, <1>2, ReportInvHolds, PossibleInit, PossibleStep, PTL
          DEF SkipSpec, ImplementsSkipFeed, Skipped!SkipFeedSpec

-----------------------------------------------------------------------------
(* No step gets lost, and each skip fits a fork.                           *)

\* Every step up to the latest step l is accounted for by the blocks d, the
\* open proposals and the reported ones sk.
Accounted(l, open, sk, d) ==
  /\ l # 0 => \E i \in DOMAIN d : number[d[i]] # 0
  /\ \A i \in DOMAIN d : FirstCounted(d, i) =>
       \A s \in (step[d[i]] + 1)..l :
         \/ \E b \in ToSet(d) : step[b] = s
         \/ \E p \in open \cup ToSet(sk) : p.step = s

\* The proposal p was skipped between a block of d and its parent.
Fits(p, d) ==
  \E b \in ToSet(d) :
    /\ number[b] = p.block_height
    /\ p.step < step[b]
    /\ parent[b] \in ToSet(d)
    /\ step[parent[b]] < p.step

AccountInv ==
  /\ Accounted(latest_step, open_skipped_proposals, skips, delivered)
  /\ \A p \in open_skipped_proposals :
       GraceIsOver(p, latest_step) => p \in missed \cup ToSet(skips)
  /\ \A p \in open_skipped_proposals \cup ToSet(skips) : Fits(p, delivered)
  /\ Accounted(saved_skips.latest_step, saved_skips.open_skipped_proposals,
               saved_skips.skips, durable)
  /\ \A p \in saved_skips.open_skipped_proposals :
       ~GraceIsOver(p, saved_skips.latest_step)
  /\ \A p \in saved_skips.open_skipped_proposals \cup ToSet(saved_skips.skips) :
       Fits(p, durable)

\* There is nothing to account for at the start.
LEMMA AccountInit == SkipInit => AccountInv
  BY DEF SkipInit, FeedInit, FreshSkips, AccountInv, Accounted, ToSet

\* What a block does to the blocks that are counted first: it may only be one
\* itself if no block was counted before it.
LEMMA FirstCountedMoves ==
  ASSUME NEW d \in Seq(Block), NEW b \in Block,
         NEW i \in DOMAIN Append(d, b), FirstCounted(Append(d, b), i)
  PROVE  \/ i \in DOMAIN d /\ FirstCounted(d, i) /\ Append(d, b)[i] = d[i]
         \/ /\ i = Len(d) + 1 /\ Append(d, b)[i] = b /\ number[b] # 0
            /\ \A j \in DOMAIN d : number[d[j]] = 0
  <1>1. /\ DOMAIN Append(d, b) = 1..(Len(d) + 1) /\ DOMAIN d = 1..Len(d)
        /\ Len(d) \in Nat
        /\ Append(d, b)[Len(d) + 1] = b
        /\ \A k \in 1..Len(d) : Append(d, b)[k] = d[k]
    BY AppendProperties
  <1>2. CASE i = Len(d) + 1
    <2>1. \A j \in 1..Len(d) : number[Append(d, b)[j]] = 0
      BY <1>1, <1>2 DEF FirstCounted
    <2> QED BY <1>1, <1>2, <2>1 DEF FirstCounted
  <1>3. CASE i \in 1..Len(d)
    <2>1. \A j \in 1..(i - 1) : j \in 1..Len(d) /\ Append(d, b)[j] = d[j]
      BY <1>1, <1>3
    <2> QED BY <1>1, <1>3, <2>1 DEF FirstCounted
  <1> QED BY <1>1, <1>2, <1>3

\* A block accounts for the steps it goes past, and what it opens fits the
\* fork it is on, since its parent came before it.
LEMMA SeeAccounts ==
  ASSUME SkipTypeOK, ReportInv, AccountInv, NEW b \in Block, CallSkipReporter(b)
  PROVE  /\ Accounted(latest_step', open_skipped_proposals', skips', delivered')
         /\ \A p \in open_skipped_proposals' :
              GraceIsOver(p, latest_step') => p \in missed' \cup ToSet(skips')
         /\ \A p \in open_skipped_proposals' \cup ToSet(skips') : Fits(p, delivered')
  <1> DEFINE l == latest_step
             open == open_skipped_proposals
  <1>t. /\ l \in Nat /\ delivered \in Seq(Block)
        /\ number[b] = 0 <=> step[b] = 0
        /\ \A c \in Block : step[c] \in Nat /\ (number[c] = 0 <=> step[c] = 0)
        /\ ToSet(delivered) \subseteq Block
        /\ \A i \in DOMAIN delivered : delivered[i] \in ToSet(delivered)
    BY ElementsInRange, SkipAssumption DEF SkipTypeOK, ToSet
  <1>d. /\ delivered' = Append(delivered, b)
        /\ ToSet(delivered') = ToSet(delivered) \cup {b}
        /\ delivered' \in Seq(Block)
        /\ \A i \in DOMAIN delivered :
             i \in DOMAIN delivered' /\ delivered'[i] = delivered[i]
        /\ Len(delivered) + 1 \in DOMAIN delivered'
        /\ delivered'[Len(delivered) + 1] = b
    BY <1>t, AppendElements, AppendProperties DEF CallSkipReporter, Deliver
  <1>a. /\ Accounted(l, open, skips, delivered)
        /\ \A p \in open \cup ToSet(skips) : Fits(p, delivered')
        /\ missed = {}
    BY <1>d DEF AccountInv, Fits, CallSkipReporter
  <1>s. \A c \in ToSet(delivered) : step[c] \in Nat /\ step[c] <= l
    BY <1>t DEF ReportInv, SeenApart
  <1>1. CASE SeeGenesis(b)
    <2>1. number[b] = 0 /\ UNCHANGED <<skipState, missed>>
      BY <1>1 DEF SeeGenesis
    <2>2. Accounted(l, open, skips, delivered')
      <3>1. l # 0 => \E i \in DOMAIN delivered' : number[delivered'[i]] # 0
        BY <1>a, <1>d DEF Accounted
      <3>2. ASSUME NEW i \in DOMAIN delivered', FirstCounted(delivered', i),
                   NEW s \in (step[delivered'[i]] + 1)..l
            PROVE  \/ \E c \in ToSet(delivered') : step[c] = s
                   \/ \E p \in open \cup ToSet(skips) : p.step = s
        <4>1. i \in DOMAIN delivered /\ FirstCounted(delivered, i)
              /\ delivered'[i] = delivered[i]
          BY <1>t, <1>d, <2>1, <3>2, FirstCountedMoves
        <4> QED BY <3>2, <4>1, <1>a, <1>d DEF Accounted
      <3> QED BY <3>1, <3>2 DEF Accounted
    <2> QED BY <2>1, <2>2, <1>a DEF skipState, AccountInv
  <1>2. CASE SeeFirst(b)
    <2>1. /\ number[b] # 0 /\ l = 0 /\ latest_step' = step[b]
          /\ UNCHANGED <<open_skipped_proposals, skips, missed>>
      BY <1>2 DEF SeeFirst
    <2>2. open = {}
      <3>1. \A p \in open : p.step <= l /\ p.step \in Nat \ {0}
        BY DEF ReportInv, Separated, SkipTypeOK, SkippedProposal
      <3> QED BY <2>1, <3>1
    <2>3. ASSUME NEW i \in DOMAIN delivered', FirstCounted(delivered', i)
          PROVE  delivered'[i] = b
      <3>1. CASE i \in DOMAIN delivered /\ FirstCounted(delivered, i)
        <4>1. delivered[i] \in ToSet(delivered) /\ number[delivered[i]] # 0
          BY <3>1, <1>t DEF FirstCounted
        <4>2. step[delivered[i]] <= 0 /\ step[delivered[i]] \in Nat
          BY <4>1, <1>s, <2>1
        <4> QED BY <4>1, <4>2, <1>t
      <3> QED BY <3>1, <1>t, <1>d, <2>3, FirstCountedMoves
    <2>4. Accounted(latest_step', open, skips, delivered')
      <3>1. \E i \in DOMAIN delivered' : number[delivered'[i]] # 0
        BY <1>d, <2>1
      <3>2. \A i \in DOMAIN delivered' : FirstCounted(delivered', i) =>
              (step[delivered'[i]] + 1)..latest_step' = {}
        BY <1>t, <2>1, <2>3
      <3> QED BY <3>1, <3>2 DEF Accounted
    <2> QED BY <2>1, <2>2, <2>4, <1>a
  <1>3. CASE SeeBlock(b)
    <2> DEFINE new == SkippedBefore(b)
               now == RemainOpen(open \cup new, b)
    <2>1. /\ l # 0 /\ number[b] # 0
          /\ latest_step' = StepSeen(b)
          /\ open_skipped_proposals' = now
          /\ missed' = {p \in now : GraceIsOver(p, latest_step')}
          /\ skips' = skips
      BY <1>3 DEF SeeBlock
    <2>2. \E i \in DOMAIN delivered : number[delivered[i]] # 0
      BY <2>1, <1>a DEF Accounted
    <2>3. Accounted(latest_step', now, skips, delivered')
      <3>1. \E i \in DOMAIN delivered' : number[delivered'[i]] # 0
        BY <2>2, <1>d
      <3>2. ASSUME NEW i \in DOMAIN delivered', FirstCounted(delivered', i),
                   NEW s \in (step[delivered'[i]] + 1)..latest_step',
                   s # step[b], ~\E c \in ToSet(delivered) : step[c] = s
            PROVE  \E p \in now \cup ToSet(skips) : p.step = s
        <4>1. /\ i \in DOMAIN delivered /\ FirstCounted(delivered, i)
              /\ delivered'[i] = delivered[i]
          BY <1>t, <1>d, <2>2, <3>2, FirstCountedMoves
        <4>2. step[delivered[i]] \in Nat /\ s \in Int
          BY <4>1, <1>t
        <4>3. CASE s <= l
          <5>1. s \in (step[delivered[i]] + 1)..l
            BY <3>2, <4>1, <4>2, <4>3, <1>t
          <5>2. PICK p \in open \cup ToSet(skips) : p.step = s
            BY <3>2, <4>1, <5>1, <1>a DEF Accounted
          <5> QED BY <3>2, <5>2 DEF RemainOpen
        <4>4. CASE ~(s <= l)
          <5>1. s \in (l + 1)..(step[b] - 1)
            BY <2>1, <3>2, <4>2, <4>4, <1>t DEF StepSeen
          <5>2. [step |-> s, block_height |-> number[b]] \in new
            BY <5>1 DEF SkippedBefore
          <5>3. [step |-> s, block_height |-> number[b]] \in now
            BY <5>2, <3>2 DEF RemainOpen
          <5> QED BY <5>3
        <4> QED BY <4>3, <4>4
      <3> QED BY <3>1, <3>2, <1>d DEF Accounted
    <2>4. ASSUME NEW p \in new
          PROVE  Fits(p, delivered')
      <3>1. l < p.step /\ p.step < step[b] /\ p.block_height = number[b]
            /\ p.step \in Nat
        BY <2>1, <1>t, SkippedBeforeType DEF SkippedBefore, SkippedProposal
      <3>2. delivered # <<>>
        BY <2>2
      <3>3. parent[b] \in ToSet(delivered)
        BY <3>2 DEF CallSkipReporter, Deliver
      <3>4. step[parent[b]] \in Nat /\ step[parent[b]] <= l
        BY <3>3, <1>s
      <3>5. step[parent[b]] < p.step
        BY <3>1, <3>4, <1>t
      <3> QED BY <3>1, <3>3, <3>5, <1>d DEF Fits
    <2>5. \A p \in now \cup ToSet(skips) : Fits(p, delivered')
      BY <2>4, <1>a DEF RemainOpen
    <2> QED BY <2>1, <2>3, <2>5
  <1> QED BY <1>1, <1>2, <1>3 DEF CallSkipReporter

\* A report moves a proposal from the open ones to the reported ones, and those
\* that are closed with the last report have been reported.
LEMMA ReportAccounts ==
  ASSUME SkipTypeOK, ReportInv, AccountInv, NEW p \in missed, ReportSkip(p)
  PROVE  /\ Accounted(latest_step', open_skipped_proposals', skips', delivered')
         /\ \A q \in open_skipped_proposals' :
              GraceIsOver(q, latest_step') => q \in missed' \cup ToSet(skips')
         /\ \A q \in open_skipped_proposals' \cup ToSet(skips') : Fits(q, delivered')
  <1>1. /\ missed' = missed \ {p}
        /\ skips' = Append(skips, p)
        /\ open_skipped_proposals' =
             IF missed' # {} THEN open_skipped_proposals
             ELSE {q \in open_skipped_proposals : ~GraceIsOver(q, latest_step)}
        /\ UNCHANGED <<latest_step, delivered>>
    BY DEF ReportSkip, feedVars
  <1>2. p \in open_skipped_proposals /\ p \in SkippedProposal
    BY DEF ReportInv, Separated, SkipTypeOK
  <1>3. ToSet(skips') = ToSet(skips) \cup {p}
    BY <1>1, <1>2, AppendElements DEF SkipTypeOK
  <1>4. open_skipped_proposals \cup ToSet(skips)
          \subseteq open_skipped_proposals' \cup ToSet(skips')
    BY <1>1, <1>3 DEF AccountInv
  <1>5. Accounted(latest_step, open_skipped_proposals', skips', delivered)
    BY <1>4 DEF AccountInv, Accounted
  <1> QED BY <1>1, <1>2, <1>3, <1>5 DEF AccountInv

\* Every step keeps the account.
LEMMA AccountStep ==
  SkipTypeOK /\ ReportInv /\ AccountInv /\ [SkipNext]_skipVars => AccountInv'
  <1> SUFFICES ASSUME SkipTypeOK, ReportInv, AccountInv, [SkipNext]_skipVars
               PROVE  AccountInv'
    OBVIOUS
  <1>1. ASSUME NEW b \in Block, CallSkipReporter(b) PROVE AccountInv'
    <2>1. UNCHANGED <<durable, saved_skips>>
      BY <1>1 DEF CallSkipReporter, Deliver
    <2> QED BY <1>1, <2>1, SeeAccounts DEF AccountInv
  <1>2. ASSUME NEW p \in missed, ReportSkip(p) PROVE AccountInv'
    <2>1. UNCHANGED <<durable, saved_skips>>
      BY <1>2 DEF ReportSkip, feedVars
    <2> QED BY <1>2, <2>1, ReportAccounts DEF AccountInv
  <1>3. CASE FlushSkips
    BY <1>3 DEF FlushSkips, feedVars, skipState, AccountInv
  <1>4. CASE CommitSkips
    <2>1. \A p \in open_skipped_proposals : ~GraceIsOver(p, latest_step)
      BY <1>4 DEF CommitSkips, ReadyToCommit, ReportInv, Separated
    <2> QED BY <1>4, <2>1 DEF CommitSkips, Persist, skipState, AccountInv
  <1>5. CASE LoseSkips
    BY <1>5 DEF LoseSkips, Lose, AccountInv
  <1>6. CASE UNCHANGED skipVars
    BY <1>6 DEF skipVars, feedVars, skipState, AccountInv
  <1> QED BY <1>1, <1>2, <1>3, <1>4, <1>5, <1>6 DEF SkipNext

\* The account holds throughout.
LEMMA AccountHolds == SkipSpec => [](SkipTypeOK /\ AccountInv)
  BY ReportInvHolds, AccountInit, AccountStep, PTL DEF SkipSpec

\* No step between the first counted block and the latest one is lost, in
\* whichever order the forks arrive and wherever the process goes down.
THEOREM StepsAccountedHolds == SkipSpec => []StepsAccounted
  <1>1. SkipTypeOK /\ AccountInv => StepsAccounted
    <2> SUFFICES ASSUME SkipTypeOK, AccountInv,
                        NEW i \in DOMAIN delivered, IsFirstCounted(i),
                        NEW s \in (step[delivered[i]] + 1)..latest_step
                 PROVE  s \in SeenSteps \cup OpenSteps \cup ReportedSteps
      BY DEF StepsAccounted
    <2>1. FirstCounted(delivered, i)
      BY DEF IsFirstCounted, FirstCounted
    <2>2. \/ \E b \in ToSet(delivered) : step[b] = s
          \/ \E p \in open_skipped_proposals \cup ToSet(skips) : p.step = s
      BY <2>1 DEF AccountInv, Accounted
    <2> QED BY <2>2 DEF SeenSteps, OpenSteps, ReportedSteps
  <1> QED BY <1>1, AccountHolds, PTL

\* Each skip is attributed to a height at which the skipped block would have
\* been, on a fork that was delivered.
THEOREM SkipFitsAForkHolds == SkipSpec => []SkipFitsAFork
  <1>1. AccountInv => SkipFitsAFork
    BY DEF AccountInv, Fits, SkipFitsAFork
  <1> QED BY <1>1, AccountHolds, PTL

\* Every miss that is over in the committed state is on file: it is not open any
\* more, so it has been reported, and what is reported is flushed first.
THEOREM MissesOnFileHolds == SkipSpec => []MissesOnFile
  <1>1. SkipTypeOK /\ AccountInv /\ CommittedSkipsInFile => MissesOnFile
    <2> DEFINE l == saved_skips.latest_step
    <2> SUFFICES ASSUME SkipTypeOK, AccountInv, CommittedSkipsInFile,
                        NEW i \in DOMAIN durable, FirstCounted(durable, i),
                        NEW s \in (step[durable[i]] + 1)..(l - GracePeriod - 1),
                        ~\E b \in ToSet(durable) : step[b] = s
                 PROVE  \E p \in skip_file : p.step = s
      BY DEF MissesOnFile
    <2>1. l \in Nat /\ GracePeriod \in Nat /\ step[durable[i]] \in Nat
      BY SkipAssumption, ElementOfSeq DEF SkipTypeOK
    <2>2. s \in (step[durable[i]] + 1)..l /\ s < l - GracePeriod
      BY <2>1
    <2>3. PICK p \in saved_skips.open_skipped_proposals \cup ToSet(saved_skips.skips) :
            p.step = s
      BY <2>2 DEF AccountInv, Accounted
    <2>4. p \notin saved_skips.open_skipped_proposals
      BY <2>2, <2>3 DEF AccountInv, GraceIsOver
    <2> QED BY <2>3, <2>4 DEF CommittedSkipsInFile
  <1> QED BY <1>1, AccountHolds, CommittedSkipsInFileHolds, PTL

\* The skip file lacks nothing that is committed or over.
THEOREM SkipFileCompleteHolds == SkipSpec => []SkipFileComplete
  BY CommittedSkipsInFileHolds, MissesOnFileHolds, PTL DEF SkipFileComplete
=============================================================================
