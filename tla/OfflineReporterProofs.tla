----------------------- MODULE OfflineReporterProofs -----------------------
(***************************************************************************)
(* Theorems about OfflineReporter, for every window, rate and history of   *)
(* validator lists.                                                        *)
(***************************************************************************)
EXTENDS OfflineReporter, FiniteSetTheorems, SequenceTheorems, TLAPS

-----------------------------------------------------------------------------
(* Types, but for the offline time, which is a sum: see below.             *)

Intervals == [Validator -> SUBSET OfflineInterval]

OfflineTypes ==
  /\ skips \in Seq(Proposal) /\ durable_skips \in Seq(Proposal)
  /\ reported_validators \in SUBSET Validator
  /\ saved_offline.reported \in SUBSET Validator
  /\ intervals \in Intervals /\ saved_offline.intervals \in Intervals
  /\ counted \in Intervals /\ saved_offline.counted \in Intervals

\* The primary of a step is one of the validators.
LEMMA PrimaryIsValidator ==
  ASSUME NEW vs \in ValidatorLists, NEW s \in Nat
  PROVE  PrimaryOf(vs, s) \in Validator /\ Len(vs) \in Nat
  <1>1. vs \in Seq(Validator) /\ Len(vs) \in Nat \ {0}
    BY OfflineAssumption, EmptySeq, LenProperties
  <1>2. s % Len(vs) \in 0..(Len(vs) - 1)
    BY <1>1
  <1>3. (s % Len(vs)) + 1 \in 1..Len(vs)
    BY <1>1, <1>2
  <1> QED BY <1>1, <1>3, ElementOfSeq DEF PrimaryOf

\* The interval that a skip adds.
LEMMA IntervalType ==
  ASSUME NEW p \in Proposal, NEW length \in Nat
  PROVE  [step |-> p.step, length |-> length] \in OfflineInterval
  BY ProposalAssumption DEF OfflineInterval

\* The state at the start is well typed.
LEMMA OfflineInitTypes == OfflineInit => OfflineTypes
  <1>1. <<>> \in Seq(Proposal)
    BY EmptySeq
  <1> QED BY <1>1
          DEF OfflineInit, SkipFeedInit, FreshOffline, OfflineTypes, Intervals

\* Every step keeps the types.
LEMMA OfflineStepTypes == OfflineTypes /\ [OfflineNext]_offlineVars => OfflineTypes'
  <1> SUFFICES ASSUME OfflineTypes, [OfflineNext]_offlineVars PROVE OfflineTypes'
    OBVIOUS
  <1>1. \A e : LoseOffline(e) => OfflineTypes'
    BY DEF LoseOffline, ForgetSkips, OfflineTypes
  <1>2. ASSUME NEW p \in Proposal, IgnoreSkip(p) PROVE OfflineTypes'
    BY <1>2, AppendProperties DEF IgnoreSkip, Hear, offlineState, OfflineTypes
  <1>3. ASSUME NEW p \in Proposal, NEW v \in Validator, NEW length \in Nat,
               CountSkip(p, v, length)
        PROVE  OfflineTypes'
    <2>1. skips' \in Seq(Proposal) /\ durable_skips' \in Seq(Proposal)
      BY <1>3, AppendProperties DEF CountSkip, Hear, OfflineTypes
    <2>2. \A w \in Validator : \A s : Recent(intervals[w], s) \subseteq OfflineInterval
      BY DEF Recent, OfflineTypes, Intervals
    <2>3. intervals' \in Intervals
      <3> DEFINE o == [step |-> p.step, length |-> length]
                 kept == [w \in Validator |-> Recent(intervals[w], p.step)]
      <3>1. kept \in Intervals
        BY <2>2 DEF Intervals
      <3>2. o \in OfflineInterval
        BY IntervalType
      <3>3. \/ intervals' = [kept EXCEPT ![v] = {}]
            \/ intervals' = [kept EXCEPT ![v] = @ \cup {o}]
        BY <1>3 DEF CountSkip
      <3> HIDE DEF o, kept
      <3> QED BY <3>1, <3>2, <3>3 DEF Intervals
    <2>4. counted' \in Intervals
      BY <1>3, IntervalType DEF CountSkip, OfflineTypes, Intervals
    <2>5. reported_validators' \in SUBSET Validator
      BY <1>3 DEF CountSkip, OfflineTypes
    <2> QED BY <1>3, <2>1, <2>3, <2>4, <2>5 DEF CountSkip, OfflineTypes
  <1>4. ASSUME NEW p \in Proposal, NEW vs \in ValidatorLists,
               CallOfflineReporter(p, vs)
        PROVE  OfflineTypes'
    BY <1>1, <1>2, <1>3, <1>4, PrimaryIsValidator, ProposalAssumption
    DEF CallOfflineReporter, HandleSkip
  <1>5. CASE CommitOffline
    BY <1>5 DEF CommitOffline, PersistSkips, offlineState, OfflineTypes
  <1>6. CASE UNCHANGED offlineVars
    BY <1>6 DEF offlineVars, skipFeedVars, offlineState, OfflineTypes
  <1> QED BY <1>1, <1>4, <1>5, <1>6 DEF OfflineNext

-----------------------------------------------------------------------------
(* The window.                                                             *)

\* Every interval of cnt comes from a skip in sk.
FromSkips(cnt, sk) ==
  \A v \in Validator : \A o \in cnt[v] : \E i \in DOMAIN sk : sk[i].step = o.step

\* The intervals ints are those of cnt that no counted one has pushed out of
\* the window, and none for the validators in rep.
InWindow(ints, cnt, rep) ==
  \A v \in Validator :
    /\ v \in rep => ints[v] = {}
    /\ ints[v] \subseteq cnt[v]
    /\ \A o \in ints[v] : \A w \in Validator : \A u \in cnt[w] :
         u.step - WindowSize <= o.step
    /\ v \notin rep => \A o \in cnt[v] \ ints[v] :
         \E w \in Validator : \E u \in cnt[w] : o.step < u.step - WindowSize

\* Each validator in rep has one of the files, which lists its last window.
HasFile(cnt, rep, files) ==
  \A v \in rep :
    \E o \in cnt[v] :
      /\ \A u \in cnt[v] : u.step <= o.step
      /\ [validator |-> v, intervals |-> WindowAt(cnt[v], o.step)] \in files

OfflineInv ==
  /\ FromSkips(counted, skips)
  /\ FromSkips(saved_offline.counted, durable_skips)
  /\ InWindow(intervals, counted, reported_validators)
  /\ InWindow(saved_offline.intervals, saved_offline.counted,
              saved_offline.reported)
  /\ HasFile(counted, reported_validators, reports)
  /\ HasFile(saved_offline.counted, saved_offline.reported, reports)

\* Nothing has been counted at the start.
LEMMA OfflineInvInit == OfflineInit => OfflineInv
  BY DEF OfflineInit, SkipFeedInit, FreshOffline, OfflineInv, FromSkips, InWindow,
         HasFile

\* What has been counted is of earlier steps than the next skip.
LEMMA CountedBefore ==
  ASSUME OfflineTypes, OfflineInv, NEW p \in Proposal, Follows(p)
  PROVE  /\ p.step \in Nat
         /\ \A w \in Validator : \A o \in counted[w] :
              o.step \in Nat /\ o.step < p.step
         /\ \A w \in Validator : intervals[w] \subseteq counted[w]
  <1>1. \A w \in Validator : \A o \in counted[w] : o.step \in Nat
    BY DEF OfflineTypes, Intervals, OfflineInterval
  <1>2. \A w \in Validator : \A o \in counted[w] : o.step < p.step
    BY DEF OfflineInv, FromSkips, Follows
  <1> QED BY <1>1, <1>2, ProposalAssumption DEF OfflineInv, InWindow

\* A skip does not fail: the assertion holds.
LEMMA InOrderHolds ==
  ASSUME OfflineTypes, OfflineInv, NEW p \in Proposal, Follows(p),
         NEW v \in Validator
  PROVE  InOrder(v, p.step)
  BY CountedBefore DEF InOrder, Recent

\* The recent intervals of a validator that has not been reported are all that
\* were counted for it from the cutoff on.
LEMMA RecentIsWindow ==
  ASSUME OfflineTypes, OfflineInv, NEW p \in Proposal, Follows(p),
         NEW w \in Validator, w \notin reported_validators
  PROVE  Recent(intervals[w], p.step) = {o \in counted[w] : o.step >= p.step - WindowSize}
  <1>1. \A o \in counted[w] : o.step >= p.step - WindowSize => o \in intervals[w]
    <2> SUFFICES ASSUME NEW o \in counted[w], o.step >= p.step - WindowSize,
                        o \notin intervals[w]
                 PROVE  FALSE
      OBVIOUS
    <2>1. PICK x \in Validator : \E u \in counted[x] : o.step < u.step - WindowSize
      BY DEF OfflineInv, InWindow
    <2>2. PICK u \in counted[x] : o.step < u.step - WindowSize
      BY <2>1
    <2> QED BY <2>2, CountedBefore, OfflineAssumption
  <1> QED BY <1>1, CountedBefore DEF Recent

\* Counting a skip keeps the window, and the file of a report lists it.
LEMMA CountKeeps ==
  ASSUME OfflineTypes, OfflineInv, NEW p \in Proposal, Follows(p),
         NEW v \in Validator, v \notin reported_validators, NEW length \in Nat,
         CountSkip(p, v, length)
  PROVE  OfflineInv'
  <1> DEFINE o == [step |-> p.step, length |-> length]
             kept == [w \in Validator |-> Recent(intervals[w], p.step)]
  <1>t. /\ o \in OfflineInterval /\ o.step = p.step /\ p.step \in Nat
        /\ WindowSize \in Nat
        /\ counted' = [counted EXCEPT ![v] = @ \cup {o}]
        /\ counted \in Intervals
        /\ UNCHANGED <<saved_offline, durable_skips>>
        /\ reports \subseteq reports'
    BY IntervalType, ProposalAssumption, OfflineAssumption
    DEF CountSkip, Hear, OfflineTypes
  <1>c. \A w \in Validator : counted'[w] = IF w = v THEN counted[v] \cup {o}
                                           ELSE counted[w]
    BY <1>t DEF Intervals
  <1>b. \A w \in Validator : \A u \in counted[w] : u.step \in Nat /\ u.step < p.step
    BY CountedBefore
  <1>k. \A w \in Validator :
          /\ kept[w] \subseteq counted[w]
          /\ w \in reported_validators => kept[w] = {}
          /\ w \notin reported_validators =>
               kept[w] = {u \in counted[w] : u.step >= p.step - WindowSize}
    BY RecentIsWindow, CountedBefore DEF OfflineInv, InWindow, Recent
  <1>i. \A w \in Validator :
          intervals'[w] = IF w # v THEN kept[w]
                          ELSE IF v \in reported_validators' THEN {}
                          ELSE kept[v] \cup {o}
    BY DEF CountSkip
  <1>r. /\ reported_validators' \subseteq reported_validators \cup {v}
        /\ reported_validators \subseteq reported_validators'
        /\ v \in reported_validators' =>
             [validator |-> v, intervals |-> kept[v] \cup {o}] \in reports'
    BY DEF CountSkip, ReportedIntervals
  <1>w. kept[v] \cup {o} = WindowAt(counted'[v], p.step)
    <2>1. \A u \in counted[v] :
            u.step \in (p.step - WindowSize)..p.step <=> u.step >= p.step - WindowSize
      BY <1>b, <1>t
    <2>2. o.step \in (p.step - WindowSize)..p.step
      BY <1>t
    <2>3. kept[v] = {u \in counted[v] : u.step >= p.step - WindowSize}
      BY <1>k
    <2> HIDE DEF o, kept
    <2> QED BY <1>c, <2>1, <2>2, <2>3 DEF WindowAt
  <1> HIDE DEF o, kept
  <1>1. FromSkips(counted, skips)'
    <2>1. /\ DOMAIN skips' = 1..(Len(skips) + 1) /\ DOMAIN skips = 1..Len(skips)
          /\ Len(skips) \in Nat /\ skips'[Len(skips) + 1] = p
          /\ \A i \in DOMAIN skips : skips'[i] = skips[i]
      BY AppendProperties DEF CountSkip, Hear, OfflineTypes
    <2>2. \A i \in DOMAIN skips : i \in DOMAIN skips' /\ skips'[i].step = skips[i].step
      BY <2>1
    <2>3. Len(skips) + 1 \in DOMAIN skips' /\ skips'[Len(skips) + 1].step = o.step
      BY <2>1, <1>t
    <2>4. FromSkips(counted, skips)
      BY DEF OfflineInv
    <2> QED BY <2>2, <2>3, <2>4, <1>c DEF FromSkips
  <1>2. InWindow(intervals, counted, reported_validators)'
    <2> SUFFICES ASSUME NEW w \in Validator
                 PROVE  /\ w \in reported_validators' => intervals'[w] = {}
                        /\ intervals'[w] \subseteq counted'[w]
                        /\ \A a \in intervals'[w] : \A x \in Validator :
                             \A u \in counted'[x] : u.step - WindowSize <= a.step
                        /\ w \notin reported_validators' =>
                             \A a \in counted'[w] \ intervals'[w] :
                               \E x \in Validator : \E u \in counted'[x] :
                                 a.step < u.step - WindowSize
      BY DEF InWindow
    <2>1. w \in reported_validators' => intervals'[w] = {}
      BY <1>i, <1>k, <1>r
    <2>2. intervals'[w] \subseteq counted'[w]
      BY <1>i, <1>k, <1>c
    <2>3. \A x \in Validator : \A u \in counted'[x] : u.step \in Nat /\ u.step <= p.step
      BY <1>b, <1>c, <1>t
    <2>4. \A a \in intervals'[w] : a.step \in Nat /\ p.step - WindowSize <= a.step
      BY <1>i, <1>k, <1>b, <1>t
    <2>5. ASSUME w \notin reported_validators', NEW a \in counted'[w] \ intervals'[w]
          PROVE  \E x \in Validator : \E u \in counted'[x] : a.step < u.step - WindowSize
      <3>1. a \in counted[w] /\ a \notin kept[w]
        BY <2>5, <1>i, <1>c
      <3>2. a.step < o.step - WindowSize
        BY <2>5, <3>1, <1>k, <1>r, <1>b, <1>t
      <3> QED BY <3>2, <1>c
    <2>6. ASSUME NEW a \in intervals'[w], NEW x \in Validator, NEW u \in counted'[x]
          PROVE  u.step - WindowSize <= a.step
      BY <2>3, <2>4, <1>t
    <2> QED BY <2>1, <2>2, <2>5, <2>6
  <1>3. HasFile(counted, reported_validators, reports)'
    <2> SUFFICES ASSUME NEW w \in reported_validators'
                 PROVE  \E a \in counted'[w] :
                          /\ \A u \in counted'[w] : u.step <= a.step
                          /\ [validator |-> w,
                              intervals |-> WindowAt(counted'[w], a.step)] \in reports'
      BY DEF HasFile, WindowAt
    <2>1. CASE w = v
      <3>1. /\ o \in counted'[v]
            /\ \A u \in counted'[v] : u.step <= o.step
            /\ [validator |-> v,
                intervals |-> WindowAt(counted'[v], o.step)] \in reports'
        <4>1. o \in counted'[v] /\ \A u \in counted'[v] : u = o \/ u \in counted[v]
          BY <1>c
        <4>2. \A u \in counted'[v] : u.step <= o.step
          BY <4>1, <1>b, <1>t
        <4>3. [validator |-> v, intervals |-> kept[v] \cup {o}] \in reports'
          BY <2>1, <1>r
        <4> QED BY <4>1, <4>2, <4>3, <1>w, <1>t
      <3> QED BY <2>1, <3>1
    <2>2. CASE w # v
      <3>1. w \in reported_validators /\ w \in Validator /\ counted'[w] = counted[w]
        BY <2>2, <1>r, <1>c DEF OfflineTypes
      <3> QED BY <3>1, <1>t DEF OfflineInv, HasFile
    <2> QED BY <2>1, <2>2
  <1>4. HasFile(saved_offline.counted, saved_offline.reported, reports)'
    BY <1>t DEF OfflineInv, HasFile, WindowAt
  <1> QED BY <1>1, <1>2, <1>3, <1>4, <1>t DEF OfflineInv, FromSkips, InWindow

\* Every step keeps the invariant.
LEMMA OfflineInvStep ==
  OfflineTypes /\ OfflineInv /\ [OfflineNext]_offlineVars => OfflineInv'
  <1> SUFFICES ASSUME OfflineTypes, OfflineInv, [OfflineNext]_offlineVars
               PROVE  OfflineInv'
    OBVIOUS
  <1>1. \A e : LoseOffline(e) => OfflineInv'
    BY DEF LoseOffline, ForgetSkips, OfflineInv
  <1>2. ASSUME NEW p \in Proposal, IgnoreSkip(p) PROVE OfflineInv'
    <2>1. \A i \in DOMAIN skips : i \in DOMAIN skips' /\ skips'[i] = skips[i]
      BY <1>2, AppendProperties DEF IgnoreSkip, Hear, OfflineTypes
    <2>2. FromSkips(counted, skips)'
      BY <1>2, <2>1 DEF IgnoreSkip, offlineState, OfflineInv, FromSkips
    <2> QED BY <1>2, <2>2
            DEF IgnoreSkip, Hear, offlineState, OfflineInv
  <1>3. ASSUME NEW p \in Proposal, NEW vs \in ValidatorLists,
               CallOfflineReporter(p, vs)
        PROVE  OfflineInv'
    <2>1. PrimaryOf(vs, p.step) \in Validator /\ Len(vs) \in Nat
      BY PrimaryIsValidator, ProposalAssumption
    <2> QED BY <1>1, <1>2, <1>3, <2>1, CountKeeps DEF CallOfflineReporter, HandleSkip
  <1>4. CASE CommitOffline
    BY <1>4 DEF CommitOffline, PersistSkips, offlineState, OfflineInv
  <1>5. CASE UNCHANGED offlineVars
    BY <1>5 DEF offlineVars, skipFeedVars, offlineState, OfflineInv
  <1> QED BY <1>1, <1>3, <1>4, <1>5 DEF OfflineNext

\* The invariant holds throughout.
LEMMA OfflineInvHolds == OfflineSpec => [](OfflineTypes /\ OfflineInv)
  BY OfflineInitTypes, OfflineStepTypes, OfflineInvInit, OfflineInvStep, PTL
  DEF OfflineSpec

\* The intervals kept are the skips in the window of the last skip counted.
THEOREM IntervalsAreWindowHolds == OfflineSpec => []IntervalsAreWindow
  <1>1. OfflineTypes /\ OfflineInv => IntervalsAreWindow
    <2> SUFFICES ASSUME OfflineTypes, OfflineInv,
                        NEW s \in {p.step : p \in Proposal}, IsLastCounted(s),
                        NEW v \in Validator
                 PROVE  intervals[v] = IF v \in reported_validators THEN {}
                                       ELSE WindowAt(counted[v], s)
      BY DEF IntervalsAreWindow
    <2>1. PICK x \in Validator : \E u \in counted[x] : u.step = s
      BY DEF IsLastCounted
    <2>2. /\ s \in Nat /\ WindowSize \in Nat
          /\ \A w \in Validator : \A o \in counted[w] : o.step \in Nat /\ o.step <= s
      BY ProposalAssumption, OfflineAssumption
      DEF IsLastCounted, OfflineTypes, Intervals, OfflineInterval
    <2>3. CASE v \in reported_validators
      BY <2>3 DEF OfflineInv, InWindow
    <2>4. CASE v \notin reported_validators
      <3>1. \A o \in intervals[v] : o \in counted[v] /\ s - WindowSize <= o.step
        BY <2>1 DEF OfflineInv, InWindow
      <3>2. \A o \in counted[v] : s - WindowSize <= o.step => o \in intervals[v]
        <4> SUFFICES ASSUME NEW o \in counted[v], s - WindowSize <= o.step,
                            o \notin intervals[v]
                     PROVE  FALSE
          OBVIOUS
        <4>1. PICK w \in Validator : \E u \in counted[w] :
                     o.step < u.step - WindowSize
          BY <2>4 DEF OfflineInv, InWindow
        <4>2. PICK u \in counted[w] : o.step < u.step - WindowSize
          BY <4>1
        <4> QED BY <4>2, <2>2
      <3>3. \A o \in counted[v] :
              o.step \in (s - WindowSize)..s <=> s - WindowSize <= o.step
        BY <2>2
      <3> QED BY <2>4, <3>1, <3>2, <3>3 DEF WindowAt
    <2> QED BY <2>3, <2>4
  <1> QED BY <1>1, OfflineInvHolds, PTL

\* A reported validator has a file with the skips that made it offline.
THEOREM ReportStandsHolds == OfflineSpec => []ReportStands
  <1>1. OfflineInv => ReportStands
    BY DEF OfflineInv, HasFile, ReportStands
  <1> QED BY <1>1, OfflineInvHolds, PTL

\* Given a window of at least one step, no skip makes the reporter fail.
THEOREM NeverFailsHolds ==
  ASSUME WindowSize # 0
  PROVE  OfflineSpec => []NeverFails
  <1>1. OfflineInit => NeverFails
    BY DEF OfflineInit, NeverFails
  <1>2. OfflineTypes /\ OfflineInv /\ NeverFails /\ [OfflineNext]_offlineVars
          => NeverFails'
    <2> SUFFICES ASSUME OfflineTypes, OfflineInv, NeverFails,
                        [OfflineNext]_offlineVars
                 PROVE  NeverFails'
      OBVIOUS
    <2>1. ASSUME NEW p \in Proposal, NEW vs \in ValidatorLists,
                 CallOfflineReporter(p, vs)
          PROVE  NeverFails'
      <3>1. InOrder(PrimaryOf(vs, p.step), p.step)
        BY <2>1, PrimaryIsValidator, InOrderHolds, ProposalAssumption
        DEF CallOfflineReporter, HandleSkip
      <3> QED BY <2>1, <3>1
              DEF CallOfflineReporter, HandleSkip, Raised, IgnoreSkip, CountSkip, NeverFails
    <2>2. CASE CommitOffline \/ LoseOffline("none") \/ UNCHANGED offlineVars
      BY <2>2 DEF CommitOffline, LoseOffline, offlineVars, NeverFails
    <2> QED BY <2>1, <2>2 DEF OfflineNext
  <1> QED BY <1>1, <1>2, OfflineInvHolds, PTL DEF OfflineSpec

-----------------------------------------------------------------------------
(* Sums of lengths.                                                        *)

\* The turns of one interval are as many as it is long.
LEMMA TurnsOfOne ==
  ASSUME NEW o \in OfflineInterval
  PROVE  /\ IsFiniteSet({o} \X (1..o.length))
         /\ Cardinality({o} \X (1..o.length)) = o.length
  <1>1. o.length \in Nat
    BY DEF OfflineInterval
  <1>2. IsFiniteSet(1..o.length) /\ Cardinality(1..o.length) = o.length
    BY <1>1, FS_Interval
  <1>3. IsFiniteSet({o}) /\ Cardinality({o}) = 1
    BY FS_Singleton
  <1> QED BY <1>1, <1>2, <1>3, FS_Product

\* Finitely many intervals have finitely many turns.
LEMMA TurnsFinite ==
  ASSUME NEW os \in SUBSET OfflineInterval, IsFiniteSet(os)
  PROVE  IsFiniteSet(Turns(os))
  <1> DEFINE T == {{o} \X (1..o.length) : o \in os}
             f == [o \in os |-> {o} \X (1..o.length)]
  <1>1. f \in Surjection(os, T)
    BY DEF Surjection
  <1> HIDE DEF f
  <1>2. IsFiniteSet(T)
    BY <1>1, FS_Surjection
  <1>3. \A t \in T : IsFiniteSet(t)
    BY TurnsOfOne
  <1> HIDE DEF T
  <1>4. IsFiniteSet(UNION T)
    BY <1>2, <1>3, FS_UNION
  <1> QED BY <1>4 DEF T, Turns

\* A sum of finitely many lengths is a number.
LEMMA LengthType ==
  ASSUME NEW os \in SUBSET OfflineInterval, IsFiniteSet(os)
  PROVE  TotalLength(os) \in Nat
  BY TurnsFinite, FS_CardinalityType DEF TotalLength

\* No intervals have no length.
LEMMA LengthOfNone == TotalLength({}) = 0
  <1>1. Turns({}) = {}
    BY DEF Turns
  <1> QED BY <1>1, FS_EmptySet DEF TotalLength

\* The sum over one interval is its length.
LEMMA LengthOfOne ==
  ASSUME NEW o \in OfflineInterval
  PROVE  TotalLength({o}) = o.length
  <1>1. Turns({o}) = {o} \X (1..o.length)
    BY DEF Turns
  <1> QED BY <1>1, TurnsOfOne DEF TotalLength

\* The sum over two sets of different intervals is that of their sums.
LEMMA LengthOfUnion ==
  ASSUME NEW os \in SUBSET OfflineInterval, IsFiniteSet(os),
         NEW us \in SUBSET OfflineInterval, IsFiniteSet(us),
         os \cap us = {}
  PROVE  TotalLength(os \cup us) = TotalLength(os) + TotalLength(us)
  <1>1. Turns(os \cup us) = Turns(os) \cup Turns(us)
    BY DEF Turns
  <1>2. Turns(os) \cap Turns(us) = {}
    <2>1. \A xs : \A t \in Turns(xs) : t[1] \in xs
      BY DEF Turns
    <2> QED BY <2>1
  <1>3. IsFiniteSet(Turns(os)) /\ IsFiniteSet(Turns(us))
    BY TurnsFinite
  <1>4. Cardinality(Turns(os)) \in Nat /\ Cardinality(Turns(us)) \in Nat
    BY <1>3, FS_CardinalityType
  <1>5. Cardinality(Turns(os) \cap Turns(us)) = 0
    BY <1>2, FS_EmptySet
  <1>6. Cardinality(Turns(os) \cup Turns(us))
          = Cardinality(Turns(os)) + Cardinality(Turns(us))
              - Cardinality(Turns(os) \cap Turns(us))
    BY <1>3, FS_Union
  <1>7. Cardinality(Turns(os) \cup Turns(us))
          = Cardinality(Turns(os)) + Cardinality(Turns(us))
    BY <1>4, <1>5, <1>6
  <1> QED BY <1>1, <1>7 DEF TotalLength

\* Taking the length of some intervals away leaves that of the others.
LEMMA LengthOfRest ==
  ASSUME NEW os \in SUBSET OfflineInterval, IsFiniteSet(os),
         NEW us \in SUBSET os
  PROVE  TotalLength(os) - TotalLength(os \ us) = TotalLength(us)
  <1>1. IsFiniteSet(us) /\ IsFiniteSet(os \ us)
    BY FS_Subset
  <1>2. us \cap (os \ us) = {} /\ us \cup (os \ us) = os
    OBVIOUS
  <1>3. TotalLength(us \cup (os \ us)) = TotalLength(us) + TotalLength(os \ us)
    BY <1>1, <1>2, LengthOfUnion
  <1> QED BY <1>1, <1>2, <1>3, LengthType

\* Adding one more interval adds its length.
LEMMA LengthOfMore ==
  ASSUME NEW os \in SUBSET OfflineInterval, IsFiniteSet(os),
         NEW o \in OfflineInterval, o \notin os
  PROVE  TotalLength(os \cup {o}) = TotalLength(os) + o.length
  <1>1. IsFiniteSet({o}) /\ os \cap {o} = {}
    BY FS_Singleton
  <1> QED BY <1>1, LengthOfUnion, LengthOfOne

-----------------------------------------------------------------------------
(* The offline time.                                                       *)

\* Of a validator that is not in rep, time is the sum of the intervals kept, and
\* at none of the intervals counted was it above the rate.
TimesAreSums(cnt, ints, time, rep) ==
  /\ time \in [Validator -> Nat]
  /\ \A v \in Validator : IsFiniteSet(cnt[v])
  /\ \A v \in Validator \ rep :
       /\ time[v] = TotalLength(ints[v])
       /\ \A o \in cnt[v] : ~Exceeds(TotalLength(WindowAt(cnt[v], o.step)))

OfflineSums ==
  /\ TimesAreSums(counted, intervals, offline_time, reported_validators)
  /\ TimesAreSums(saved_offline.counted, saved_offline.intervals,
                  saved_offline.time, saved_offline.reported)
  /\ reports \in SUBSET [validator: Validator, intervals: SUBSET OfflineInterval]
  /\ ReportsJustified

\* Nothing has been added up at the start.
LEMMA OfflineSumsInit == OfflineInit => OfflineSums
  <1>1. IsFiniteSet({})
    BY FS_EmptySet
  <1> QED BY <1>1, LengthOfNone
          DEF OfflineInit, FreshOffline, OfflineSums, TimesAreSums, ReportsJustified

\* The time that is left when the outdated intervals go is that of the recent
\* ones; of a validator that has been reported it is what it was.
LEMMA KeptTimeIsSum ==
  ASSUME OfflineTypes, OfflineInv, OfflineSums, NEW s, NEW w \in Validator
  PROVE  /\ KeptTime(w, s) \in Nat
         /\ w \notin reported_validators =>
              KeptTime(w, s) = TotalLength(Recent(intervals[w], s))
         /\ IsFiniteSet(Recent(intervals[w], s))
  <1>1. /\ intervals[w] \in SUBSET OfflineInterval
        /\ intervals[w] \in SUBSET counted[w]
        /\ IsFiniteSet(counted[w])
        /\ offline_time[w] \in Nat
    BY DEF OfflineTypes, Intervals, OfflineInv, InWindow, OfflineSums, TimesAreSums
  <1>2. IsFiniteSet(intervals[w])
    BY <1>1, FS_Subset
  <1>3. /\ Recent(intervals[w], s) \in SUBSET intervals[w]
        /\ Recent(intervals[w], s) \in SUBSET OfflineInterval
    BY <1>1 DEF Recent
  <1>4. IsFiniteSet(Recent(intervals[w], s))
    BY <1>2, <1>3, FS_Subset
  <1>5. CASE w \in reported_validators
    <2>1. intervals[w] \ Recent(intervals[w], s) = {}
      BY <1>5 DEF OfflineInv, InWindow
    <2>2. TotalLength(intervals[w] \ Recent(intervals[w], s)) = 0
      BY <2>1, LengthOfNone
    <2> QED BY <1>1, <1>4, <1>5, <2>2 DEF KeptTime
  <1>6. CASE w \notin reported_validators
    <2>1. offline_time[w] = TotalLength(intervals[w])
      BY <1>6 DEF OfflineSums, TimesAreSums
    <2>2. KeptTime(w, s) = TotalLength(Recent(intervals[w], s))
      BY <1>1, <1>2, <1>3, <2>1, LengthOfRest DEF KeptTime
    <2> QED BY <1>3, <1>4, <2>2, LengthType
  <1> QED BY <1>5, <1>6

\* Counting a skip adds its length to the time of the window, and a report
\* comes when this is above the rate.
LEMMA CountKeepsSums ==
  ASSUME OfflineTypes, OfflineInv, OfflineSums,
         NEW p \in Proposal, Follows(p),
         NEW v \in Validator, v \notin reported_validators, NEW length \in Nat,
         CountSkip(p, v, length)
  PROVE  OfflineSums'
  <1> DEFINE o == [step |-> p.step, length |-> length]
             kept == [w \in Validator |-> Recent(intervals[w], p.step)]
  <1>t. /\ o \in OfflineInterval /\ o.step = p.step /\ o.length = length
        /\ p.step \in Nat /\ WindowSize \in Nat
        /\ counted \in Intervals
        /\ saved_offline' = saved_offline
    BY IntervalType, ProposalAssumption, OfflineAssumption
    DEF CountSkip, OfflineTypes
  <1>c. \A w \in Validator : counted'[w] = IF w = v THEN counted[v] \cup {o}
                                           ELSE counted[w]
    BY <1>t DEF CountSkip, Intervals
  <1>b. \A w \in Validator : \A u \in counted[w] : u.step \in Nat /\ u.step < p.step
    BY CountedBefore
  <1>k. \A w \in Validator :
          /\ kept[w] \in SUBSET counted[w]
          /\ kept[w] \in SUBSET OfflineInterval
          /\ IsFiniteSet(kept[w])
    BY CountedBefore, KeptTimeIsSum DEF Recent, OfflineTypes, Intervals
  <1>d. /\ offline_time' \in [Validator -> Nat]
        /\ \A w \in Validator : offline_time'[w] =
             KeptTime(w, p.step) + IF w = v THEN length ELSE 0
    BY KeptTimeIsSum DEF CountSkip
  <1>i. \A w \in Validator :
          intervals'[w] = IF w # v THEN kept[w]
                          ELSE IF v \in reported_validators' THEN {}
                          ELSE kept[v] \cup {o}
    BY DEF CountSkip
  <1>n. kept[v] \cup {o} = WindowAt(counted'[v], p.step)
    <2>1. \A u \in counted[v] :
            u.step \in (p.step - WindowSize)..p.step <=> u.step >= p.step - WindowSize
      BY <1>b, <1>t
    <2>2. o.step \in (p.step - WindowSize)..p.step
      BY <1>t
    <2>3. kept[v] = {u \in counted[v] : u.step >= p.step - WindowSize}
      BY RecentIsWindow
    <2> HIDE DEF o, kept
    <2> QED BY <1>c, <2>1, <2>2, <2>3 DEF WindowAt
  <1>s. offline_time'[v] = TotalLength(kept[v] \cup {o})
    <2>1. KeptTime(v, p.step) = TotalLength(kept[v])
      BY KeptTimeIsSum
    <2> HIDE DEF o, kept
    <2>2. o \notin kept[v]
      <3>1. \A u \in kept[v] : u.step < p.step
        BY <1>b, <1>k
      <3> QED BY <1>t, <3>1
    <2>3. TotalLength(kept[v] \cup {o}) = TotalLength(kept[v]) + length
      BY <1>k, <1>t, <2>2, LengthOfMore
    <2> QED BY <1>d, <2>1, <2>3
  <1>e. \/ /\ Exceeds(offline_time'[v])
           /\ reported_validators' = reported_validators \cup {v}
           /\ reports' = reports \cup
                {[validator |-> v, intervals |-> kept[v] \cup {o}]}
        \/ /\ ~Exceeds(offline_time'[v])
           /\ reported_validators' = reported_validators
           /\ reports' = reports
    BY DEF CountSkip, IsOffline, Exceeds, ReportedIntervals
  <1> HIDE DEF o, kept
  <1>1. \A w \in Validator : IsFiniteSet(counted'[w])
    <2>1. \A w \in Validator : IsFiniteSet(counted[w])
      BY DEF OfflineSums, TimesAreSums
    <2>2. IsFiniteSet(counted[v] \cup {o})
      BY <2>1, FS_AddElement
    <2> QED BY <1>c, <2>1, <2>2
  <1>2. ASSUME NEW w \in Validator \ reported_validators'
        PROVE  offline_time'[w] = TotalLength(intervals'[w])
    <2>1. CASE w = v
      BY <1>i, <1>s, <2>1, <1>2
    <2>2. CASE w # v
      <3>1. w \notin reported_validators
        BY <1>2, <1>e
      <3>2. KeptTime(w, p.step) = TotalLength(kept[w]) /\ KeptTime(w, p.step) \in Nat
        BY <3>1, KeptTimeIsSum DEF kept
      <3> QED BY <1>d, <1>i, <2>2, <3>2
    <2> QED BY <2>1, <2>2
  <1>3. ASSUME NEW w \in Validator \ reported_validators', NEW u \in counted'[w]
        PROVE  ~Exceeds(TotalLength(WindowAt(counted'[w], u.step)))
    <2>1. w \notin reported_validators
      BY <1>3, <1>e
    <2>2. \A a \in counted[w] : ~Exceeds(TotalLength(WindowAt(counted[w], a.step)))
      BY <2>1 DEF OfflineSums, TimesAreSums
    <2>3. CASE u \in counted[w]
      <3>1. WindowAt(counted'[w], u.step) = WindowAt(counted[w], u.step)
        <4>1. o.step \notin (u.step - WindowSize)..u.step
          BY <1>b, <1>t, <2>3
        <4> QED BY <1>c, <4>1 DEF WindowAt
      <3> QED BY <2>2, <2>3, <3>1
    <2>4. CASE u \notin counted[w]
      <3>1. w = v /\ u = o
        BY <1>3, <1>c, <2>4
      <3>2. ~Exceeds(offline_time'[v])
        BY <1>3, <1>e, <3>1
      <3> QED BY <1>n, <1>s, <1>t, <3>1, <3>2
    <2> QED BY <2>3, <2>4
  <1>4. TimesAreSums(counted, intervals, offline_time, reported_validators)'
    BY <1>1, <1>2, <1>3, <1>d DEF TimesAreSums, Exceeds, WindowAt
  <1>5. /\ reports' \in SUBSET [validator: Validator, intervals: SUBSET OfflineInterval]
        /\ ReportsJustified'
    <2>1. \A a, u \in kept[v] \cup {o} : a.step <= u.step + WindowSize
      <3>1. \A a \in WindowAt(counted'[v], p.step) :
              a.step \in (p.step - WindowSize)..p.step
        BY DEF WindowAt
      <3>2. \A a \in kept[v] \cup {o} :
              a.step \in Int /\ p.step - WindowSize <= a.step /\ a.step <= p.step
        BY <1>n, <1>t, <3>1
      <3> QED BY <1>t, <3>2
    <2>2. kept[v] \cup {o} \in SUBSET OfflineInterval
      BY <1>k, <1>t
    <2>3. /\ reports \in SUBSET [validator: Validator, intervals: SUBSET OfflineInterval]
          /\ ReportsJustified
      BY DEF OfflineSums
    <2> DEFINE r == [validator |-> v, intervals |-> kept[v] \cup {o}]
    <2>4. /\ r \in [validator: Validator, intervals: SUBSET OfflineInterval]
          /\ r.intervals = kept[v] \cup {o}
      BY <2>2
    <2> HIDE DEF r
    <2>5. CASE reports' = reports
      BY <2>3, <2>5 DEF ReportsJustified, Exceeds
    <2>6. CASE Exceeds(offline_time'[v]) /\ reports' = reports \cup {r}
      <3>1. \A q \in reports' : q = r \/ q \in reports
        BY <2>6
      <3>2. Exceeds(TotalLength(r.intervals))
        BY <1>s, <2>4, <2>6
      <3>3. \A q \in reports' :
              /\ \A a, u \in q.intervals : a.step <= u.step + WindowSize
              /\ Exceeds(TotalLength(q.intervals))
        BY <2>1, <2>3, <2>4, <3>1, <3>2 DEF ReportsJustified
      <3> QED BY <2>3, <2>4, <2>6, <3>3 DEF ReportsJustified
    <2> QED BY <1>e, <2>5, <2>6 DEF r
  <1> QED BY <1>4, <1>5, <1>t DEF OfflineSums, TimesAreSums, Exceeds, WindowAt

\* Every step keeps the sums.
LEMMA OfflineSumsStep ==
  OfflineTypes /\ OfflineInv /\ OfflineSums /\ [OfflineNext]_offlineVars
    => OfflineSums'
  <1> SUFFICES ASSUME OfflineTypes, OfflineInv, OfflineSums,
                      [OfflineNext]_offlineVars
               PROVE  OfflineSums'
    OBVIOUS
  <1> USE DEF OfflineSums, TimesAreSums, ReportsJustified, Exceeds, WindowAt
  <1>1. \A e : LoseOffline(e) => OfflineSums'
    BY DEF LoseOffline
  <1>2. \A p \in Proposal : IgnoreSkip(p) => OfflineSums'
    BY DEF IgnoreSkip, offlineState
  <1>3. ASSUME NEW p \in Proposal, NEW vs \in ValidatorLists,
               CallOfflineReporter(p, vs)
        PROVE  OfflineSums'
    <2>1. PrimaryOf(vs, p.step) \in Validator /\ Len(vs) \in Nat
      BY PrimaryIsValidator, ProposalAssumption
    <2> QED BY <1>1, <1>2, <1>3, <2>1, CountKeepsSums DEF CallOfflineReporter, HandleSkip
  <1>4. CASE CommitOffline
    BY <1>4 DEF CommitOffline, offlineState
  <1>5. CASE UNCHANGED offlineVars
    BY <1>5 DEF offlineVars, offlineState
  <1> QED BY <1>1, <1>3, <1>4, <1>5 DEF OfflineNext

\* The sums hold throughout.
LEMMA OfflineSumsHold == OfflineSpec => [](OfflineTypes /\ OfflineInv /\ OfflineSums)
  BY OfflineSumsInit, OfflineSumsStep, OfflineInvHolds, PTL DEF OfflineSpec

\* The reporter's state, its committed copy and its report files are well typed;
\* in particular the time that is added to and taken from is never negative.
THEOREM OfflineTypesCorrect == OfflineSpec => []OfflineTypeOK
  <1>1. OfflineInit => OfflineTypeOK
    BY DEF OfflineInit, FreshOffline, OfflineValues, OfflineTypeOK
  <1>2. ASSUME OfflineTypeOK, OfflineTypes', OfflineSums', [OfflineNext]_offlineVars
        PROVE  OfflineTypeOK'
    <2>1. /\ [reported |-> reported_validators, intervals |-> intervals,
              time |-> offline_time, counted |-> counted]' \in OfflineValues
          /\ reports' \in SUBSET [validator: Validator,
                                  intervals: SUBSET OfflineInterval]
      BY <1>2 DEF OfflineTypes, Intervals, OfflineSums, TimesAreSums, OfflineValues
    <2>2. \A e : LoseOffline(e) => saved_offline' = saved_offline /\ error' = e
      BY DEF LoseOffline
    <2>3. \A p \in Proposal, vs \in ValidatorLists : CallOfflineReporter(p, vs) =>
            /\ saved_offline' = saved_offline
            /\ error' \in {"none", "AssertionError", "ZeroDivisionError"}
      BY <2>2 DEF CallOfflineReporter, HandleSkip, Raised, IgnoreSkip, CountSkip
    <2>4. CommitOffline => saved_offline' \in OfflineValues /\ error' = error
      BY <1>2 DEF CommitOffline, OfflineTypeOK
    <2> QED BY <1>2, <2>1, <2>2, <2>3, <2>4 DEF OfflineNext, offlineVars, OfflineTypeOK
  <1> QED BY <1>1, <1>2, OfflineSumsHold, PTL DEF OfflineSpec

\* The offline time of a validator that has not been reported is the sum of the
\* intervals kept for it: what is taken away when intervals go is just what was
\* added when they came, over restarts, reports and changes of the list.
THEOREM OfflineTimeIsSumHolds == OfflineSpec => []OfflineTimeIsSum
  <1>1. OfflineSums => OfflineTimeIsSum
    BY DEF OfflineSums, TimesAreSums, OfflineTimeIsSum
  <1> QED BY <1>1, OfflineSumsHold, PTL

\* Whoever has not been reported has never been offline for more than the
\* allowed share of a window that ended with one of its skips.
THEOREM UnreportedWithinRateHolds == OfflineSpec => []UnreportedWithinRate
  <1>1. OfflineSums => UnreportedWithinRate
    BY DEF OfflineSums, TimesAreSums, UnreportedWithinRate
  <1> QED BY <1>1, OfflineSumsHold, PTL

\* Every report file lists skips within one window that add up to more than the
\* allowed rate, also the file of a cycle that was rolled back.
THEOREM ReportsJustifiedHolds == OfflineSpec => []ReportsJustified
  <1>1. OfflineSums => ReportsJustified
    BY DEF OfflineSums
  <1> QED BY <1>1, OfflineSumsHold, PTL
=============================================================================
