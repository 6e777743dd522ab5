------------------------ MODULE PrimaryOracleProofs ------------------------
(***************************************************************************)
(* Theorems about PrimaryOracle: the local comparisons of add_epoch keep   *)
(* exactly the relevant epochs, so the oracle answers with the epoch that  *)
(* governs a height.  They hold for any heights, ranges and validators and *)
(* any order in which the epochs arrive.                                   *)
(***************************************************************************)
EXTENDS PrimaryOracle, WellFoundedInduction, TLAPS

\* A set of numbers with a bound n and an element has a largest element.
LEMMA LargestBelow ==
  ASSUME NEW S \in SUBSET Nat, NEW n \in Nat,
         \A s \in S : s <= n,
         S # {}
  PROVE  \E m \in S : \A s \in S : s <= m
  <1> DEFINE Bounds == {b \in Nat : \A s \in S : s <= b}
  <1>1. PICK b \in Bounds : \A c \in Bounds : b <= c
    <2>1. Bounds \in SUBSET Nat /\ n \in Bounds
      OBVIOUS
    <2> HIDE DEF Bounds
    <2>2. PICK b \in Bounds : \A c \in Bounds : ~ (<<c, b>> \in OpToRel(<, Nat))
      BY <2>1, NatLessThanWellFounded, WFMin
    <2>3. \A c \in Bounds : ~ (c < b)
      BY <2>1, <2>2 DEF OpToRel
    <2> QED BY <2>1, <2>3
  <1>2. b \in S
    <2> SUFFICES ASSUME b \notin S PROVE FALSE
      OBVIOUS
    <2>1. b \in Nat /\ \A s \in S : s \in Nat /\ s <= b /\ s # b
      BY <1>1
    <2>2. b - 1 \in Bounds
      <3>1. PICK s \in S : TRUE
        OBVIOUS
      <3>2. b - 1 \in Nat
        BY <2>1, <3>1
      <3>3. \A r \in S : r <= b - 1
        BY <2>1
      <3> QED BY <3>2, <3>3
    <2> QED BY <2>2, <1>1
  <1> QED BY <1>1, <1>2

\* Something is in force at every height at which an epoch has started.
LEMMA SomethingInForce ==
  ASSUME NEW es \in SUBSET Epoch, NEW h \in Height,
         NEW e \in es, e.start_height <= h
  PROVE  \E p \in es : InForce(p, es, h)
  <1> DEFINE Started == {f.start_height : f \in {g \in es : g.start_height <= h}}
  <1>t. Started \in SUBSET Nat /\ h \in Nat /\ e.start_height \in Started
    BY OracleAssumption DEF Epoch
  <1>1. \A s \in Started : s <= h
    OBVIOUS
  <1>2. PICK m \in Started : \A s \in Started : s <= m
    <2> HIDE DEF Started
    <2> QED BY <1>t, <1>1, LargestBelow
  <1>3. PICK p \in es : p.start_height <= h /\ p.start_height = m
    BY <1>2
  <1> QED BY <1>2, <1>3 DEF InForce

-----------------------------------------------------------------------------
(* The oracle's epochs.                                                    *)

\* The kept epochs have different start heights and grow in their ranges; an
\* added epoch that is not kept is preceded by a kept one of a later range.
Ordered(es) ==
  \A e, f \in es :
    /\ e.start_height = f.start_height => e = f
    /\ e.start_height <= f.start_height => e.index <= f.index

Overruled(e, es) ==
  \E g \in es : g.start_height <= e.start_height /\ e.index < g.index

OracleInv ==
  /\ OracleTypeOK
  /\ epochs \subseteq known
  /\ Ordered(epochs)
  /\ \A e \in known : e \in epochs \/ Overruled(e, epochs)

\* A relevant epoch overrules no less than the epochs it replaces.
LEMMA RelevantAbove ==
  ASSUME NEW es \in SUBSET Epoch, Ordered(es),
         NEW e \in Epoch, IsRelevant(e, es),
         NEW f \in es, f.start_height <= e.start_height
  PROVE  f.index <= e.index
  <1>1. e.start_height \in Height
    BY DEF Epoch
  <1>2. PICK p \in es : InForce(p, es, e.start_height)
    BY <1>1, SomethingInForce
  <1>3. p.index <= e.index /\ f.start_height <= p.start_height
    BY <1>2 DEF IsRelevant, InForce
  <1>4. f.index <= p.index
    BY <1>3 DEF Ordered
  <1>5. f.index \in Nat /\ p.index \in Nat /\ e.index \in Nat
    BY OracleAssumption DEF Epoch
  <1> QED BY <1>3, <1>4, <1>5

\* Adding an epoch keeps the invariant.
LEMMA AddEpochInv ==
  ASSUME OracleInv, NEW e \in Epoch, AddEpoch(e)
  PROVE  OracleInv'
  <1>t. /\ \A f \in Epoch : f.start_height \in Nat /\ f.index \in Nat
        /\ epochs \in SUBSET Epoch /\ known \in SUBSET Epoch
    BY OracleAssumption DEF Epoch, OracleInv, OracleTypeOK
  <1>k. /\ known' = {f \in known : \/ f.start_height # e.start_height
                                   \/ f.index # e.index} \cup {e}
        /\ epochs' = WithEpoch(e, epochs)
        /\ max_height' = max_height
    BY DEF AddEpoch
  <1>o. Ordered(epochs) /\ epochs \subseteq known
    BY DEF OracleInv
  <1>1. CASE ~IsRelevant(e, epochs)
    <2>1. PICK p \in epochs :
            InForce(p, epochs, e.start_height) /\ ~(p.index <= e.index)
      BY <1>1 DEF IsRelevant
    <2>2. epochs' = epochs
      BY <1>1, <1>k DEF WithEpoch
    <2>3. Overruled(e, epochs)
      BY <2>1, <1>t DEF Overruled, InForce
    <2>4. \A f \in epochs : f.start_height = e.start_height => f.index # e.index
      <3> SUFFICES ASSUME NEW f \in epochs, f.start_height = e.start_height
                   PROVE  f.index # e.index
        OBVIOUS
      <3>1. f.start_height = p.start_height
        BY <2>1, <1>t DEF InForce
      <3>2. f = p
        BY <3>1, <1>o DEF Ordered
      <3> QED BY <3>2, <2>1, <1>t
    <2>5. epochs \subseteq known'
      BY <2>4, <1>k, <1>o
    <2> QED BY <2>2, <2>3, <2>5, <1>t, <1>k, <1>o DEF OracleInv, OracleTypeOK
  <1>2. CASE IsRelevant(e, epochs)
    <2> DEFINE others == {f \in epochs : f.start_height # e.start_height}
    <2>1. epochs' = (others \ RenderedIrrelevant(e, others)) \cup {e}
      BY <1>2, <1>k DEF WithEpoch
    <2>2. \A f \in epochs : f.start_height <= e.start_height => f.index <= e.index
      BY <1>2, <1>t, <1>o, RelevantAbove
    <2>3. RenderedIrrelevant(e, others) =
            {f \in others : e.start_height < f.start_height /\ f.index < e.index}
      <3>1. ASSUME NEW f \in others, e.start_height < f.start_height,
                   f.index < e.index, NEW g \in others,
                   g.start_height <= f.start_height
            PROVE  g.index < e.index
        <4>1. g.index <= f.index
          BY <3>1, <1>o DEF Ordered
        <4> QED BY <4>1, <3>1, <1>t
      <3>2. ASSUME NEW f \in RenderedIrrelevant(e, others)
            PROVE  /\ f \in others /\ e.start_height < f.start_height
                   /\ f.index < e.index
        <4>1. f.start_height \in Nat
          BY <1>t DEF RenderedIrrelevant
        <4> QED BY <4>1, <1>t DEF RenderedIrrelevant
      <3>3. ASSUME NEW f \in others, e.start_height < f.start_height,
                   f.index < e.index
            PROVE  f \in RenderedIrrelevant(e, others)
        BY <3>1, <3>3, <1>t DEF RenderedIrrelevant
      <3> QED BY <3>2, <3>3
    <2>4. \A f : f \in epochs' <=>
            \/ f = e
            \/ /\ f \in epochs /\ f.start_height # e.start_height
               /\ ~(e.start_height < f.start_height /\ f.index < e.index)
      BY <2>1, <2>3
    <2>5. epochs' \subseteq known' /\ epochs' \in SUBSET Epoch
      BY <2>4, <1>k, <1>o, <1>t
    <2>6. Ordered(epochs')
      <3> SUFFICES ASSUME NEW f \in epochs', NEW g \in epochs'
                   PROVE  /\ f.start_height = g.start_height => f = g
                          /\ f.start_height <= g.start_height => f.index <= g.index
        BY DEF Ordered
      <3>1. CASE f = e /\ g = e
        BY <3>1, <1>t
      <3>2. CASE f # e /\ g # e
        BY <3>2, <2>4, <1>o DEF Ordered
      <3>3. CASE f = e /\ g # e
        BY <3>3, <2>4, <1>t
      <3>4. CASE f # e /\ g = e
        BY <3>4, <2>4, <2>2, <1>t
      <3> QED BY <3>1, <3>2, <3>3, <3>4
    <2>7. \A f \in known' : f \in epochs' \/ Overruled(f, epochs')
      <3> SUFFICES ASSUME NEW f \in known', f \notin epochs'
                   PROVE  Overruled(f, epochs')
        OBVIOUS
      <3>1. /\ f # e /\ f \in known /\ f \in Epoch
            /\ f.start_height # e.start_height \/ f.index # e.index
            /\ e \in epochs'
        BY <2>4, <1>k, <1>t
      <3>2. CASE f \in epochs
        <4>1. e.start_height <= f.start_height /\ f.index < e.index
          BY <3>1, <3>2, <2>2, <2>4, <1>t
        <4> QED BY <4>1, <3>1 DEF Overruled
      <3>3. CASE f \notin epochs
        <4>1. PICK g \in epochs :
                g.start_height <= f.start_height /\ f.index < g.index
          BY <3>1, <3>3 DEF OracleInv, Overruled
        <4>2. CASE g \in epochs'
          BY <4>1, <4>2 DEF Overruled
        <4>3. CASE g \notin epochs'
          <5>1. e.start_height <= g.start_height /\ g.index <= e.index
            BY <4>3, <2>2, <2>4, <1>t
          <5>2. e.start_height <= f.start_height /\ f.index < e.index
            BY <5>1, <4>1, <3>1, <1>t
          <5> QED BY <5>2, <3>1 DEF Overruled
        <4> QED BY <4>2, <4>3
      <3> QED BY <3>2, <3>3
    <2>8. known' \in SUBSET Epoch
      BY <1>k, <1>t
    <2> QED BY <2>5, <2>6, <2>7, <2>8, <1>k DEF OracleInv, OracleTypeOK
  <1> QED BY <1>1, <1>2

\* Initially there are no epochs.
LEMMA OracleInitInv == OracleInit => OracleInv
  BY OracleAssumption DEF OracleInit, OracleInv, OracleTypeOK, Ordered

\* Every step keeps the invariant.
LEMMA OracleStepInv == OracleInv /\ [OracleNext]_oracleVars => OracleInv'
  <1> SUFFICES ASSUME OracleInv, [OracleNext]_oracleVars PROVE OracleInv'
    OBVIOUS
  <1>1. ASSUME NEW e \in Epoch, AddEpoch(e) PROVE OracleInv'
    BY <1>1, AddEpochInv
  <1>2. ASSUME NEW h \in Height, SetMaxHeight(h) PROVE OracleInv'
    BY <1>2
    DEF SetMaxHeight, OracleInv, OracleTypeOK, Ordered, Overruled
  <1>3. CASE ResetOracle
    BY <1>3, OracleAssumption
    DEF ResetOracle, OracleInv, OracleTypeOK, Ordered
  <1>4. CASE UNCHANGED oracleVars
    BY <1>4 DEF oracleVars, OracleInv, OracleTypeOK, Ordered, Overruled
  <1> QED BY <1>1, <1>2, <1>3, <1>4 DEF OracleNext

\* The invariant holds throughout.
LEMMA OracleInvHolds == OracleSpec => []OracleInv
  BY OracleInitInv, OracleStepInv, PTL DEF OracleSpec

\* The oracle keeps exactly the epochs that no epoch of a later range starts
\* before or with.
THEOREM KeepsRelevantHolds == OracleSpec => []KeepsRelevant
  <1>1. OracleInv => KeepsRelevant
    <2> SUFFICES ASSUME OracleInv PROVE KeepsRelevant
      OBVIOUS
    <2>t. \A f \in known : f.start_height \in Nat /\ f.index \in Nat
      BY OracleAssumption DEF Epoch, OracleInv, OracleTypeOK
    <2>1. ASSUME NEW e \in epochs, NEW f \in known,
                 f.start_height <= e.start_height
          PROVE  f.index <= e.index
      <3>1. CASE f \in epochs
        BY <2>1, <3>1 DEF OracleInv, Ordered
      <3>2. CASE f \notin epochs
        <4>1. PICK g \in epochs :
                g.start_height <= f.start_height /\ f.index < g.index
          BY <3>2 DEF OracleInv, Overruled
        <4>2. e \in known /\ g \in known /\ g.start_height <= e.start_height
          BY <4>1, <2>1, <2>t DEF OracleInv
        <4>3. g.index <= e.index
          BY <4>2 DEF OracleInv, Ordered
        <4> QED BY <4>1, <4>2, <4>3, <2>t
      <3> QED BY <3>1, <3>2
    <2>2. ASSUME NEW e \in known,
                 \A f \in known : f.start_height <= e.start_height => f.index <= e.index
          PROVE  e \in epochs
      <3> SUFFICES ASSUME e \notin epochs PROVE FALSE
        OBVIOUS
      <3>1. PICK g \in epochs :
              g.start_height <= e.start_height /\ e.index < g.index
        BY DEF OracleInv, Overruled
      <3> QED BY <3>1, <2>2, <2>t DEF OracleInv
    <2> QED BY <2>1, <2>2 DEF KeepsRelevant, OracleInv
  <1> QED BY <1>1, OracleInvHolds, PTL

\* At every height, the epoch in force is the one that governs.
LEMMA ForceGoverns ==
  ASSUME OracleInv, NEW e \in epochs \cup known, NEW h \in Nat
  PROVE  InForce(e, epochs, h) <=> Governs(e, known, h)
  <1>t. /\ \A f \in known : f.start_height \in Nat /\ f.index \in Nat
        /\ e \in known /\ epochs \subseteq known
    BY OracleAssumption DEF Epoch, OracleInv, OracleTypeOK
  <1>o. Ordered(epochs)
    BY DEF OracleInv
  <1>1. ASSUME InForce(e, epochs, h), NEW f \in known, f.start_height <= h
        PROVE  \/ f.index < e.index
               \/ f.index = e.index /\ f.start_height <= e.start_height
    <2>1. CASE f \in epochs
      <3>1. f.start_height <= e.start_height /\ e \in epochs
        BY <1>1, <2>1 DEF InForce
      <3>2. f.index <= e.index
        BY <3>1, <2>1, <1>o DEF Ordered
      <3> QED BY <3>1, <3>2, <1>t
    <2>2. CASE f \notin epochs
      <3>1. PICK g \in epochs :
              g.start_height <= f.start_height /\ f.index < g.index
        BY <2>2 DEF OracleInv, Overruled
      <3>2. g.start_height <= h /\ g \in known
        BY <3>1, <1>1, <1>t
      <3>3. g.start_height <= e.start_height /\ e \in epochs
        BY <3>2, <1>1 DEF InForce
      <3>4. g.index <= e.index
        BY <3>3, <1>o DEF Ordered
      <3> QED BY <3>1, <3>2, <3>4, <1>t
    <2> QED BY <2>1, <2>2
  <1>2. ASSUME Governs(e, known, h) PROVE InForce(e, epochs, h)
    <2>1. e \in epochs
      <3> SUFFICES ASSUME e \notin epochs PROVE FALSE
        OBVIOUS
      <3>1. PICK g \in epochs :
              g.start_height <= e.start_height /\ e.index < g.index
        BY <1>t DEF OracleInv, Overruled
      <3>2. g \in known /\ g.start_height <= h
        BY <3>1, <1>2, <1>t DEF Governs
      <3> QED BY <3>1, <3>2, <1>2, <1>t DEF Governs
    <2>2. ASSUME NEW f \in epochs, f.start_height <= h
          PROVE  f.start_height <= e.start_height
      <3> SUFFICES ASSUME e.start_height < f.start_height PROVE FALSE
        BY <1>t
      <3>1. e.index <= f.index
        BY <2>1, <1>t, <1>o DEF Ordered
      <3> QED BY <3>1, <2>2, <1>2, <1>t DEF Governs
    <2> QED BY <2>1, <2>2, <1>2 DEF InForce, Governs
  <1>3. ASSUME InForce(e, epochs, h) PROVE Governs(e, known, h)
    BY <1>1, <1>3, <1>t DEF InForce, Governs
  <1> QED BY <1>2, <1>3

\* The oracle answers with the epoch that governs the height among all that
\* were ever added.
THEOREM AnswersGovernHolds == OracleSpec => []AnswersGovern
  <1>1. OracleInv => AnswersGovern
    <2> SUFFICES ASSUME OracleInv, NEW e \in epochs \cup known, NEW h \in Nat
                 PROVE  InForce(e, epochs, h) <=> Governs(e, known, h)
      BY OracleAssumption DEF AnswersGovern, OracleInv, OracleTypeOK, Epoch
    <2> QED BY ForceGoverns
  <1> QED BY <1>1, OracleInvHolds, PTL
=============================================================================
