------------------------- MODULE EpochFetcherProofs -------------------------
(***************************************************************************)
(* Theorems about EpochFetcher: its types, that it uses the primary oracle *)
(* as PrimaryOracle specifies (whose theorems it inherits), that only a    *)
(* reorganisation makes an update fail, and that without one the oracle    *)
(* answers with the validators really in charge.  They hold for any        *)
(* validator definition, any heights, and reorganisations of any depth.    *)
(***************************************************************************)
EXTENDS EpochFetcher, PrimaryOracleProofs, SequenceTheorems

-----------------------------------------------------------------------------
(* Types.                                                                  *)

\* Where the process is says whose turn may come next.
EpochControl ==
  /\ pc = "static" => waiting \subseteq StaticRanges
  /\ pc \in {"idle", "starts", "validators"} => waiting \subseteq DOMAIN fetchers

EpochInv == EpochTypeOK /\ EpochControl

\* An epoch starts at a height.
LEMMA EpochStartType ==
  ASSUME NEW i \in DefinitionIndex, NEW start \in Height
  PROVE  EpochStart(i, start) \in Height
  BY DefinitionAssumption DEF EpochStart

\* What getValidators answers with.
LEMMA ContractValidatorsType ==
  ASSUME EpochTypeOK, NEW i \in Contracts, NEW start
  PROVE  /\ ContractValidators(i, start) \in ValidatorList \cup {<<>>}
         /\ start \in StartHeights(i) => ContractValidators(i, start) \in ValidatorList
  <1>1. finalized[i] \in SUBSET Change
    BY DEF EpochTypeOK
  <1>2. ASSUME start \in StartHeights(i)
        PROVE  (CHOOSE c \in finalized[i] : c.start = start).validators \in ValidatorList
    <2>1. \E c \in finalized[i] : c.start = start
      BY <1>2 DEF StartHeights
    <2>2. (CHOOSE c \in finalized[i] : c.start = start) \in Change
      BY <2>1, <1>1
    <2> QED BY <2>2 DEF Change
  <1> QED BY <1>2 DEF ContractValidators

\* The initial state is well typed, and uses the oracle from its start.
LEMMA EpochInitTypes == EpochInit => EpochInv
  <1> SUFFICES ASSUME EpochInit PROVE EpochInv
    OBVIOUS
  <1>1. <<>> \in Seq(FetchedEpoch)
    BY EmptySeq
  <1>2. FreshFetchers \in [Contracts -> FetcherState] /\ DOMAIN FreshFetchers = Contracts
    BY DEF FreshFetchers, FetcherState
  <1>3. OracleTypeOK
    BY OracleAssumption DEF EpochInit, OracleInit, OracleTypeOK
  <1>4. fetchers \in [DOMAIN fetchers -> FetcherState] /\ DOMAIN fetchers = Contracts
    BY <1>2 DEF EpochInit
  <1> QED BY <1>1, <1>3, <1>4, OracleAssumption
          DEF EpochInit, EpochInv, EpochTypeOK, EpochControl, StaticRanges, Contracts

\* Every step keeps the types.
LEMMA EpochStepTypes == EpochInv /\ [EpochNext]_epochVars => EpochInv'
  <1> SUFFICES ASSUME EpochInv, [EpochNext]_epochVars PROVE EpochInv'
    OBVIOUS
  <1> USE DEF EpochInv
  <1>f. \A i \in DOMAIN fetchers : i \in Contracts /\ fetchers[i] \in FetcherState
    BY DEF EpochTypeOK
  <1>1. ASSUME NEW i \in waiting, AddStaticEpoch(i) PROVE EpochInv'
    <2>1. i \in StaticRanges
      BY <1>1 DEF AddStaticEpoch, EpochControl
    <2>2. StaticEpoch(i) \in Epoch
      BY <2>1, DefinitionAssumption DEF StaticEpoch, StaticRanges, Contracts, Epoch
    <2>3. OracleTypeOK'
      <3>1. epochs' \in SUBSET Epoch /\ known' \in SUBSET Epoch /\ max_height' \in Height
        BY <1>1, <2>2
        DEF AddStaticEpoch, AddEpoch, WithEpoch, EpochTypeOK, OracleTypeOK
      <3> QED BY <3>1 DEF OracleTypeOK
    <2> QED BY <1>1, <2>3
            DEF AddStaticEpoch, EpochTypeOK, EpochControl, nodeVars
  <1>2. ASSUME NEW i \in waiting, ReadBlockNumber(i) PROVE EpochInv'
    <2>1. i \in DOMAIN fetchers /\ block_number \in Height
      BY <1>2 DEF ReadBlockNumber, EpochControl, EpochTypeOK
    <2>2. [fetchers[i] EXCEPT !.last_fetch_height = block_number] \in FetcherState
      BY <2>1, <1>f DEF FetcherState
    <2>3. fetchers' \in [DOMAIN fetchers -> FetcherState] /\ DOMAIN fetchers' = DOMAIN fetchers
      BY <1>2, <2>1, <2>2, <1>f DEF ReadBlockNumber, FetchHeight, EpochTypeOK
    <2> QED BY <1>2, <2>3
            DEF ReadBlockNumber, EpochTypeOK, EpochControl, nodeVars, oracleVars,
                OracleTypeOK
  <1>3. ASSUME NEW i \in waiting, ReadStartHeights(i) PROVE EpochInv'
    <2>1. i \in Contracts
      BY <1>3, <1>f DEF ReadStartHeights, EpochControl
    <2>2. todo' \in SUBSET Height
      <3>1. finalized[i] \in SUBSET Change
        BY <2>1 DEF EpochTypeOK
      <3> QED BY <3>1, <1>3 DEF ReadStartHeights, StartHeights, Change
    <2> QED BY <1>3, <2>2
            DEF ReadStartHeights, EpochTypeOK, EpochControl, nodeVars, oracleVars,
                OracleTypeOK
  <1>4. ASSUME NEW i \in waiting, NEW start \in todo, ReadValidators(i, start)
        PROVE  EpochInv'
    <2> DEFINE new == [start_height |-> EpochStart(i, start),
                       validators |-> ContractValidators(i, start),
                       index |-> i]
    <2>1. /\ i \in DOMAIN fetchers /\ i \in Contracts /\ i \in DefinitionIndex
          /\ start \in Height
      BY <1>4, <1>f DEF ReadValidators, EpochControl, EpochTypeOK, Contracts
    <2>2. EpochStart(i, start) \in Height
      BY <2>1, EpochStartType
    <2>3. new \in FetchedEpoch
      BY <2>1, <2>2, ContractValidatorsType DEF FetchedEpoch
    <2>4. new_epochs' \in Seq(FetchedEpoch)
      BY <1>4, <2>3, AppendProperties DEF ReadValidators, AskedHeight, EpochTypeOK
    <2>5. [fetchers[i] EXCEPT
             !.earliest = IF @ = None THEN EpochStart(i, start) ELSE @,
             !.latest = EpochStart(i, start)] \in FetcherState
      BY <2>1, <2>2, <1>f DEF FetcherState
    <2>6. fetchers' \in [DOMAIN fetchers -> FetcherState] /\ DOMAIN fetchers' = DOMAIN fetchers
      BY <1>4, <2>1, <2>5, <1>f DEF ReadValidators, EpochTypeOK
    <2> QED BY <1>4, <2>4, <2>6
            DEF ReadValidators, EpochTypeOK, EpochControl, nodeVars, oracleVars,
                OracleTypeOK
  <1>5. ASSUME NEW i \in waiting, ContractFetched(i) PROVE EpochInv'
    BY <1>5
    DEF ContractFetched, EpochTypeOK, EpochControl, nodeVars, oracleVars,
        OracleTypeOK
  <1>6. CASE StaticEpochsAdded \/ StartUpdate
    BY <1>6
    DEF StaticEpochsAdded, StartUpdate, EpochTypeOK, EpochControl, Contracts,
        nodeVars, oracleVars, OracleTypeOK
  <1>7. ASSUME NEW h \in Height, FinishFetch(h) PROVE EpochInv'
    <2>1. /\ DOMAIN fetchers' \subseteq DOMAIN fetchers
          /\ fetchers' \in [DOMAIN fetchers' -> FetcherState]
      BY <1>7, <1>f DEF FinishFetch
    <2> QED BY <1>7, <2>1
            DEF FinishFetch, EpochTypeOK, EpochControl, nodeVars, oracleVars,
                OracleTypeOK
  <1>8. CASE AddNewEpoch
    <2>1. /\ new_epochs \in Seq(FetchedEpoch) /\ new_epochs # <<>>
          /\ Head(new_epochs).validators # <<>>
      BY <1>8 DEF AddNewEpoch, AddEpoch, EpochTypeOK
    <2>2. Head(new_epochs) \in FetchedEpoch /\ Tail(new_epochs) \in Seq(FetchedEpoch)
      BY <2>1, HeadTailProperties
    <2>3. Head(new_epochs) \in Epoch
      BY <2>1, <2>2 DEF FetchedEpoch, Epoch
    <2>4. epochs' \in SUBSET Epoch /\ known' \in SUBSET Epoch /\ max_height' \in Height
      BY <1>8, <2>3
      DEF AddNewEpoch, AddEpoch, WithEpoch, EpochTypeOK, OracleTypeOK
    <2> QED BY <1>8, <2>2, <2>4
            DEF AddNewEpoch, EpochTypeOK, EpochControl, nodeVars, fetchVars,
                OracleTypeOK
  <1>9. CASE RefuseEmptyEpoch
    BY <1>9
    DEF RefuseEmptyEpoch, EpochTypeOK, EpochControl, nodeVars, fetchVars,
        oracleVars, OracleTypeOK
  <1>10. CASE EpochsUpdated
    BY <1>10
    DEF EpochsUpdated, SetMaxHeight, EpochTypeOK, EpochControl, nodeVars,
        fetchVars, OracleTypeOK
  <1>11. CASE NewProcess
    <2>1. FreshFetchers \in [Contracts -> FetcherState] /\ DOMAIN FreshFetchers = Contracts
      BY DEF FreshFetchers, FetcherState
    <2>2. fetchers' \in [DOMAIN fetchers' -> FetcherState] /\ DOMAIN fetchers' = Contracts
      BY <1>11, <2>1 DEF NewProcess
    <2>3. new_epochs' \in Seq(FetchedEpoch)
      BY <1>11, EmptySeq DEF NewProcess
    <2>4. OracleTypeOK'
      BY <1>11, OracleAssumption DEF NewProcess, ResetOracle, OracleTypeOK
    <2> QED BY <1>11, <2>2, <2>3, <2>4, OracleAssumption
            DEF NewProcess, EpochTypeOK, EpochControl, StaticRanges, Contracts, nodeVars
  <1>12. CASE Mine
    <2>1. block_number' \in Height
      BY <1>12 DEF Mine
    <2>2. finalized' \in [Contracts -> SUBSET Change]
      <3>1. ASSUME NEW i \in Contracts, NEW w \in ValidatorList
            PROVE  [finalized EXCEPT
                      ![i] = @ \cup {[start |-> block_number', validators |-> w]}]
                   \in [Contracts -> SUBSET Change]
        <4>1. [start |-> block_number', validators |-> w] \in Change
          BY <2>1 DEF Change
        <4> QED BY <4>1 DEF EpochTypeOK
      <3> QED BY <3>1, <1>12 DEF Mine, EpochTypeOK
    <2> QED BY <1>12, <2>1, <2>2
            DEF Mine, EpochTypeOK, EpochControl, fetchVars, oracleVars, OracleTypeOK
  <1>13. ASSUME NEW n \in Height, Reorg(n) PROVE EpochInv'
    <2>1. finalized' \in [Contracts -> SUBSET Change]
      BY <1>13 DEF Reorg, EpochTypeOK
    <2> QED BY <1>13, <2>1
            DEF Reorg, EpochTypeOK, EpochControl, fetchVars, oracleVars, OracleTypeOK
  <1>14. CASE UNCHANGED epochVars
    BY <1>14
    DEF epochVars, EpochTypeOK, EpochControl, nodeVars, fetchVars, oracleVars,
        OracleTypeOK
  <1> QED BY <1>1, <1>2, <1>3, <1>4, <1>5, <1>6, <1>7, <1>8, <1>9, <1>10, <1>11,
             <1>12, <1>13, <1>14
          DEF EpochNext, UpdateStep

\* Every variable keeps its type, whatever the node does.
THEOREM EpochTypesCorrect == EpochSpec => []EpochTypeOK
  <1>1. EpochInv => EpochTypeOK
    BY DEF EpochInv
  <1> QED BY <1>1, EpochInitTypes, EpochStepTypes, PTL DEF EpochSpec

-----------------------------------------------------------------------------
(* The oracle is used as specified.                                        *)

\* Every step is one of the oracle or leaves it alone.
LEMMA EpochStepFeedsOracle ==
  ASSUME EpochInv, [EpochNext]_epochVars
  PROVE  [OracleNext]_oracleVars
  <1>1. ASSUME NEW i \in waiting, AddStaticEpoch(i) PROVE OracleNext
    <2>1. i \in StaticRanges
      BY <1>1 DEF AddStaticEpoch, EpochInv, EpochControl
    <2>2. StaticEpoch(i) \in Epoch
      BY <2>1, DefinitionAssumption DEF StaticEpoch, StaticRanges, Contracts, Epoch
    <2> QED BY <1>1, <2>2 DEF AddStaticEpoch, OracleNext
  <1>2. CASE AddNewEpoch
    <2>1. /\ new_epochs \in Seq(FetchedEpoch) /\ new_epochs # <<>>
          /\ Head(new_epochs).validators # <<>>
      BY <1>2 DEF AddNewEpoch, AddEpoch, EpochInv, EpochTypeOK
    <2>2. Head(new_epochs) \in FetchedEpoch
      BY <2>1, HeadTailProperties
    <2>3. Head(new_epochs) \in Epoch
      BY <2>1, <2>2 DEF FetchedEpoch, Epoch
    <2> QED BY <1>2, <2>3 DEF AddNewEpoch, OracleNext
  <1>3. CASE EpochsUpdated
    BY <1>3 DEF EpochsUpdated, EpochInv, EpochTypeOK, OracleNext
  <1>4. CASE NewProcess
    BY <1>4 DEF NewProcess, OracleNext
  <1>5. CASE \/ \E i \in waiting : \/ ReadBlockNumber(i)
                                   \/ ReadStartHeights(i)
                                   \/ \E start \in todo : ReadValidators(i, start)
                                   \/ ContractFetched(i)
             \/ StaticEpochsAdded
             \/ \E h \in Height : FinishFetch(h)
             \/ RefuseEmptyEpoch
             \/ StartUpdate
             \/ Mine
             \/ \E n \in Height : Reorg(n)
             \/ UNCHANGED epochVars
    BY <1>5
    DEF ReadBlockNumber, ReadStartHeights, ReadValidators, ContractFetched,
        StaticEpochsAdded, FinishFetch, RefuseEmptyEpoch, StartUpdate, Mine,
        Reorg, epochVars
  <1> QED BY <1>1, <1>2, <1>3, <1>4, <1>5 DEF EpochNext, UpdateStep

\* App uses the oracle as PrimaryOracle specifies it ...
THEOREM OracleImplemented == EpochSpec => OracleSpec
  <1>1. EpochInit => OracleInit
    BY DEF EpochInit
  <1>2. EpochInv /\ [EpochNext]_epochVars => [OracleNext]_oracleVars
    BY EpochStepFeedsOracle
  <1> QED BY <1>1, <1>2, EpochInitTypes, EpochStepTypes, PTL
          DEF EpochSpec, OracleSpec

\* ... so it answers with the epoch that governs the height among all that
\* were fetched, from whichever contracts and in whichever order.
THEOREM FetchedAnswersGovern == EpochSpec => []AnswersGovern
  BY OracleImplemented, AnswersGovernHolds, PTL

-----------------------------------------------------------------------------
(* Failures.                                                               *)

\* Without a reorganisation the contract keeps every epoch whose start height
\* was read, so each one comes with its validators.
FetchInv ==
  ~reorged =>
    /\ pc # "down"
    /\ pc = "validators" =>
         \A i \in waiting : Least(i, waiting) => todo \subseteq StartHeights(i)
    /\ \A k \in 1..Len(new_epochs) : new_epochs[k].validators # <<>>

\* Every step keeps it.
LEMMA FetchStep == EpochInv /\ FetchInv /\ [EpochNext]_epochVars => FetchInv'
  <1> SUFFICES ASSUME EpochInv, FetchInv, [EpochNext]_epochVars, ~reorged'
               PROVE  FetchInv'
    BY DEF FetchInv
  <1>s. new_epochs \in Seq(FetchedEpoch)
    BY DEF EpochInv, EpochTypeOK
  <1>1. ASSUME NEW i \in waiting, AddStaticEpoch(i) PROVE FetchInv'
    BY <1>1 DEF AddStaticEpoch, FetchInv
  <1>2. ASSUME NEW i \in waiting, ReadBlockNumber(i) PROVE FetchInv'
    BY <1>2 DEF ReadBlockNumber, FetchInv
  <1>3. ASSUME NEW i \in waiting, ReadStartHeights(i) PROVE FetchInv'
    <2>1. \A j \in waiting : Least(j, waiting) => j = i
      <3>1. \A j \in waiting : j \in Nat
        BY OracleAssumption DEF EpochInv, EpochTypeOK
      <3> QED BY <3>1, <1>3 DEF ReadStartHeights, Least
    <2>2. todo' \subseteq StartHeights(i) /\ UNCHANGED <<finalized, waiting, new_epochs, reorged>>
      BY <1>3 DEF ReadStartHeights, nodeVars
    <2> QED BY <1>3, <2>1, <2>2 DEF ReadStartHeights, FetchInv, StartHeights, Least
  <1>4. ASSUME NEW i \in waiting, NEW start \in todo, ReadValidators(i, start)
        PROVE  FetchInv'
    <2>1. /\ i \in Contracts /\ ~reorged /\ pc = "validators"
          /\ start \in StartHeights(i)
          /\ UNCHANGED <<finalized, waiting, pc, reorged>>
          /\ todo' \subseteq todo
      BY <1>4
      DEF ReadValidators, FetchInv, EpochInv, EpochControl, EpochTypeOK, nodeVars
    <2> DEFINE new == [start_height |-> EpochStart(i, start),
                       validators |-> ContractValidators(i, start),
                       index |-> i]
    <2>2. new.validators # <<>>
      BY <2>1, ContractValidatorsType, DefinitionAssumption DEF EpochInv
    <2>3. new \in FetchedEpoch
      <3>1. i \in DefinitionIndex /\ start \in Height
        BY <2>1 DEF Contracts, EpochInv, EpochTypeOK
      <3> QED BY <2>1, <3>1, EpochStartType, ContractValidatorsType
              DEF FetchedEpoch, EpochInv
    <2>4. new_epochs' = Append(new_epochs, new)
      BY <1>4 DEF ReadValidators, AskedHeight
    <2>5. \A k \in 1..Len(new_epochs') : new_epochs'[k].validators # <<>>
      <3> HIDE DEF new
      <3>1. /\ Len(new_epochs') = Len(new_epochs) + 1
            /\ \A k \in 1..Len(new_epochs) : new_epochs'[k] = new_epochs[k]
            /\ new_epochs'[Len(new_epochs) + 1] = new
            /\ Len(new_epochs) \in Nat
        BY <2>3, <2>4, <1>s, AppendProperties
      <3>2. \A k \in 1..Len(new_epochs) : new_epochs[k].validators # <<>>
        BY <2>1 DEF FetchInv
      <3> QED BY <3>1, <3>2, <2>2
    <2> QED BY <2>1, <2>5 DEF FetchInv, StartHeights, Least
  <1>5. ASSUME NEW i \in waiting, ContractFetched(i) PROVE FetchInv'
    BY <1>5 DEF ContractFetched, FetchInv
  <1>6. CASE StaticEpochsAdded \/ StartUpdate
    BY <1>6 DEF StaticEpochsAdded, StartUpdate, FetchInv
  <1>7. ASSUME NEW h \in Height, FinishFetch(h) PROVE FetchInv'
    BY <1>7 DEF FinishFetch, FetchInv
  <1>8. CASE AddNewEpoch
    <2>1. /\ Len(Tail(new_epochs)) = Len(new_epochs) - 1
          /\ \A k \in 1..Len(Tail(new_epochs)) : Tail(new_epochs)[k] = new_epochs[k + 1]
          /\ Len(new_epochs) \in Nat
      BY <1>8, <1>s, HeadTailProperties DEF AddNewEpoch
    <2> QED BY <1>8, <2>1 DEF AddNewEpoch, FetchInv
  <1>9. CASE RefuseEmptyEpoch
    <2>1. Head(new_epochs) = new_epochs[1] /\ 1 \in 1..Len(new_epochs)
      BY <1>9, <1>s, HeadTailProperties, EmptySeq DEF RefuseEmptyEpoch
    <2> QED BY <1>9, <2>1 DEF RefuseEmptyEpoch, FetchInv
  <1>10. CASE EpochsUpdated
    BY <1>10 DEF EpochsUpdated, FetchInv
  <1>11. CASE NewProcess
    BY <1>11 DEF NewProcess, FetchInv
  <1>12. CASE Mine
    <2>1. \A i \in Contracts : StartHeights(i) \subseteq StartHeights(i)'
      BY <1>12 DEF Mine, StartHeights, EpochInv, EpochTypeOK
    <2>2. pc = "validators" => waiting \subseteq Contracts
      BY DEF EpochInv, EpochControl, EpochTypeOK
    <2> QED BY <1>12, <2>1, <2>2 DEF Mine, FetchInv, fetchVars, Least
  <1>13. ASSUME NEW n \in Height, Reorg(n) PROVE FetchInv'
    BY <1>13 DEF Reorg
  <1>14. CASE UNCHANGED epochVars
    BY <1>14 DEF epochVars, nodeVars, fetchVars, FetchInv, StartHeights, Least
  <1> QED BY <1>1, <1>2, <1>3, <1>4, <1>5, <1>6, <1>7, <1>8, <1>9, <1>10, <1>11,
             <1>12, <1>13, <1>14
          DEF EpochNext, UpdateStep

\* Only a reorganisation makes an update fail.
THEOREM FailsByReorgOnlyHolds == EpochSpec => []FailsByReorgOnly
  <1>1. EpochInit => FetchInv
    BY EmptySeq DEF EpochInit, FetchInv
  <1>2. FetchInv => FailsByReorgOnly
    BY DEF FetchInv, FailsByReorgOnly
  <1> QED BY <1>1, <1>2, FetchStep, EpochInitTypes, EpochStepTypes, PTL
          DEF EpochSpec

-----------------------------------------------------------------------------
(* What a process knows agrees with what the contracts say, as long as no  *)
(* change of validators is undone.  This needs that a contract's changes   *)
(* come one after the other, all but the first above the enter height.     *)

ChangesInv ==
  \A i \in Contracts :
    /\ \A c \in finalized[i] : c.start <= block_number
    /\ \A c, d \in finalized[i] :
         /\ c.start = d.start => c = d
         /\ c.start < d.start => EnterHeight[i] < d.start

\* The types, in arithmetic terms.
LEMMA EpochTypes ==
  ASSUME EpochInv
  PROVE  /\ block_number \in Nat /\ last_fetch_height \in Nat /\ max_height \in Nat
         /\ waiting \subseteq Nat /\ todo \subseteq Nat
         /\ new_epochs \in Seq(FetchedEpoch)
         /\ \A i \in DefinitionIndex : i \in Nat /\ EnterHeight[i] \in Nat
         /\ \A i \in Contracts : /\ i \in DefinitionIndex
                                 /\ finalized[i] \subseteq Change
         /\ \A c \in Change : c.start \in Nat
         /\ \A i \in DOMAIN fetchers :
              /\ i \in Contracts /\ fetchers[i] \in FetcherState
              /\ fetchers[i].last_fetch_height \in Nat \cup {None}
              /\ fetchers[i].earliest \in Nat \cup {None}
              /\ fetchers[i].latest \in Nat \cup {None}
  BY OracleAssumption, DefinitionAssumption
  DEF EpochInv, EpochTypeOK, OracleTypeOK, Contracts, Change, FetcherState

\* At first no contract has changed anything.
LEMMA InitChanges == EpochInit => ChangesInv
  BY DEF EpochInit, ChangesInv

\* Blocks are mined in order, and contracts wait for their enter height.
LEMMA StepChanges ==
  ~EarlyChanges /\ EpochInv /\ ChangesInv /\ [EpochNext]_epochVars => ChangesInv'
  <1> SUFFICES ASSUME ~EarlyChanges, EpochInv, ChangesInv, [EpochNext]_epochVars
               PROVE  ChangesInv'
    OBVIOUS
  <1>t. /\ block_number \in Nat
        /\ \A i \in Contracts : \A c \in finalized[i] : c.start \in Nat
        /\ finalized \in [Contracts -> SUBSET Change]
    BY EpochTypes DEF EpochInv, EpochTypeOK
  <1>1. CASE Mine /\ finalized' # finalized
    <2>1. PICK j \in Contracts, w \in ValidatorList :
            /\ MayChange(j, block_number')
            /\ finalized' = [finalized EXCEPT
                 ![j] = @ \cup {[start |-> block_number', validators |-> w]}]
      BY <1>1 DEF Mine
    <2>2. block_number' = block_number + 1
      BY <1>1 DEF Mine
    <2> DEFINE new == [start |-> block_number', validators |-> w]
    <2>3. /\ new.start = block_number + 1
          /\ finalized'[j] = finalized[j] \cup {new}
          /\ \A i \in Contracts : i # j => finalized'[i] = finalized[i]
      BY <1>t, <2>1, <2>2
    <2>4. finalized[j] # {} => EnterHeight[j] < new.start
      <3>1. EnterHeight[j] \in Nat
        BY EpochTypes
      <3> QED BY <1>t, <2>1, <2>2, <2>3, <3>1 DEF MayChange
    <2> HIDE DEF new
    <2>5. ASSUME NEW i \in Contracts
          PROVE  /\ \A c \in finalized'[i] : c.start <= block_number'
                 /\ \A c, d \in finalized'[i] :
                      /\ c.start = d.start => c = d
                      /\ c.start < d.start => EnterHeight[i] < d.start
      <3>1. CASE i = j
        <4>1. \A c \in finalized[j] : c.start \in Nat /\ c.start <= block_number
          BY <1>t DEF ChangesInv
        <4> QED BY <1>t, <2>2, <2>3, <2>4, <3>1, <4>1 DEF ChangesInv
      <3>2. CASE i # j
        BY <1>t, <2>2, <2>3, <3>2 DEF ChangesInv
      <3> QED BY <3>1, <3>2
    <2> QED BY <2>5 DEF ChangesInv
  <1>2. CASE Mine /\ finalized' = finalized
    BY <1>2, <1>t DEF Mine, ChangesInv
  <1>3. ASSUME NEW n \in Height, Reorg(n) PROVE ChangesInv'
    BY <1>3 DEF Reorg, ChangesInv
  <1>4. CASE UNCHANGED nodeVars
    BY <1>4 DEF nodeVars, ChangesInv
  <1>5. Mine \/ (\E n \in Height : Reorg(n)) \/ UNCHANGED nodeVars
    BY DEF EpochNext, UpdateStep, NewProcess, AddStaticEpoch, ReadBlockNumber,
           ReadStartHeights, ReadValidators, ContractFetched, StaticEpochsAdded,
           FinishFetch, AddNewEpoch, RefuseEmptyEpoch, EpochsUpdated,
           StartUpdate, epochVars, nodeVars
  <1> QED BY <1>1, <1>2, <1>3, <1>4, <1>5

\* The epoch that a change makes.
ContractEpoch(i, c) ==
  [start_height |-> EpochStart(i, c.start), validators |-> c.validators, index |-> i]

\* No two changes start their epochs at the same height.
LEMMA EpochStartsDiffer ==
  ASSUME EpochInv, ChangesInv, NEW i \in Contracts,
         NEW c \in finalized[i], NEW d \in finalized[i]
  PROVE  /\ c.start <= EpochStart(i, c.start) /\ EpochStart(i, c.start) \in Nat
         /\ c.start < d.start => EpochStart(i, c.start) < d.start
         /\ EpochStart(i, c.start) = EpochStart(i, d.start) => c = d
  <1>1. c.start \in Nat /\ d.start \in Nat /\ EnterHeight[i] \in Nat
    BY EpochTypes
  <1>2. /\ c.start = d.start => c = d
        /\ c.start < d.start => EnterHeight[i] < d.start
        /\ d.start < c.start => EnterHeight[i] < c.start
    BY DEF ChangesInv
  <1> QED BY <1>1, <1>2 DEF EpochStart

\* The true epochs without the exception for changes before the enter height.
LEMMA TrueEpochsAre ==
  ASSUME EpochInv, ChangesInv
  PROVE  \A e : e \in TrueEpochs <=>
           \/ \E i \in StaticRanges : e = StaticEpoch(i)
           \/ \E i \in Contracts : \E c \in finalized[i] : e = ContractEpoch(i, c)
  <1>1. ASSUME NEW i \in Contracts, NEW d \in finalized[i]
        PROVE  ~ \E f \in finalized[i] :
                   d.start < f.start /\ f.start <= EnterHeight[i]
    <2> SUFFICES ASSUME NEW f \in finalized[i], d.start < f.start,
                        f.start <= EnterHeight[i]
                 PROVE  FALSE
      OBVIOUS
    <2>1. EnterHeight[i] < f.start
      BY DEF ChangesInv
    <2>2. f.start \in Nat /\ EnterHeight[i] \in Nat
      BY EpochTypes
    <2> QED BY <2>1, <2>2
  <1> QED BY <1>1 DEF TrueEpochs, ContractEpoch, EpochStart

\* A range has one epoch for each start height.
LEMMA TrueEpochsDiffer ==
  ASSUME EpochInv, ChangesInv, NEW e \in TrueEpochs, NEW f \in TrueEpochs,
         e.index = f.index, e.start_height = f.start_height
  PROVE  e = f
  <1>1. CASE \E i \in StaticRanges : e = StaticEpoch(i)
    BY <1>1, TrueEpochsAre DEF StaticEpoch, ContractEpoch, StaticRanges
  <1>2. CASE \E i \in Contracts : \E c \in finalized[i] : e = ContractEpoch(i, c)
    <2>1. PICK i \in Contracts : \E c \in finalized[i] : e = ContractEpoch(i, c)
      BY <1>2
    <2>2. PICK c \in finalized[i] : e = ContractEpoch(i, c)
      BY <2>1
    <2>3. \E d \in finalized[i] : f = ContractEpoch(i, d)
      BY <2>2, TrueEpochsAre DEF StaticEpoch, ContractEpoch, StaticRanges
    <2>4. PICK d \in finalized[i] : f = ContractEpoch(i, d)
      BY <2>3
    <2>5. EpochStart(i, c.start) = EpochStart(i, d.start)
      BY <2>2, <2>4 DEF ContractEpoch
    <2>6. c = d
      BY <2>5, EpochStartsDiffer
    <2> QED BY <2>2, <2>4, <2>6
  <1> QED BY <1>1, <1>2, TrueEpochsAre

-----------------------------------------------------------------------------
(* What has been received of it, and what is still to come.                *)

\* The epochs in the oracle or on their way to it.
Received == known \cup {new_epochs[k] : k \in 1..Len(new_epochs)}

HasEpoch(i, c) == ContractEpoch(i, c) \in Received

Current(i) == Least(i, waiting)

\* A change that has not been received will be found by the next call, or by
\* the one that is under way.
Pending ==
  \A i \in DOMAIN fetchers : \A c \in finalized[i] :
    HasEpoch(i, c) \/
      /\ IsNew(i, c.start)
      /\ \/ c.start > fetchers[i].last_fetch_height
         \/ pc = "starts" /\ Current(i)
         \/ pc = "validators" /\ Current(i) /\ c.start \in todo

\* The epochs are received in the order of their changes.
InTurn ==
  pc = "validators" =>
    \A i \in waiting : Current(i) =>
      \A c \in finalized[i] :
        HasEpoch(i, c) \/ c.start \in todo \/ (\A s \in todo : s < c.start)

\* A fetcher was dropped for an epoch of a later range, which what is missed
\* of its contract does not precede.
Dropped ==
  \A i \in Contracts \ DOMAIN fetchers :
    \E e \in Received :
      /\ i < e.index
      /\ e.start_height <= block_number
      /\ \A c \in finalized[i] : HasEpoch(i, c) \/ e.start_height < c.start

\* What a fetcher remembers is true.
Remembered ==
  \A i \in DOMAIN fetchers :
    /\ fetchers[i].last_fetch_height <= block_number
    /\ fetchers[i].earliest # None =>
         \E e \in Received : e.index = i /\ e.start_height = fetchers[i].earliest
    /\ fetchers[i].latest # None =>
         \E c \in finalized[i] : fetchers[i].latest = EpochStart(i, c.start)

StaticKnown ==
  \A i \in StaticRanges : StaticEpoch(i) \in known \/ (pc = "static" /\ i \in waiting)

\* max_height is not above what any fetcher has looked at.
WithinFetched ==
  /\ pc = "add" =>
       \A i \in DOMAIN fetchers : last_fetch_height <= fetchers[i].last_fetch_height
  /\ pc = "updated" =>
       /\ new_epochs = <<>>
       /\ \A i \in DOMAIN fetchers : max_height <= fetchers[i].last_fetch_height

Faith ==
  /\ Received \subseteq TrueEpochs
  /\ Pending /\ InTurn /\ Dropped /\ Remembered /\ StaticKnown /\ WithinFetched

FaithInv == ~reorged => Faith

\* A new process has received nothing and remembers nothing.
FreshProcess ==
  /\ known = {} /\ new_epochs = <<>> /\ fetchers = FreshFetchers
  /\ pc = "static" /\ waiting = StaticRanges

\* So it has missed nothing.
LEMMA FreshFaith == EpochInv /\ FreshProcess => Faith
  <1> SUFFICES ASSUME EpochInv, FreshProcess PROVE Faith
    OBVIOUS
  <1>1. Received = {}
    BY DEF Received, FreshProcess
  <1>2. /\ DOMAIN fetchers = Contracts
        /\ \A i \in Contracts : /\ fetchers[i].last_fetch_height = None
                                /\ fetchers[i].earliest = None
                                /\ fetchers[i].latest = None
    BY DEF FreshFetchers, FreshProcess
  <1>3. \A i \in Contracts : \A c \in finalized[i] : c.start \in Nat
    BY EpochTypes
  <1>4. block_number \in Nat
    BY EpochTypes
  <1>5. Pending
    BY <1>2, <1>3 DEF Pending, IsNew, None
  <1>6. Remembered
    BY <1>2, <1>4 DEF Remembered, None
  <1> QED BY <1>1, <1>2, <1>5, <1>6
      DEF Faith, InTurn, Dropped, StaticKnown, WithinFetched, FreshProcess

\* Steps that neither call a contract nor drop its fetcher.
LEMMA FaithKept ==
  ASSUME Faith, Received \subseteq Received',
         UNCHANGED <<finalized, block_number, fetchers>>,
         \/ UNCHANGED <<pc, waiting, todo>>
         \/ pc \notin {"starts", "validators"} /\ pc' # "validators"
  PROVE  Pending' /\ InTurn' /\ Dropped' /\ Remembered'
  <1>1. Pending'
    BY DEF Faith, Pending, HasEpoch, IsNew, Current, Least
  <1>2. InTurn'
    BY DEF Faith, InTurn, HasEpoch, Current, Least
  <1>3. Dropped'
    BY DEF Faith, Dropped, HasEpoch
  <1>4. Remembered'
    BY DEF Faith, Remembered
  <1> QED BY <1>1, <1>2, <1>3, <1>4

\* Only one fetcher is current.
LEMMA OneCurrent ==
  ASSUME EpochInv, NEW i \in waiting, Current(i), NEW j, Current(j)
  PROVE  i = j
  BY EpochTypes DEF Current, Least

\* The types of the epochs received.
LEMMA TrueEpochTypes ==
  ASSUME EpochInv, ChangesInv
  PROVE  \A t \in TrueEpochs : t.start_height \in Nat /\ t.index \in Nat
  <1>1. \A i \in StaticRanges : /\ StaticEpoch(i).start_height \in Nat
                                /\ StaticEpoch(i).index \in Nat
    BY EpochTypes DEF StaticEpoch, StaticRanges
  <1>2. \A i \in Contracts : \A c \in finalized[i] :
          /\ ContractEpoch(i, c).start_height \in Nat
          /\ ContractEpoch(i, c).index \in Nat
    BY EpochTypes, EpochStartsDiffer DEF ContractEpoch
  <1> QED BY <1>1, <1>2, TrueEpochsAre

\* Adding an epoch that is true replaces none.
LEMMA AddKeepsKnown ==
  ASSUME EpochInv, ChangesInv, known \subseteq TrueEpochs, NEW e \in TrueEpochs,
         AddEpoch(e)
  PROVE  known' = known \cup {e}
  <1>1. \A f \in known : f.index = e.index /\ f.start_height = e.start_height => f = e
    BY TrueEpochsDiffer
  <1> QED BY <1>1 DEF AddEpoch

\* The height is read before anything else: what is above it is left for the
\* next call.
LEMMA ReadBlockNumberKeepsFaith ==
  ASSUME EpochInv, Faith, NEW i \in waiting, ReadBlockNumber(i)
  PROVE  Faith'
  <1>1. /\ pc = "idle" /\ pc' = "starts"
        /\ UNCHANGED <<finalized, block_number, waiting, known, new_epochs>>
    BY DEF ReadBlockNumber, nodeVars, oracleVars
  <1>2. Current(i)'
    BY <1>1 DEF ReadBlockNumber, Current, Least
  <1>3. /\ i \in DOMAIN fetchers /\ DOMAIN fetchers' = DOMAIN fetchers
        /\ fetchers'[i].last_fetch_height = block_number
        /\ \A j \in DOMAIN fetchers :
             /\ fetchers'[j].earliest = fetchers[j].earliest
             /\ fetchers'[j].latest = fetchers[j].latest
             /\ j # i => fetchers'[j] = fetchers[j]
    BY EpochTypes
    DEF ReadBlockNumber, FetchHeight, EpochInv, EpochControl, EpochTypeOK, FetcherState
  <1>4. Received' = Received /\ TrueEpochs' = TrueEpochs
    BY <1>1 DEF Received, TrueEpochs
  <1>5. Pending'
    BY <1>1, <1>2, <1>3, <1>4 DEF Faith, Pending, HasEpoch, IsNew
  <1>6. Remembered'
    BY <1>1, <1>3, <1>4, EpochTypes DEF Faith, Remembered
  <1>7. Dropped'
    BY <1>1, <1>3, <1>4 DEF Faith, Dropped, HasEpoch
  <1> QED BY <1>1, <1>4, <1>5, <1>6, <1>7
      DEF Faith, InTurn, StaticKnown, WithinFetched

\* All start heights that are new are noted.
LEMMA ReadStartHeightsKeepsFaith ==
  ASSUME EpochInv, Faith, NEW i \in waiting, ReadStartHeights(i)
  PROVE  Faith'
  <1>1. /\ pc = "starts" /\ pc' = "validators"
        /\ todo' = {s \in StartHeights(i) : IsNew(i, s)}
        /\ UNCHANGED <<finalized, block_number, fetchers, waiting, known, new_epochs>>
    BY DEF ReadStartHeights, nodeVars, oracleVars
  <1>2. Current(i) /\ \A j : Current(j) => j = i
    <2>1. Current(i)
      BY DEF ReadStartHeights, Current
    <2> QED BY <2>1, OneCurrent
  <1>3. i \in DOMAIN fetchers
    BY <1>1 DEF EpochInv, EpochControl
  <1>4. Received' = Received /\ TrueEpochs' = TrueEpochs
    BY <1>1 DEF Received, TrueEpochs
  <1>5. \A j : Current(j)' <=> Current(j)
    BY <1>1 DEF Current, Least
  <1>6. \A c \in finalized[i] : HasEpoch(i, c) \/ c.start \in todo'
    BY <1>1, <1>3 DEF Faith, Pending, StartHeights
  <1>7. Pending'
    BY <1>1, <1>2, <1>4, <1>5, <1>6 DEF Faith, Pending, HasEpoch, IsNew
  <1>8. InTurn'
    BY <1>1, <1>2, <1>4, <1>5, <1>6 DEF InTurn, HasEpoch
  <1>9. Remembered' /\ Dropped'
    BY <1>1, <1>4 DEF Faith, Remembered, Dropped, HasEpoch
  <1> QED BY <1>1, <1>4, <1>7, <1>8, <1>9 DEF Faith, StaticKnown, WithinFetched

\* Nothing that was noted is left over.
LEMMA ContractFetchedKeepsFaith ==
  ASSUME EpochInv, Faith, NEW i \in waiting, ContractFetched(i)
  PROVE  Faith'
  <1>1. /\ pc = "validators" /\ pc' = "idle" /\ todo = {}
        /\ UNCHANGED <<finalized, block_number, fetchers, known, new_epochs>>
    BY DEF ContractFetched, nodeVars, oracleVars
  <1>2. Received' = Received /\ TrueEpochs' = TrueEpochs
    BY <1>1 DEF Received, TrueEpochs
  <1>3. Pending'
    BY <1>1, <1>2 DEF Faith, Pending, HasEpoch, IsNew
  <1>4. Remembered' /\ Dropped'
    BY <1>1, <1>2 DEF Faith, Remembered, Dropped, HasEpoch
  <1> QED BY <1>1, <1>2, <1>3, <1>4
      DEF Faith, InTurn, StaticKnown, WithinFetched

\* Raising the latest start height hides no change that is still to come.
LEMMA ReadValidatorsKeepsFaith ==
  ASSUME EpochInv, ChangesInv, FetchInv, ~reorged, Faith, NEW i \in waiting,
         NEW start \in todo, ReadValidators(i, start)
  PROVE  Faith'
  <1>1. /\ pc = "validators" /\ pc' = pc /\ todo' = todo \ {start}
        /\ UNCHANGED <<finalized, block_number, waiting, known>>
    BY DEF ReadValidators, nodeVars, oracleVars
  <1>2. Current(i) /\ \A j : Current(j) => j = i
    <2>1. Current(i)
      BY DEF ReadValidators, Current
    <2> QED BY <2>1, OneCurrent
  <1>3. i \in DOMAIN fetchers /\ i \in Contracts
    BY <1>1, EpochTypes DEF EpochInv, EpochControl
  <1>4. start \in StartHeights(i)
    BY <1>1, <1>2 DEF FetchInv, Current
  <1>5. PICK new \in finalized[i] : new.start = start
    BY <1>4 DEF StartHeights
  <1>6. ContractValidators(i, start) = new.validators
    <2>1. \A c \in finalized[i] : c.start = start => c = new
      BY <1>3, <1>5 DEF ChangesInv
    <2>2. (CHOOSE c \in finalized[i] : c.start = start) = new
      BY <1>5, <2>1
    <2> QED BY <1>4, <2>2 DEF ContractValidators
  <1>7. new_epochs' = Append(new_epochs, ContractEpoch(i, new))
    BY <1>5, <1>6 DEF ReadValidators, AskedHeight, ContractEpoch
  <1>8. Received' = Received \cup {ContractEpoch(i, new)}
    <2> DEFINE e == ContractEpoch(i, new)
    <2> HIDE DEF e
    <2>1. new_epochs' = Append(new_epochs, e) /\ new_epochs \in Seq(FetchedEpoch)
      BY <1>7, EpochTypes DEF e
    <2>2. /\ Len(new_epochs') = Len(new_epochs) + 1
          /\ \A k \in 1..Len(new_epochs) : new_epochs'[k] = new_epochs[k]
          /\ new_epochs'[Len(new_epochs) + 1] = e
      BY <2>1
    <2>3. Len(new_epochs) \in Nat
      BY <2>1
    <2>4. {new_epochs'[k] : k \in 1..Len(new_epochs')} =
            {new_epochs[k] : k \in 1..Len(new_epochs)} \cup {e}
      BY <2>2, <2>3
    <2>5. Received' = Received \cup {e}
      BY <1>1, <2>4 DEF Received
    <2> QED BY <2>5 DEF e
  <1>9. /\ DOMAIN fetchers' = DOMAIN fetchers
        /\ fetchers'[i].last_fetch_height = fetchers[i].last_fetch_height
        /\ fetchers'[i].latest = EpochStart(i, start)
        /\ fetchers'[i].earliest = IF fetchers[i].earliest = None
                                   THEN EpochStart(i, start)
                                   ELSE fetchers[i].earliest
        /\ \A j \in DOMAIN fetchers : j # i => fetchers'[j] = fetchers[j]
    BY <1>3, EpochTypes DEF ReadValidators, EpochInv, EpochTypeOK, FetcherState
  <1>10. HasEpoch(i, new)' /\ \A j, c : HasEpoch(j, c) => HasEpoch(j, c)'
    BY <1>8 DEF HasEpoch
  <1>11. \A j : Current(j)' <=> Current(j)
    BY <1>1 DEF Current, Least
  \* What has not been received of this contract comes later.
  <1>12. ASSUME NEW c \in finalized[i], ~HasEpoch(i, c)'
         PROVE  c.start # start /\ c.start > EpochStart(i, start)
    <2>1. c # new /\ ~HasEpoch(i, c)
      BY <1>10, <1>12
    <2>2. c.start # start
      BY <1>3, <1>5, <2>1 DEF ChangesInv
    <2>3. c.start \in todo \/ \A s \in todo : s < c.start
      BY <1>1, <1>2, <2>1 DEF Faith, InTurn
    <2>4. c.start \in Nat /\ start \in Nat /\ EnterHeight[i] \in Nat
      BY <1>3, EpochTypes
    <2>5. start < c.start
      BY <2>2, <2>3, <2>4 DEF ReadValidators, Least
    <2>6. EnterHeight[i] < c.start
      BY <1>3, <1>5, <2>5 DEF ChangesInv
    <2> QED BY <2>2, <2>4, <2>5, <2>6 DEF EpochStart
  <1>13. Pending'
    <2> SUFFICES ASSUME NEW j \in DOMAIN fetchers, NEW c \in finalized[j],
                        ~HasEpoch(j, c)'
                 PROVE  /\ IsNew(j, c.start)'
                        /\ \/ c.start > fetchers'[j].last_fetch_height
                           \/ Current(j)' /\ c.start \in todo'
      BY <1>1, <1>9 DEF Pending
    <2>1. /\ IsNew(j, c.start)
          /\ \/ c.start > fetchers[j].last_fetch_height
             \/ Current(j) /\ c.start \in todo
      BY <1>1, <1>10 DEF Faith, Pending
    <2>2. CASE j = i
      BY <1>1, <1>9, <1>11, <1>12, <2>1, <2>2 DEF IsNew
    <2>3. CASE j # i
      BY <1>2, <1>9, <2>1, <2>3 DEF IsNew
    <2> QED BY <2>2, <2>3
  <1>14. InTurn'
    <2> SUFFICES ASSUME NEW c \in finalized[i], ~HasEpoch(i, c)'
                 PROVE  c.start \in todo' \/ \A s \in todo' : s < c.start
      BY <1>1, <1>2, <1>11 DEF InTurn
    <2>1. c.start \in todo \/ \A s \in todo : s < c.start
      BY <1>1, <1>2, <1>10 DEF Faith, InTurn
    <2> QED BY <1>1, <1>12, <2>1
  <1>15. Remembered'
    <2>1. /\ ContractEpoch(i, new) \in Received'
          /\ ContractEpoch(i, new).index = i
          /\ ContractEpoch(i, new).start_height = EpochStart(i, start)
      BY <1>5, <1>8 DEF ContractEpoch
    <2> QED BY <1>1, <1>5, <1>8, <1>9, <2>1 DEF Faith, Remembered
  <1>16. Dropped'
    BY <1>1, <1>8, <1>9, <1>10 DEF Faith, Dropped
  <1>17. Received' \subseteq TrueEpochs'
    <2>1. ContractEpoch(i, new) \in TrueEpochs
      BY <1>3, TrueEpochsAre
    <2>2. TrueEpochs' = TrueEpochs
      BY <1>1 DEF TrueEpochs
    <2> QED BY <1>8, <2>1, <2>2 DEF Faith
  <1> QED BY <1>1, <1>13, <1>14, <1>15, <1>16, <1>17
      DEF Faith, StaticKnown, WithinFetched

\* A fetcher is only dropped for an epoch that it has looked beyond.
LEMMA FinishFetchKeepsFaith ==
  ASSUME EpochInv, Faith, NEW h \in Height, FinishFetch(h)
  PROVE  Faith'
  <1>1. /\ pc = "idle" /\ pc' = "add" /\ last_fetch_height' = h
        /\ UNCHANGED <<finalized, block_number, waiting, known, new_epochs>>
    BY DEF FinishFetch, nodeVars, oracleVars
  <1>2. /\ DOMAIN fetchers' = DOMAIN fetchers \ StaleFetchers
        /\ \A j \in DOMAIN fetchers' : j \in DOMAIN fetchers /\ fetchers'[j] = fetchers[j]
    BY DEF FinishFetch
  <1>3. Received' = Received /\ TrueEpochs' = TrueEpochs
    BY <1>1 DEF Received, TrueEpochs
  <1>4. Pending'
    BY <1>1, <1>2, <1>3 DEF Faith, Pending, HasEpoch, IsNew
  <1>5. Remembered'
    BY <1>1, <1>2, <1>3 DEF Faith, Remembered
  <1>6. Dropped'
    <2>1. ASSUME NEW i \in DOMAIN fetchers, i \in StaleFetchers
          PROVE  \E e \in Received :
                   /\ i < e.index
                   /\ e.start_height <= block_number
                   /\ \A c \in finalized[i] : HasEpoch(i, c) \/ e.start_height < c.start
      <3>0. i \in Nat /\ i <= i
        BY EpochTypes
      <3>1. PICK j \in DOMAIN fetchers :
              /\ i < j /\ fetchers[j].earliest # None
              /\ fetchers[i].last_fetch_height >= fetchers[j].earliest
        BY <2>1, <3>0 DEF StaleFetchers, IsStale
      <3>2. PICK e \in Received : e.index = j /\ e.start_height = fetchers[j].earliest
        BY <3>1 DEF Faith, Remembered
      <3>3. /\ fetchers[j].earliest \in Nat
            /\ fetchers[i].last_fetch_height \in Nat
            /\ fetchers[i].last_fetch_height <= block_number
            /\ block_number \in Nat
        BY <3>1, EpochTypes DEF None, Faith, Remembered
      <3>4. \A c \in finalized[i] : c.start \in Nat
        BY EpochTypes
      <3>5. \A c \in finalized[i] :
              HasEpoch(i, c) \/ c.start > fetchers[i].last_fetch_height
        BY <1>1 DEF Faith, Pending
      <3>6. \A c \in finalized[i] : HasEpoch(i, c) \/ e.start_height < c.start
        BY <3>1, <3>2, <3>3, <3>4, <3>5
      <3> QED BY <3>1, <3>2, <3>3, <3>6
    <2> QED BY <1>1, <1>2, <1>3, <2>1 DEF Faith, Dropped, HasEpoch
  <1>7. WithinFetched'
    <2>1. IsLastFetchHeight(h, fetchers')
      BY DEF FinishFetch
    <2>2. \A i \in DOMAIN fetchers' : h <= fetchers'[i].last_fetch_height
      BY <2>1 DEF IsLastFetchHeight, Least
    <2> QED BY <1>1, <2>2 DEF WithinFetched
  <1> QED BY <1>1, <1>3, <1>4, <1>5, <1>6, <1>7 DEF Faith, InTurn, StaticKnown

\* A new change is above all that has been looked at.
LEMMA MineKeepsFaith ==
  ASSUME EpochInv, EpochInv', ChangesInv, ChangesInv', FetchInv, ~reorged, Faith, Mine
  PROVE  Faith'
  <1>1. /\ block_number' = block_number + 1 /\ block_number \in Nat
        /\ UNCHANGED <<fetchers, last_fetch_height, waiting, todo, pc, known,
                       max_height, new_epochs>>
    BY EpochTypes DEF Mine, fetchVars, oracleVars
  <1>2. \A i \in Contracts :
          /\ finalized[i] \subseteq finalized'[i]
          /\ \A c \in finalized'[i] : c \in finalized[i] \/ c.start = block_number'
    <2>1. CASE UNCHANGED finalized
      BY <2>1
    <2>2. CASE \E j \in Contracts, w \in ValidatorList :
                 finalized' = [finalized EXCEPT
                   ![j] = @ \cup {[start |-> block_number', validators |-> w]}]
      <3>1. finalized \in [Contracts -> SUBSET Change]
        BY DEF EpochInv, EpochTypeOK
      <3> QED BY <2>2, <3>1
    <2> QED BY <2>1, <2>2 DEF Mine
  <1>3. \A i \in Contracts : /\ \A c \in finalized[i] : c.start \in Nat /\ c.start <= block_number
                             /\ EnterHeight[i] \in Nat
    BY EpochTypes DEF ChangesInv
  <1>4. Received' = Received
    BY <1>1 DEF Received
  <1>5. TrueEpochs \subseteq TrueEpochs'
    <2>1. (EpochInv /\ ChangesInv =>
             \A e : e \in TrueEpochs <=>
               \/ \E i \in StaticRanges : e = StaticEpoch(i)
               \/ \E i \in Contracts : \E c \in finalized[i] : e = ContractEpoch(i, c))'
      BY TrueEpochsAre, PTL
    <2>2. \A e : e \in TrueEpochs' <=>
               \/ \E i \in StaticRanges : e = StaticEpoch(i)
               \/ \E i \in Contracts : \E c \in finalized'[i] : e = ContractEpoch(i, c)
      BY <2>1
    <2> QED BY <1>2, <2>2, TrueEpochsAre
  <1>6. \A i \in DOMAIN fetchers :
          /\ i \in Contracts
          /\ fetchers[i].last_fetch_height \in Int
          /\ fetchers[i].last_fetch_height <= block_number
    BY EpochTypes DEF None, Faith, Remembered
  <1>7. Pending'
    <2> SUFFICES ASSUME NEW i \in DOMAIN fetchers, NEW c \in finalized'[i],
                        c \notin finalized[i]
                 PROVE  IsNew(i, c.start) /\ c.start > fetchers[i].last_fetch_height
      BY <1>1, <1>4 DEF Faith, Pending, HasEpoch, IsNew, Current, Least
    <2>1. c.start = block_number + 1
      BY <1>1, <1>2, <1>6
    <2>2. ASSUME fetchers[i].latest # None
          PROVE  c.start > fetchers[i].latest
      <3>1. PICK d \in finalized[i] : fetchers[i].latest = EpochStart(i, d.start)
        BY <2>2 DEF Faith, Remembered
      <3>2. d \in finalized'[i] /\ d.start \in Nat /\ d.start < c.start
        BY <1>1, <1>2, <1>3, <1>6, <2>1
      <3>3. EnterHeight[i] < c.start
        BY <1>6, <3>2 DEF ChangesInv
      <3> QED BY <1>1, <1>3, <1>6, <2>1, <3>1, <3>2, <3>3 DEF EpochStart
    <2> QED BY <1>1, <1>6, <2>1, <2>2 DEF IsNew
  <1>8. InTurn'
    <2> SUFFICES ASSUME pc = "validators", NEW i \in waiting, Current(i),
                        NEW c \in finalized'[i], c \notin finalized[i]
                 PROVE  \A s \in todo : s < c.start
      BY <1>1, <1>4 DEF Faith, InTurn, HasEpoch, Current, Least
    <2>1. i \in Contracts
      BY EpochTypes DEF EpochInv, EpochControl
    <2>2. todo \subseteq StartHeights(i)
      BY DEF FetchInv, Current
    <2> QED BY <1>1, <1>2, <1>3, <2>1, <2>2 DEF StartHeights
  <1>9. Dropped'
    <2> SUFFICES ASSUME NEW i \in Contracts \ DOMAIN fetchers
                 PROVE  \E e \in Received :
                          /\ i < e.index
                          /\ e.start_height <= block_number'
                          /\ \A c \in finalized'[i] :
                               HasEpoch(i, c) \/ e.start_height < c.start
      BY <1>1, <1>4 DEF Dropped, HasEpoch
    <2>1. PICK e \in Received :
            /\ i < e.index
            /\ e.start_height <= block_number
            /\ \A c \in finalized[i] : HasEpoch(i, c) \/ e.start_height < c.start
      BY DEF Faith, Dropped
    <2>2. e.start_height \in Nat
      BY TrueEpochTypes DEF Faith
    <2> QED BY <1>1, <1>2, <2>1, <2>2
  <1>10. Remembered'
    <2>1. \A i \in DOMAIN fetchers : fetchers[i].last_fetch_height <= block_number'
      BY <1>1, <1>6
    <2> QED BY <1>1, <1>2, <1>4, <1>6, <2>1 DEF Faith, Remembered
  <1> QED BY <1>1, <1>4, <1>5, <1>7, <1>8, <1>9, <1>10
      DEF Faith, StaticKnown, WithinFetched

\* Every step keeps it.
LEMMA StepFaith ==
  /\ EpochInv /\ EpochInv' /\ ChangesInv /\ ChangesInv' /\ FetchInv /\ FaithInv
  /\ [EpochNext]_epochVars
  => FaithInv'
  <1> SUFFICES ASSUME EpochInv, EpochInv', ChangesInv, ChangesInv', FetchInv,
                      FaithInv, [EpochNext]_epochVars, ~reorged'
               PROVE  Faith'
    BY DEF FaithInv
  <1>1. CASE NewProcess
    <2>1. (EpochInv /\ FreshProcess => Faith)'
      BY FreshFaith, PTL
    <2>2. FreshProcess'
      BY <1>1 DEF NewProcess, ResetOracle, FreshProcess, FreshFetchers
    <2> QED BY <2>1, <2>2
  <1>2. CASE \E n \in Height : Reorg(n)
    BY <1>2 DEF Reorg
  <1>3. ASSUME ~reorged, Faith,
               \/ StaticEpochsAdded \/ RefuseEmptyEpoch \/ EpochsUpdated \/ StartUpdate
               \/ UNCHANGED epochVars
        PROVE  Faith'
    <2>1. /\ UNCHANGED <<finalized, block_number, fetchers, known, new_epochs, last_fetch_height>>
          /\ \/ UNCHANGED <<pc, waiting, todo, max_height>>
             \/ pc = "static" /\ waiting = {} /\ pc' = "idle"
             \/ pc = "add" /\ pc' = "down"
             \/ pc = "add" /\ pc' = "updated" /\ max_height' = last_fetch_height /\ new_epochs = <<>>
             \/ pc = "updated" /\ pc' = "idle"
      BY <1>3 DEF StaticEpochsAdded, RefuseEmptyEpoch, EpochsUpdated, StartUpdate,
                  SetMaxHeight, epochVars, nodeVars, oracleVars, fetchVars
    <2>2. Received' = Received /\ TrueEpochs' = TrueEpochs
      BY <2>1 DEF Received, TrueEpochs
    <2>3. Pending' /\ InTurn' /\ Dropped' /\ Remembered'
      BY <1>3, <2>1, <2>2, FaithKept
    <2>4. StaticKnown'
      BY <1>3, <2>1 DEF Faith, StaticKnown
    <2>5. WithinFetched'
      BY <1>3, <2>1 DEF Faith, WithinFetched
    <2> QED BY <1>3, <2>2, <2>3, <2>4, <2>5 DEF Faith
  <1>4. ASSUME ~reorged, Faith, NEW i \in waiting, AddStaticEpoch(i) PROVE Faith'
    <2>1. /\ pc = "static" /\ pc' = pc /\ waiting' = waiting \ {i}
          /\ AddEpoch(StaticEpoch(i))
          /\ UNCHANGED <<finalized, block_number, fetchers, new_epochs>>
      BY <1>4 DEF AddStaticEpoch, nodeVars
    <2>2. i \in StaticRanges
      BY <2>1 DEF EpochInv, EpochControl
    <2>3. StaticEpoch(i) \in TrueEpochs /\ TrueEpochs' = TrueEpochs
      BY <2>1, <2>2 DEF TrueEpochs
    <2>4. known \subseteq TrueEpochs
      BY <1>4 DEF Faith, Received
    <2>5. known' = known \cup {StaticEpoch(i)}
      BY <2>1, <2>3, <2>4, AddKeepsKnown
    <2>6. Received' = Received \cup {StaticEpoch(i)}
      BY <2>1, <2>5 DEF Received
    <2>7. Pending' /\ InTurn' /\ Dropped' /\ Remembered'
      BY <1>4, <2>1, <2>6, FaithKept
    <2>8. StaticKnown' /\ WithinFetched'
      BY <1>4, <2>1, <2>5 DEF Faith, StaticKnown, WithinFetched
    <2> QED BY <1>4, <2>3, <2>6, <2>7, <2>8 DEF Faith
  <1>5. ASSUME ~reorged, Faith, AddNewEpoch PROVE Faith'
    <2>1. /\ new_epochs # <<>> /\ new_epochs' = Tail(new_epochs)
          /\ AddEpoch(Head(new_epochs)) /\ new_epochs \in Seq(FetchedEpoch)
          /\ pc = "add"
          /\ UNCHANGED <<finalized, block_number, fetchers, pc, waiting, todo,
                         last_fetch_height>>
      BY <1>5, EpochTypes DEF AddNewEpoch, nodeVars, fetchVars
    <2>2. {new_epochs[k] : k \in 1..Len(new_epochs)} =
            {Head(new_epochs)} \cup {new_epochs'[k] : k \in 1..Len(new_epochs')}
      <3>1. /\ Len(new_epochs) \in Nat /\ Len(new_epochs) > 0
            /\ Len(new_epochs') = Len(new_epochs) - 1
            /\ Head(new_epochs) = new_epochs[1]
            /\ \A k \in 1..Len(new_epochs') : new_epochs'[k] = new_epochs[k + 1]
        BY <2>1
      <3>2. \A k \in 1..Len(new_epochs) :
              k = 1 \/ (k - 1 \in 1..Len(new_epochs') /\ new_epochs[k] = new_epochs'[k - 1])
        BY <3>1
      <3> QED BY <3>1, <3>2
    <2>3. TrueEpochs' = TrueEpochs
      BY <2>1 DEF TrueEpochs
    <2>4. Head(new_epochs) \in TrueEpochs /\ known \subseteq TrueEpochs
      BY <1>5, <2>2 DEF Faith, Received
    <2>5. known' = known \cup {Head(new_epochs)}
      BY <2>1, <2>4, AddKeepsKnown
    <2>6. Received' = Received
      BY <2>2, <2>5 DEF Received
    <2>7. Pending' /\ InTurn' /\ Dropped' /\ Remembered'
      BY <1>5, <2>1, <2>6, FaithKept
    <2>8. StaticKnown' /\ WithinFetched'
      BY <1>5, <2>1, <2>5 DEF Faith, StaticKnown, WithinFetched
    <2> QED BY <1>5, <2>3, <2>6, <2>7, <2>8 DEF Faith
  <1>6. ASSUME NEW i \in waiting,
               \/ ReadBlockNumber(i) \/ ReadStartHeights(i) \/ ContractFetched(i)
               \/ \E start \in todo : ReadValidators(i, start)
        PROVE  Faith'
    <2>1. reorged' = reorged
      <3>1. ReadBlockNumber(i) => reorged' = reorged
        BY DEF ReadBlockNumber
      <3>2. ReadStartHeights(i) => reorged' = reorged
        BY DEF ReadStartHeights
      <3>3. \A start \in todo : ReadValidators(i, start) => reorged' = reorged
        BY DEF ReadValidators
      <3>4. ContractFetched(i) => reorged' = reorged
        BY DEF ContractFetched
      <3> QED BY <1>6, <3>1, <3>2, <3>3, <3>4
    <2>2. ~reorged /\ Faith
      BY <2>1 DEF FaithInv
    <2> QED BY <1>6, <2>2, ReadBlockNumberKeepsFaith, ReadStartHeightsKeepsFaith,
               ContractFetchedKeepsFaith, ReadValidatorsKeepsFaith
  <1>7. CASE Mine
    <2>1. ~reorged /\ Faith
      BY <1>7 DEF Mine, FaithInv
    <2> QED BY <1>7, <2>1, MineKeepsFaith
  <1>8. ASSUME NEW h \in Height, FinishFetch(h) PROVE Faith'
    <2>1. Faith
      BY <1>8 DEF FinishFetch, FaithInv
    <2> QED BY <1>8, <2>1, FinishFetchKeepsFaith
  <1>9. ASSUME AddNewEpoch \/ (\E i \in waiting : AddStaticEpoch(i)) \/ StaticEpochsAdded
               \/ RefuseEmptyEpoch \/ EpochsUpdated \/ StartUpdate \/ UNCHANGED epochVars
        PROVE  ~reorged /\ Faith
    BY <1>9 DEF AddNewEpoch, AddStaticEpoch, StaticEpochsAdded, RefuseEmptyEpoch,
                EpochsUpdated, StartUpdate, epochVars, FaithInv
  <1> QED BY <1>1, <1>2, <1>3, <1>4, <1>5, <1>6, <1>7, <1>8, <1>9
          DEF EpochNext, UpdateStep

\* In a state in which an update is complete, what is not known does not
\* matter up to max_height.
LEMMA FaithAnswers ==
  ASSUME EpochInv, ChangesInv, OracleInv, Faith
  PROVE  KnownUntilMaxHeight
  <1> SUFFICES ASSUME pc = "updated", NEW h \in 0..max_height,
                      NEW e \in epochs \cup TrueEpochs
               PROVE  InForce(e, epochs, h) <=> Governs(e, TrueEpochs, h)
    BY DEF KnownUntilMaxHeight
  <1>1. Received = known /\ known \subseteq TrueEpochs /\ epochs \subseteq known
    BY DEF Faith, WithinFetched, Received, OracleInv
  <1>2. h \in Nat /\ h <= max_height /\ max_height \in Nat
    BY EpochTypes
  <1>3. \A t \in TrueEpochs : t.start_height \in Nat /\ t.index \in Nat
    BY TrueEpochTypes
  <1>4. ASSUME NEW t \in TrueEpochs, t \notin known, t.start_height <= h
        PROVE  \E k \in known : k.start_height <= h /\ t.index < k.index
    <2>1. \A i \in StaticRanges : t # StaticEpoch(i)
      BY <1>4 DEF Faith, StaticKnown
    <2>2. PICK i \in Contracts : \E c \in finalized[i] : t = ContractEpoch(i, c)
      BY <2>1, TrueEpochsAre
    <2>3. PICK c \in finalized[i] : t = ContractEpoch(i, c)
      BY <2>2
    <2>4. /\ ~HasEpoch(i, c) /\ t.index = i
          /\ c.start \in Nat /\ c.start <= t.start_height
      BY <1>1, <1>4, <2>3, EpochTypes, EpochStartsDiffer DEF HasEpoch, ContractEpoch
    <2>5. i \notin DOMAIN fetchers
      <3> SUFFICES ASSUME i \in DOMAIN fetchers PROVE FALSE
        OBVIOUS
      <3>1. c.start > fetchers[i].last_fetch_height
        BY <2>4 DEF Faith, Pending
      <3>2. max_height <= fetchers[i].last_fetch_height
        BY DEF Faith, WithinFetched
      <3>3. fetchers[i].last_fetch_height \in Nat
        BY <1>2, <3>2, EpochTypes DEF None
      <3> QED BY <1>2, <1>3, <1>4, <2>4, <3>1, <3>2, <3>3
    <2>6. PICK k \in Received : /\ i < k.index
                                /\ \A d \in finalized[i] :
                                     HasEpoch(i, d) \/ k.start_height < d.start
      BY <2>5 DEF Faith, Dropped
    <2>7. k \in known /\ k.start_height < c.start /\ k.start_height \in Nat
      BY <1>1, <1>3, <2>4, <2>6
    <2>8. k.start_height <= h
      BY <1>2, <1>3, <1>4, <2>4, <2>7
    <2> QED BY <2>4, <2>6, <2>7, <2>8
  <1>5. CASE e \in known
    <2>1. InForce(e, epochs, h) <=> Governs(e, known, h)
      BY <1>2, <1>5, ForceGoverns
    <2>2. Governs(e, TrueEpochs, h) => Governs(e, known, h)
      BY <1>1, <1>5 DEF Governs
    <2>3. ASSUME Governs(e, known, h), NEW t \in TrueEpochs, t.start_height <= h
          PROVE  \/ t.index < e.index
                 \/ t.index = e.index /\ t.start_height <= e.start_height
      <3>1. CASE t \in known
        BY <2>3, <3>1 DEF Governs
      <3>2. CASE t \notin known
        <4>1. PICK k \in known : k.start_height <= h /\ t.index < k.index
          BY <1>4, <2>3, <3>2
        <4>2. k.index <= e.index /\ k.index \in Nat /\ t.index \in Nat /\ e.index \in Nat
          BY <1>1, <1>3, <1>5, <2>3, <4>1 DEF Governs
        <4> QED BY <4>1, <4>2
      <3> QED BY <3>1, <3>2
    <2>4. Governs(e, known, h) => Governs(e, TrueEpochs, h)
      BY <1>1, <1>5, <2>3 DEF Governs
    <2> QED BY <2>1, <2>2, <2>4
  <1>6. CASE e \notin known
    <2>1. ~InForce(e, epochs, h)
      BY <1>1, <1>6 DEF InForce
    <2>2. ~Governs(e, TrueEpochs, h)
      <3> SUFFICES ASSUME Governs(e, TrueEpochs, h) PROVE FALSE
        OBVIOUS
      <3>1. e \in TrueEpochs /\ e.start_height <= h
        BY DEF Governs
      <3>2. PICK k \in known : k.start_height <= h /\ e.index < k.index
        BY <1>4, <1>6, <3>1
      <3>3. k.index <= e.index /\ k.index \in Nat /\ e.index \in Nat
        BY <1>1, <1>3, <3>1, <3>2 DEF Governs
      <3> QED BY <3>2, <3>3
    <2> QED BY <2>1, <2>2
  <1> QED BY <1>5, <1>6

\* As long as contracts change validators above their enter height only, a
\* process under which no change was undone answers right after every update.
THEOREM RestartHealsHolds ==
  ASSUME ~EarlyChanges
  PROVE  EpochSpec => []RestartHeals
  <1>1. EpochInit => FetchInv
    BY EmptySeq DEF EpochInit, FetchInv
  <1>2. EpochInit /\ EpochInv => FaithInv
    BY FreshFaith DEF EpochInit, OracleInit, FreshProcess, FaithInv
  <1>3. EpochInv /\ ChangesInv /\ [EpochNext]_epochVars => ChangesInv'
    BY StepChanges
  <1>4. EpochInv /\ ChangesInv /\ OracleInv /\ FaithInv => RestartHeals
    BY FaithAnswers DEF FaithInv, RestartHeals
  <1>5. EpochSpec => []OracleInv
    BY OracleImplemented, OracleInvHolds, PTL
  <1> QED BY <1>1, <1>2, <1>3, <1>4, <1>5, InitChanges, FetchStep, StepFaith,
             EpochInitTypes, EpochStepTypes, PTL
          DEF EpochSpec
=============================================================================
