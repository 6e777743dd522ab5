---------------------------- MODULE EpochFetcher ----------------------------
(***************************************************************************)
(* How App._update_epochs keeps the primary oracle up to date: one contract*)
(* epoch fetcher per validator contract of the chain spec reads the        *)
(* contract's epochs over JSON-RPC, those that can no longer contribute    *)
(* are dropped, and the heights they were called at limit the heights that *)
(* the oracle answers for and the block fetcher fetches.                   *)
(*                                                                         *)
(* One action is the code up to the next JSON-RPC answer.  Nothing of this *)
(* is persistent: a new process starts over.                               *)
(***************************************************************************)
EXTENDS PrimaryOracle

CONSTANTS
  EnterHeight,     \* ValidatorDefinitionRange.enter_height, by index
  RangeValidators, \* its validators, or Contract if is_contract
  Contract,        \* stands for the address of a validator contract
  ReorgBound,      \* the node replaces at most this many blocks
  EarlyChanges,    \* may contracts change validators up to their enter height?
  MaxChanges       \* bound: changes finalised per contract

\* get_validator_definition_ranges sorts the ranges and starts with block 0.
ASSUME DefinitionAssumption ==
  /\ 0 \in DefinitionIndex
  /\ EnterHeight \in [DefinitionIndex -> Height]
  /\ EnterHeight[0] = 0
  /\ \A i, j \in DefinitionIndex : i < j => EnterHeight[i] < EnterHeight[j]
  /\ Contract \notin ValidatorList /\ <<>> \notin ValidatorList
  /\ RangeValidators \in [DefinitionIndex -> ValidatorList \cup {Contract}]

ASSUME EpochNodeAssumption ==
  ReorgBound \in Nat /\ EarlyChanges \in BOOLEAN /\ MaxChanges \in Nat

VARIABLES
  block_number,      \* external: eth.blockNumber
  finalized,         \* external: the changes finalised by each contract
  reorged,           \* history: a reorganisation took place under this process
  fetchers,          \* EpochFetcher._contract_epoch_fetchers, by index
  last_fetch_height, \* EpochFetcher._last_fetch_height
  pc,                \* where in the update the process is
  waiting,           \* the ranges whose turn is yet to come
  todo,              \* new_epoch_start_heights without validators yet
  new_epochs         \* epochs that have yet to be added to the oracle

nodeVars == <<block_number, finalized>>
fetchVars == <<fetchers, last_fetch_height, waiting, todo>>
epochVars == <<oracleVars, nodeVars, reorged, fetchVars, pc, new_epochs>>

None == -1

Contracts == {i \in DefinitionIndex : RangeValidators[i] = Contract}
StaticRanges == DefinitionIndex \ Contracts

\* get_static_epochs
StaticEpoch(i) ==
  [start_height |-> EnterHeight[i], validators |-> RangeValidators[i], index |-> i]

\* ContractEpochFetcher.__init__.  Of the earliest and the latest fetched epoch
\* only the start heights are kept.
FreshFetchers ==
  [i \in Contracts |->
     [last_fetch_height |-> None, earliest |-> None, latest |-> None]]

-----------------------------------------------------------------------------
(* The node and the contracts.                                             *)

StartHeights(i) == {c.start : c \in finalized[i]}

\* getValidators answers with an empty list for an epoch it does not know.
ContractValidators(i, start) ==
  IF start \in StartHeights(i)
  THEN (CHOOSE c \in finalized[i] : c.start = start).validators
  ELSE <<>>

\* A contract may be initialised at any height.
MayChange(i, n) ==
  /\ Cardinality(finalized[i]) < MaxChanges
  /\ finalized[i] = {} \/ EarlyChanges \/ n > EnterHeight[i]

\* A block, in which one contract may finalise a change.
Mine ==
  /\ block_number + 1 \in Height
  /\ block_number' = block_number + 1
  /\ \/ UNCHANGED finalized
     \/ \E i \in Contracts, w \in ValidatorList :
          /\ MayChange(i, block_number')
          /\ finalized' = [finalized EXCEPT
               ![i] = @ \cup {[start |-> block_number', validators |-> w]}]
  /\ UNCHANGED <<oracleVars, reorged, fetchVars, pc, new_epochs>>

\* The blocks above n are replaced by others, which change no validators.
Reorg(n) ==
  /\ n < block_number
  /\ block_number <= n + ReorgBound
  /\ finalized' = [i \in Contracts |-> {c \in finalized[i] : c.start <= n}]
  /\ finalized' # finalized
  /\ reorged' = TRUE
  /\ UNCHANGED <<oracleVars, block_number, fetchVars, pc, new_epochs>>

-----------------------------------------------------------------------------
(* Processes.                                                              *)

EpochInit ==
  /\ OracleInit
  /\ block_number = 0
  /\ finalized = [i \in Contracts |-> {}]
  /\ reorged = FALSE
  /\ fetchers = FreshFetchers
  /\ last_fetch_height = 0
  /\ pc = "static"
  /\ waiting = StaticRanges
  /\ todo = {}
  /\ new_epochs = <<>>

\* Killed, or down after an error, and started again.
NewProcess ==
  /\ ResetOracle
  /\ reorged' = FALSE
  /\ fetchers' = FreshFetchers
  /\ last_fetch_height' = 0
  /\ pc' = "static"
  /\ waiting' = StaticRanges
  /\ todo' = {}
  /\ new_epochs' = <<>>
  /\ UNCHANGED nodeVars

Least(i, S) == i \in S /\ \A j \in S : i <= j

\* _initialize_primary_oracle adds the epochs of the static ranges in order ...
AddStaticEpoch(i) ==
  /\ pc = "static"
  /\ Least(i, waiting)
  /\ AddEpoch(StaticEpoch(i))
  /\ waiting' = waiting \ {i}
  /\ UNCHANGED <<nodeVars, reorged, fetchers, last_fetch_height, pc, todo,
                 new_epochs>>

\* ... and goes on with a first update.
StaticEpochsAdded ==
  /\ pc = "static"
  /\ waiting = {}
  /\ waiting' = DOMAIN fetchers
  /\ pc' = "idle"
  /\ UNCHANGED <<oracleVars, nodeVars, reorged, fetchers, last_fetch_height,
                 todo, new_epochs>>

-----------------------------------------------------------------------------
(* EpochFetcher.fetch_new_epochs.                                          *)

\* Mutant: the height is read once.
FetchHeightCached(i) ==
  IF fetchers[i].last_fetch_height = None THEN block_number
  ELSE fetchers[i].last_fetch_height

FetchHeight(i) == block_number

\* A contract fetcher first reads the height it is called at ...
ReadBlockNumber(i) ==
  /\ pc = "idle"
  /\ Least(i, waiting)
  /\ fetchers' = [fetchers EXCEPT ![i].last_fetch_height = FetchHeight(i)]
  /\ pc' = "starts"
  /\ UNCHANGED <<oracleVars, nodeVars, reorged, last_fetch_height, waiting,
                 todo, new_epochs>>

\* The epochs fetched already are recognised by the latest start height.
IsNew(i, start) == fetchers[i].latest = None \/ start > fetchers[i].latest

\* ... then the start heights of its contract's epochs ...
ReadStartHeights(i) ==
  /\ pc = "starts"
  /\ Least(i, waiting)
  /\ todo' = {s \in StartHeights(i) : IsNew(i, s)}
  /\ pc' = "validators"
  /\ UNCHANGED <<oracleVars, nodeVars, reorged, fetchers, last_fetch_height,
                 waiting, new_epochs>>

\* Mutant: epochs start with the block after the change.
EpochStartNext(i, start) ==
  IF start + 1 > EnterHeight[i] THEN start + 1 ELSE EnterHeight[i]

\* An epoch starts no earlier than the range of its contract.
EpochStart(i, start) ==
  IF start > EnterHeight[i] THEN start ELSE EnterHeight[i]

\* Mutant: the validators are asked for under the height the epoch starts at.
AskedHeightClamped(i, start) == EpochStart(i, start)

AskedHeight(i, start) == start

\* ... and the validators of each new one, from the lowest up.  The latest
\* epoch is only looked at again in the next update.
ReadValidators(i, start) ==
  /\ pc = "validators"
  /\ Least(i, waiting)
  /\ Least(start, todo)
  /\ new_epochs' = Append(new_epochs,
       [start_height |-> EpochStart(i, start),
        validators |-> ContractValidators(i, AskedHeight(i, start)),
        index |-> i])
  /\ fetchers' = [fetchers EXCEPT
       ![i].earliest = IF @ = None THEN EpochStart(i, start) ELSE @,
       ![i].latest = EpochStart(i, start)]
  /\ todo' = todo \ {start}
  /\ UNCHANGED <<oracleVars, nodeVars, reorged, last_fetch_height, pc, waiting>>

ContractFetched(i) ==
  /\ pc = "validators"
  /\ Least(i, waiting)
  /\ todo = {}
  /\ waiting' = waiting \ {i}
  /\ pc' = "idle"
  /\ UNCHANGED <<oracleVars, nodeVars, reorged, fetchers, last_fetch_height,
                 todo, new_epochs>>

\* Mutant: a fetcher is stale as soon as a later one has found an epoch.
IsStaleAtOnce(i) ==
  \E j \in DOMAIN fetchers : i < j /\ fetchers[j].earliest # None

\* A fetcher is stale when it was called at or above the earliest epoch of the
\* next fetcher that has found one.
IsStale(i) ==
  \E j \in DOMAIN fetchers :
    /\ i < j
    /\ fetchers[j].earliest # None
    /\ \A k \in DOMAIN fetchers : i < k /\ k < j => fetchers[k].earliest = None
    /\ fetchers[i].last_fetch_height >= fetchers[j].earliest

\* _remove_stale_fetchers pops from the front, up to one that is not stale.
StaleFetchers ==
  {i \in DOMAIN fetchers : \A j \in DOMAIN fetchers : j <= i => IsStale(j)}

\* _set_last_fetch_height: h is the least height a fetcher was called at, or
\* what the node says if there is none.
IsLastFetchHeight(h, left) ==
  \/ DOMAIN left = {} /\ h = block_number
  \/ Least(h, {left[i].last_fetch_height : i \in DOMAIN left})

FinishFetch(h) ==
  /\ pc = "idle"
  /\ waiting = {}
  /\ fetchers' = [i \in DOMAIN fetchers \ StaleFetchers |-> fetchers[i]]
  /\ IsLastFetchHeight(h, fetchers')
  /\ last_fetch_height' = h
  /\ pc' = "add"
  /\ UNCHANGED <<oracleVars, nodeVars, reorged, waiting, todo, new_epochs>>

-----------------------------------------------------------------------------
(* Filling the oracle.                                                     *)

\* The loop of _update_epochs.
AddNewEpoch ==
  /\ pc = "add"
  /\ new_epochs # <<>>
  /\ AddEpoch(Head(new_epochs))
  /\ new_epochs' = Tail(new_epochs)
  /\ UNCHANGED <<nodeVars, reorged, fetchVars, pc>>

\* An epoch without validators ends the process with a ValueError.
RefuseEmptyEpoch ==
  /\ pc = "add"
  /\ new_epochs # <<>>
  /\ Head(new_epochs).validators = <<>>
  /\ pc' = "down"
  /\ UNCHANGED <<oracleVars, nodeVars, reorged, fetchVars, new_epochs>>

\* The end of _update_epochs; the process goes on to fetch blocks.
EpochsUpdated ==
  /\ pc = "add"
  /\ new_epochs = <<>>
  /\ SetMaxHeight(last_fetch_height)
  /\ pc' = "updated"
  /\ UNCHANGED <<nodeVars, reorged, fetchVars, new_epochs>>

\* The next cycle.
StartUpdate ==
  /\ pc = "updated"
  /\ waiting' = DOMAIN fetchers
  /\ pc' = "idle"
  /\ UNCHANGED <<oracleVars, nodeVars, reorged, fetchers, last_fetch_height,
                 todo, new_epochs>>

UpdateStep ==
  \/ \E i \in waiting : \/ AddStaticEpoch(i)
                        \/ ReadBlockNumber(i)
                        \/ ReadStartHeights(i)
                        \/ \E start \in todo : ReadValidators(i, start)
                        \/ ContractFetched(i)
  \/ StaticEpochsAdded
  \/ \E h \in Height : FinishFetch(h)
  \/ AddNewEpoch
  \/ RefuseEmptyEpoch
  \/ EpochsUpdated
  \/ StartUpdate

EpochNext ==
  \/ UpdateStep
  \/ NewProcess
  \/ Mine
  \/ \E n \in Height : Reorg(n)

EpochSpec == EpochInit /\ [][EpochNext]_epochVars

\* A running process goes on updating; nobody has to restart it.
EpochFairSpec == EpochSpec /\ WF_epochVars(UpdateStep)

-----------------------------------------------------------------------------
(* Properties.                                                             *)

Change == [start: Height, validators: ValidatorList]

FetcherState == [last_fetch_height: Height \cup {None},
                 earliest: Height \cup {None},
                 latest: Height \cup {None}]

FetchedEpoch == [start_height: Height, validators: ValidatorList \cup {<<>>},
                 index: DefinitionIndex]

EpochTypeOK ==
  /\ OracleTypeOK
  /\ block_number \in Height
  /\ finalized \in [Contracts -> SUBSET Change]
  /\ reorged \in BOOLEAN
  /\ DOMAIN fetchers \subseteq Contracts
  /\ fetchers \in [DOMAIN fetchers -> FetcherState]
  /\ last_fetch_height \in Height
  /\ pc \in {"static", "idle", "starts", "validators", "add", "updated", "down"}
  /\ waiting \in SUBSET DefinitionIndex
  /\ todo \in SUBSET Height
  /\ new_epochs \in Seq(FetchedEpoch)

\* The epochs as the chain spec and the contracts define them, whenever they
\* are looked at: of a contract's changes up to the height it is entered at,
\* only the last one counts.
TrueEpochs ==
  {StaticEpoch(i) : i \in StaticRanges} \cup
  UNION {{[start_height |-> IF c.start > EnterHeight[i] THEN c.start
                            ELSE EnterHeight[i],
           validators |-> c.validators,
           index |-> i] :
            c \in {d \in finalized[i] :
                     ~ \E f \in finalized[i] :
                         d.start < f.start /\ f.start <= EnterHeight[i]}} :
         i \in Contracts}

\* After an update the oracle answers up to max_height with the validators that
\* are really in charge there.  This is what skips are attributed by.
KnownUntilMaxHeight ==
  pc = "updated" =>
    \A h \in 0..max_height :
      \A e \in epochs \cup TrueEpochs :
        InForce(e, epochs, h) <=> Governs(e, TrueEpochs, h)

\* An orphaned change is only remembered by a process that has lived through
\* the reorganisation, and a restart gets rid of it.
RestartHeals == ~reorged => KnownUntilMaxHeight

\* Updating fails only when a reorganisation takes an epoch away between the
\* requests for its start height and for its validators.
FailsByReorgOnly == pc = "down" => reorged

\* A process that stays up gets to know the validators up to the node's tip.
OracleCatchesUp ==
  (<>[][FALSE]_block_number /\ <>[](pc \notin {"down", "static"}))
    => <>[](max_height = block_number)
=============================================================================
