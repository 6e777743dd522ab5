--------------------------- MODULE PrimaryOracle ---------------------------
(***************************************************************************)
(* The primary oracle: which validators were in charge at a block height.  *)
(* It keeps the epochs that are relevant, those not preceded by one of a   *)
(* later validator definition range, while epochs of several ranges arrive *)
(* in any order of their start heights.                                    *)
(***************************************************************************)
EXTENDS Integers, Sequences, FiniteSets

CONSTANTS
  Height,         \* the block heights, and 0
  DefinitionIndex,\* the positions of the validator definition ranges
  ValidatorList   \* the lists of validators of contracts and chain spec

ASSUME OracleAssumption ==
  Height \subseteq Nat /\ 0 \in Height /\ DefinitionIndex \subseteq Nat

\* The third field is Epoch.validator_definition_index.
Epoch == [start_height: Height, validators: ValidatorList, index: DefinitionIndex]

VARIABLES
  epochs,     \* PrimaryOracle._epochs, as the set of its values
  max_height, \* PrimaryOracle.max_height
  known       \* history: the epochs added, the last one for a range and height

oracleVars == <<epochs, max_height, known>>

OracleInit == epochs = {} /\ max_height = 0 /\ known = {}

-----------------------------------------------------------------------------
\* The epoch in force at height h among es: the last that has started.
InForce(e, es, h) ==
  /\ e \in es
  /\ e.start_height <= h
  /\ \A f \in es : f.start_height <= h => f.start_height <= e.start_height

\* Mutant: the epoch that starts at the same height does not count as previous.
IsRelevantStrict(e, es) ==
  \A p \in es : InForce(p, es, e.start_height - 1) => p.index <= e.index

\* _is_relevant
IsRelevant(e, es) ==
  \A p \in es : InForce(p, es, e.start_height) => p.index <= e.index

\* Mutant: no epoch is removed.
RenderedIrrelevantNever(e, es) == {}

\* _remove_epochs_rendered_irrelevant goes up from the inserted epoch and stops
\* at the first epoch that is not of an earlier range.
RenderedIrrelevant(e, es) ==
  LET Later == {f \in es : f.start_height > e.start_height} IN
  {f \in Later :
     \A g \in Later : g.start_height <= f.start_height => g.index < e.index}

\* add_epoch on the epochs es; one with the same start height is replaced.
WithEpoch(e, es) ==
  IF ~IsRelevant(e, es) THEN es
  ELSE LET others == {f \in es : f.start_height # e.start_height}
       IN  (others \ RenderedIrrelevant(e, others)) \cup {e}

AddEpoch(e) ==
  /\ e.validators # <<>>
  /\ epochs' = WithEpoch(e, epochs)
  /\ known' = {f \in known : \/ f.start_height # e.start_height
                             \/ f.index # e.index} \cup {e}
  /\ UNCHANGED max_height

SetMaxHeight(h) ==
  /\ max_height' = h
  /\ UNCHANGED <<epochs, known>>

\* A new process starts without epochs.
ResetOracle == epochs' = {} /\ max_height' = 0 /\ known' = {}

OracleNext ==
  \/ \E e \in Epoch : AddEpoch(e)
  \/ \E h \in Height : SetMaxHeight(h)
  \/ ResetOracle

OracleSpec == OracleInit /\ [][OracleNext]_oracleVars

-----------------------------------------------------------------------------
(* Properties.                                                             *)

OracleTypeOK ==
  /\ epochs \in SUBSET Epoch
  /\ known \in SUBSET Epoch
  /\ max_height \in Height

\* In whichever order the epochs were added, those kept are the ones that no
\* epoch of a later range starts before or with: the docstrings' notion of a
\* relevant epoch, which the code maintains by looking at neighbours only.
KeepsRelevant ==
  epochs = {e \in known :
              \A f \in known : f.start_height <= e.start_height => f.index <= e.index}

\* e has started at h and none that has is of a later range, or of the same
\* range and younger.
Governs(e, es, h) ==
  /\ e \in es
  /\ e.start_height <= h
  /\ \A f \in es :
       f.start_height <= h =>
         \/ f.index < e.index
         \/ f.index = e.index /\ f.start_height <= e.start_height

\* The epoch that is answered with is unique, and the one that governs the
\* height among all that were added, also those dropped on the way.
AnswersGovern ==
  \A e \in epochs \cup known :
    \A h \in {f.start_height : f \in known} :
      InForce(e, epochs, h) <=> Governs(e, known, h)
=============================================================================
