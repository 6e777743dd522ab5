----------------------------- MODULE NodeStatus -----------------------------
(***************************************************************************)
(* The wait for a synchronised node.  The status of a Parity node is put   *)
(* together from several requests, during which the node goes on: one that *)
(* restores a snapshot says so in eth.syncing, one that then fills in the  *)
(* blocks below it only by the block gap of parity_chainStatus.            *)
(***************************************************************************)

CONSTANT NodeKind  \* "full" or "light" for a Parity node, or "other"

ASSUME NodeKindAssumption == NodeKind \in {"full", "light", "other"}

VARIABLES
  sync,          \* the node: "restoring", "filling" or "synced"
  status,        \* the request that is due: "syncing", "gap", or "accepted"
  syncing_map,   \* was there one?
  synced_since   \* history: synchronised at a time since status was begun?

statusVars == <<status, syncing_map, synced_since>>

SyncStates == {"restoring", "filling", "synced"}

\* A light node always lacks blocks and its gap is ignored; other nodes are
\* asked for no gap.
IsSynced(s) == s = "synced" \/ (s = "filling" /\ NodeKind # "full")

StatusInit ==
  /\ sync \in SyncStates
  /\ status = "syncing"
  /\ syncing_map = FALSE
  /\ synced_since = FALSE

\* The node makes progress, or falls behind.
NodeSyncs ==
  /\ \/ sync = "restoring" /\ sync' \in {"filling", "synced"}
     \/ sync = "filling" /\ sync' = "synced"
     \/ sync = "synced" /\ sync' = "restoring"
  /\ synced_since' = (synced_since \/ IsSynced(sync'))
  /\ UNCHANGED <<status, syncing_map>>

\* The predicate of wait_for_node_status: go on, or ask again after a while.
Accept(is_syncing) ==
  IF is_syncing THEN status' = "syncing" ELSE status' = "accepted"

\* The first request that looks at the node's state, and the only one for a
\* node that is not a Parity node.
ReadSyncing ==
  /\ status = "syncing"
  /\ syncing_map' = (sync = "restoring")
  /\ synced_since' = IsSynced(sync)
  /\ IF NodeKind = "other" THEN Accept(syncing_map') ELSE status' = "gap"
  /\ UNCHANGED sync

\* Mutant: the gap alone decides for a Parity node.
IsSyncingByGap(block_gap) == block_gap /\ NodeKind # "light"

\* is_syncing of get_node_status_parity
IsSyncing(block_gap) == (block_gap /\ NodeKind # "light") \/ syncing_map

\* parity_chainStatus, after eth.syncing
ReadBlockGap ==
  /\ status = "gap"
  /\ Accept(IsSyncing(sync = "filling"))
  /\ UNCHANGED <<sync, syncing_map, synced_since>>

-----------------------------------------------------------------------------
StatusTypeOK ==
  /\ sync \in SyncStates
  /\ status \in {"syncing", "gap", "accepted"}
  /\ syncing_map \in BOOLEAN
  /\ synced_since \in BOOLEAN

\* The monitor only goes on if the node was synchronised at one time while its
\* status was put together: what was read before and after a change of the
\* node never adds up to a state that the node was not in.
SyncedWhenAccepted == status = "accepted" => synced_since
=============================================================================
