-------------------------------- MODULE App --------------------------------
(***************************************************************************)
(* The life of the process: main and App from the wait for the node to the *)
(* exit, with signals, the watched chain spec file, the version of the     *)
(* persisted state and requests that are repeated until the node answers.  *)
(* What a cycle does is abstracted to its first block and its commit, see  *)
(* BlockFetcher and Monitor for the rest.                                  *)
(***************************************************************************)
EXTENDS InitialBlock, NodeStatus

CONSTANTS
  Spec,              \* what a chain spec file may say
  watch_chain_spec,  \* --watch-chain-spec
  MaxStale           \* bound of the history variable stale_cycles

ASSUME AppAssumption ==
  /\ {"garbage", "missing"} \cap Spec = {}
  /\ watch_chain_spec \in BOOLEAN
  /\ MaxStale \in Nat

VARIABLES
  phase,                \* where the process is
  exit,                 \* how it ended, while it is down
  running,              \* App._running
  upgrade_db,           \* --upgrade-db of this process
  chain_spec,           \* the file: a Spec, "garbage" if not JSON, "missing"
  original_chain_spec,  \* App.original_chain_spec
  stored,               \* the committed state: "none", a version, or "corrupt"
  node_up,              \* does the node answer?
  stale_cycles          \* history: cycles committed since the file differs

outside == <<chainVars, sync, node_up, selector, chain_spec>>
specVars == <<original_chain_spec, stale_cycles>>
processVars == <<statusVars, resolverVars, phase, exit, running, upgrade_db>>
appVars == <<outside, processVars, specVars, stored>>

\* The phases in which run is active, and those after the handlers are set.
InRun == {"loop", "epochs", "resolve", "sync", "check"}
Handled == InRun \cup {"handled"}
Phases == Handled \cup {"down", "wait", "spec", "state", "built"}
Exits == {"none", "killed", "stopped", "JSONDecodeError", "FileNotFoundError",
          "InvalidData", "InvalidAppState", "NoInitialBlock"}

States == {"none", "V1", "V2", "corrupt"}
Files == Spec \cup {"garbage", "missing"}
FileChanged == chain_spec # original_chain_spec

AppInit ==
  /\ ChainInit /\ ResolverInit /\ StatusInit
  /\ phase = "down" /\ exit = "none"
  /\ running = FALSE /\ upgrade_db = FALSE
  /\ chain_spec \in Spec /\ original_chain_spec = chain_spec
  /\ stored \in States
  /\ node_up \in BOOLEAN
  /\ stale_cycles = 0

-----------------------------------------------------------------------------
(* Construction.                                                           *)

Goto(p) == phase' = p /\ UNCHANGED <<exit, upgrade_db, outside>>

\* ... with nothing else changed
Proceed(p) ==
  /\ Goto(p)
  /\ UNCHANGED <<statusVars, resolverVars, running, stored, specVars>>

\* The process ends; the open session is rolled back.
Exit(e) ==
  /\ phase' = "down"
  /\ exit' = e
  /\ running' = FALSE
  /\ status' = "syncing" /\ syncing_map' = FALSE /\ synced_since' = FALSE
  /\ ForgetResolved
  /\ UNCHANGED <<outside, upgrade_db, specVars, stored>>

\* A request gets its answer.  Until the node gives one, the middleware
\* repeats the request and the process does nothing else.
Answered == node_up

\* main, with or without --upgrade-db
Start ==
  /\ phase = "down"
  /\ phase' = "wait"
  /\ exit' = "none"
  /\ upgrade_db' \in BOOLEAN
  /\ UNCHANGED <<outside, statusVars, resolverVars, running, specVars, stored>>

\* wait_for_node_fully_synced
WaitForNode ==
  /\ phase = "wait"
  /\ Answered
  /\ ReadSyncing \/ ReadBlockGap
  /\ Goto(IF status' = "accepted" THEN "spec" ELSE "wait")
  /\ UNCHANGED <<resolverVars, running, specVars, stored>>

\* _initialize_primary_oracle reads the file and keeps what it says.
ReadChainSpec ==
  /\ phase = "spec"
  /\ CASE chain_spec = "missing" -> Exit("FileNotFoundError")
       [] chain_spec = "garbage" -> Exit("JSONDecodeError")
       [] OTHER ->
            /\ original_chain_spec' = chain_spec
            /\ stale_cycles' = 0
            /\ Goto("state")
            /\ UNCHANGED <<statusVars, resolverVars, running, stored>>

\* Mutant: any state that can be read is taken for a current one.
UsableAny(state) == TRUE

\* _upgrade_app_state and the check of _initialize_reporters
Usable(state) == (state = "V1") => upgrade_db

\* _load_app_state, after the epochs: a conversion stays in memory at first.
LoadAppState ==
  /\ phase = "state"
  /\ Answered
  /\ IF stored = "corrupt" THEN Exit("InvalidData")
     ELSE IF ~Usable(stored) THEN Exit("InvalidAppState")
     ELSE Proceed("built")

\* signal.signal for SIGTERM and SIGINT
InstallHandlers == phase = "built" /\ Proceed("handled")

\* run sets _running, also if the handler has just reset it.
EnterRun ==
  /\ phase = "handled"
  /\ running' = TRUE
  /\ Goto("loop")
  /\ UNCHANGED <<statusVars, resolverVars, specVars, stored>>

-----------------------------------------------------------------------------
(* Cycles.                                                                 *)

Loop ==
  /\ phase = "loop"
  /\ IF running THEN Proceed("epochs") ELSE Exit("stopped")

\* _update_epochs; then an empty database needs a first block.
BeginCycle ==
  /\ phase = "epochs"
  /\ Answered
  /\ Proceed(IF stored = "none" THEN "resolve" ELSE "sync")

ResolveInitial ==
  /\ phase = "resolve"
  /\ Answered
  /\ search \notin {"done", "failed"}
  /\ ResolveStep
  /\ Goto("resolve")
  /\ UNCHANGED <<statusVars, running, specVars, stored>>

HasInitial ==
  /\ phase = "resolve"
  /\ search \in {"done", "failed"}
  /\ IF resolved = None THEN Exit("NoInitialBlock")
     ELSE /\ Goto("sync")
          /\ ForgetResolved
          /\ UNCHANGED <<statusVars, running, specVars, stored>>

\* The rest of the cycle up to session.commit.
CommitState ==
  /\ phase = "sync"
  /\ Answered
  /\ stored' = "V2"
  /\ stale_cycles' = IF FileChanged /\ stale_cycles < MaxStale
                     THEN stale_cycles + 1 ELSE stale_cycles
  /\ Goto("check")
  /\ UNCHANGED <<statusVars, resolverVars, running, original_chain_spec>>

\* Mutant: a file that cannot be parsed is taken for unchanged.
ChangeSeenParsed == FileChanged /\ chain_spec \in Spec

ChangeSeen == FileChanged

\* Mutant: the check decides anew whether to go on.
KeepsRunningAgain == ~(watch_chain_spec /\ ChangeSeen)

KeepsRunning == running /\ ~(watch_chain_spec /\ ChangeSeen)

\* _check_chain_spec, at the end of the cycle
CheckChainSpec ==
  /\ phase = "check"
  /\ IF watch_chain_spec /\ chain_spec = "missing" THEN Exit("FileNotFoundError")
     ELSE /\ running' = KeepsRunning
          /\ Goto("loop")
          /\ UNCHANGED <<statusVars, resolverVars, specVars, stored>>

-----------------------------------------------------------------------------
(* The environment.                                                        *)

\* SIGTERM or SIGINT: the handler resets _running and nothing else; without a
\* handler the process ends.
Signal ==
  /\ phase # "down"
  /\ IF phase \notin Handled THEN Exit("killed")
     ELSE /\ running' = FALSE
          /\ Goto(phase)
          /\ UNCHANGED <<statusVars, resolverVars, specVars, stored>>

\* The process is killed, or an exception ends a cycle.
Die == phase # "down" /\ Exit("killed")

\* The file is rewritten, not always in one go.
EditFile ==
  /\ chain_spec' \in Files \ {chain_spec}
  /\ stale_cycles' = 0
  /\ UNCHANGED <<chainVars, sync, node_up, selector, processVars,
                 original_chain_spec, stored>>

NodeMoves ==
  /\ \/ ChainNext /\ UNCHANGED <<sync, node_up, synced_since>>
     \/ NodeSyncs /\ UNCHANGED <<chainVars, node_up>>
     \/ node_up' = ~node_up /\ UNCHANGED <<chainVars, sync, synced_since>>
  /\ UNCHANGED <<status, syncing_map, resolverVars, phase, exit, running,
                 upgrade_db, selector, chain_spec, specVars, stored>>

AppStep ==
  \/ WaitForNode \/ ReadChainSpec \/ LoadAppState
  \/ InstallHandlers \/ EnterRun
  \/ Loop \/ BeginCycle \/ ResolveInitial \/ HasInitial
  \/ CommitState \/ CheckChainSpec

AppNext == AppStep \/ Start \/ Signal \/ Die \/ EditFile \/ NodeMoves

AppSpec == AppInit /\ [][AppNext]_appVars

\* The process goes on whenever it can: a request that got no answer is
\* repeated until it gets one.
AppFairSpec == AppSpec /\ WF_appVars(AppStep)

-----------------------------------------------------------------------------
(* Properties.                                                             *)

AppTypeOK ==
  /\ ChainTypeOK /\ ResolverTypeOK /\ StatusTypeOK
  /\ phase \in Phases /\ exit \in Exits
  /\ running \in BOOLEAN /\ upgrade_db \in BOOLEAN /\ node_up \in BOOLEAN
  /\ chain_spec \in Files /\ original_chain_spec \in Spec
  /\ stored \in States
  /\ stale_cycles \in Nat

\* Whatever is on disk is replaced by the state of the current version only
\* if it is of that version already, or an upgrade was asked for; in
\* particular a process that dies after the conversion and before its first
\* commit leaves the old state as it was.
StateKept ==
  [][stored' # stored => stored = "none" \/ (stored = "V1" /\ upgrade_db)]_appVars

\* With --watch-chain-spec, once the file differs from what the process was
\* started with, and is not edited again, the process commits at most the
\* cycle that is under way.
ChangeNoticed == watch_chain_spec /\ phase # "down" => stale_cycles <= 1

\* A stop takes effect once the node answers for good: whatever the process
\* is waiting for, the cycle is completed and the process ends, although
\* signals, edits of the file and requests that have to be repeated come in
\* between.  (It does not if the signal comes just before run sets _running.)
StopTakesEffect ==
  <>[]node_up => (phase \in InRun /\ ~running ~> phase = "down")
=============================================================================
