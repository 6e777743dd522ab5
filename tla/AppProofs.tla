----------------------------- MODULE AppProofs -----------------------------
(***************************************************************************)
(* Proofs about the life of the process: the wait for the node, the search *)
(* for the first block, the watched file and the persisted state.          *)
(***************************************************************************)
EXTENDS App, TLAPS

-----------------------------------------------------------------------------
(* What a step does to each part.                                          *)

StatusForgotten ==
  status' = "syncing" /\ syncing_map' = FALSE /\ synced_since' = FALSE

\* What a step of the process or of its environment does to the node's
\* synchronisation and to what the monitor knows of it.
LEMMA StatusMoves ==
  ASSUME [AppNext]_appVars
  PROVE  \/ ReadSyncing \/ ReadBlockGap \/ NodeSyncs
         \/ StatusForgotten /\ UNCHANGED sync
         \/ UNCHANGED <<sync, statusVars>>
<1> USE DEF statusVars, outside, Goto, Proceed, Exit, StatusForgotten
<1>1. CASE WaitForNode
  BY <1>1 DEF WaitForNode
<1>2. CASE ReadChainSpec
  BY <1>2 DEF ReadChainSpec
<1>3. CASE LoadAppState
  BY <1>3 DEF LoadAppState
<1>4. CASE InstallHandlers \/ EnterRun
  BY <1>4 DEF InstallHandlers, EnterRun
<1>5. CASE Loop \/ BeginCycle
  BY <1>5 DEF Loop, BeginCycle
<1>6. CASE ResolveInitial \/ HasInitial
  BY <1>6 DEF ResolveInitial, HasInitial
<1>7. CASE CommitState \/ CheckChainSpec
  BY <1>7 DEF CommitState, CheckChainSpec
<1>8. CASE Start \/ Signal \/ Die
  BY <1>8 DEF Start, Signal, Die
<1>9. CASE EditFile
  BY <1>9 DEF EditFile, processVars
<1>10. CASE NodeMoves
  BY <1>10 DEF NodeMoves, NodeSyncs
<1>11. CASE UNCHANGED appVars
  BY <1>11 DEF appVars, processVars
<1> QED
  BY <1>1, <1>2, <1>3, <1>4, <1>5, <1>6, <1>7, <1>8, <1>9, <1>10, <1>11
  DEF AppNext, AppStep

\* What a step does to the search for the first block.
LEMMA ResolverMoves ==
  ASSUME [AppNext]_appVars
  PROVE  /\ UNCHANGED selector
         /\ ResolveStep \/ ForgetResolved \/ UNCHANGED resolverVars
<1> USE DEF resolverVars, outside, Goto, Proceed, Exit
<1>1. CASE WaitForNode
  BY <1>1 DEF WaitForNode
<1>2. CASE ReadChainSpec
  BY <1>2 DEF ReadChainSpec
<1>3. CASE LoadAppState
  BY <1>3 DEF LoadAppState
<1>4. CASE InstallHandlers \/ EnterRun
  BY <1>4 DEF InstallHandlers, EnterRun
<1>5. CASE Loop \/ BeginCycle
  BY <1>5 DEF Loop, BeginCycle
<1>6. CASE ResolveInitial \/ HasInitial
  BY <1>6 DEF ResolveInitial, HasInitial
<1>7. CASE CommitState \/ CheckChainSpec
  BY <1>7 DEF CommitState, CheckChainSpec
<1>8. CASE Start \/ Signal \/ Die
  BY <1>8 DEF Start, Signal, Die
<1>9. CASE EditFile
  BY <1>9 DEF EditFile, processVars
<1>10. CASE NodeMoves
  BY <1>10 DEF NodeMoves
<1>11. CASE UNCHANGED appVars
  BY <1>11 DEF appVars, processVars
<1> QED
  BY <1>1, <1>2, <1>3, <1>4, <1>5, <1>6, <1>7, <1>8, <1>9, <1>10, <1>11
  DEF AppNext, AppStep

-----------------------------------------------------------------------------
(* The wait for the node.                                                  *)

\* Between the two requests: a node that did not say that it is syncing has
\* been synchronised, or still fills in blocks, which the gap will show.
StatusInv ==
  /\ StatusTypeOK
  /\ SyncedWhenAccepted
  /\ status = "gap" /\ ~syncing_map =>
       synced_since \/ (sync = "filling" /\ NodeKind = "full")

\* What the two answers leave open is only whether the node has caught up since.
LEMMA StatusInvInductive ==
  ASSUME StatusInv, [AppNext]_appVars
  PROVE  StatusInv'
<1> USE NodeKindAssumption
    DEF StatusInv, StatusTypeOK, SyncedWhenAccepted, SyncStates, IsSynced
<1>1. CASE ReadSyncing
  <2>1. CASE NodeKind = "other"
    BY <1>1, <2>1 DEF ReadSyncing, Accept
  <2>2. CASE NodeKind # "other"
    BY <1>1, <2>2 DEF ReadSyncing
  <2> QED
    BY <2>1, <2>2
<1>2. CASE ReadBlockGap
  BY <1>2 DEF ReadBlockGap, Accept, IsSyncing
<1>3. CASE NodeSyncs
  BY <1>3 DEF NodeSyncs
<1>4. CASE StatusForgotten /\ UNCHANGED sync
  BY <1>4 DEF StatusForgotten
<1>5. CASE UNCHANGED <<sync, statusVars>>
  BY <1>5 DEF statusVars
<1> QED
  BY <1>1, <1>2, <1>3, <1>4, <1>5, StatusMoves

\* For every kind of node, the monitor only goes on when the node was
\* synchronised at a time while its status was read (node_status.py:83).
THEOREM SyncedWhenAcceptedHolds == AppSpec => []SyncedWhenAccepted
<1>1. AppInit => StatusInv
  BY DEF AppInit, StatusInit, StatusInv, StatusTypeOK, SyncedWhenAccepted
<1>2. StatusInv /\ [AppNext]_appVars => StatusInv'
  BY StatusInvInductive
<1>3. StatusInv => SyncedWhenAccepted
  BY DEF StatusInv
<1> QED
  BY <1>1, <1>2, <1>3, PTL DEF AppSpec

-----------------------------------------------------------------------------
(* The search by date.                                                     *)

\* A step of the node leads to some tip, and no other step moves it.
LEMMA TipMoves ==
  ASSUME tip \in Block, [AppNext]_appVars
  PROVE  tip' \in Block
<1> USE DEF outside, chainVars, Goto, Proceed, Exit
<1>1. CASE WaitForNode \/ ReadChainSpec
  BY <1>1 DEF WaitForNode, ReadChainSpec
<1>2. CASE LoadAppState \/ InstallHandlers \/ EnterRun
  BY <1>2 DEF LoadAppState, InstallHandlers, EnterRun
<1>3. CASE Loop \/ BeginCycle \/ ResolveInitial \/ HasInitial
  BY <1>3 DEF Loop, BeginCycle, ResolveInitial, HasInitial
<1>4. CASE CommitState \/ CheckChainSpec
  BY <1>4 DEF CommitState, CheckChainSpec
<1>5. CASE Start \/ Signal \/ Die \/ EditFile
  BY <1>5 DEF Start, Signal, Die, EditFile
<1>6. CASE NodeMoves
  BY <1>6 DEF NodeMoves, ChainNext, Import, Reset
<1>7. CASE UNCHANGED appVars
  BY <1>7 DEF appVars
<1> QED
  BY <1>1, <1>2, <1>3, <1>4, <1>5, <1>6, <1>7 DEF AppNext, AppStep

\* A block that getBlock(n) answers with has the number n.
LEMMA BlockAtNumber ==
  ASSUME tip \in Block, NEW n \in Nat, BlockAt(n) # None
  PROVE  BlockAt(n) \in Block /\ number[BlockAt(n)] = n
<1>1. n \in 0..number[tip]
  BY DEF BlockAt
<1> QED
  BY <1>1, ChainAssumption DEF BlockAt

\* The loop invariant of the binary search: the date lies between the lower
\* and the upper block, except that the search does not look at genesis and at
\* the latest block, and the two get closer without ever meeting.
Bracket ==
  /\ {lower_block, upper_block, latest} \subseteq Block
  /\ number[lower_block] = 0 \/ ~IsAfterDate(lower_block)
  /\ upper_block = latest \/ IsAfterDate(upper_block)
  /\ number[upper_block] <= number[latest]
  /\ number[lower_block] < number[upper_block] \/ number[lower_block] = 0

SearchInv ==
  /\ tip \in Block
  /\ selector \in Selectors
  /\ search = "upper" =>
       /\ selector.by = "date"
       /\ lower_block \in Block /\ number[lower_block] = 0
  /\ search = "number" => selector.by = "number"
  /\ search = "bisect" => selector.by = "date" /\ Bracket
  /\ search = "done" /\ selector.by = "date" =>
       Bracket /\ Gap <= 1 /\ resolved = lower_block

\* The search keeps a bracket around the date, whatever chain its blocks are of.
LEMMA SearchInvInductive ==
  ASSUME SearchInv, [AppNext]_appVars
  PROVE  SearchInv'
<1>1. tip' \in Block /\ UNCHANGED selector
  BY TipMoves, ResolverMoves DEF SearchInv
<1>2. number \in [Block -> Nat]
  BY ChainAssumption
<1> USE <1>1, <1>2 DEF SearchInv
<1>3. CASE ResolveAtOnce
  BY <1>3 DEF ResolveAtOnce, Return
<1>4. CASE ReadHeight
  BY <1>4 DEF ReadHeight
<1>5. CASE ResolveWanted
  BY <1>5 DEF ResolveWanted, Return
<1>6. CASE ReadLower
  <2>1. BlockAt(0) # None
    BY ChainAssumption DEF BlockAt
  <2> QED
    BY <1>6, <2>1, BlockAtNumber DEF ReadLower
<1>7. CASE ReadUpper
  BY <1>7 DEF ReadUpper, Bracket
<1>8. CASE Bisect
  <2> DEFINE m == (number[lower_block] + number[upper_block]) \div 2
             middle == BlockAt(m)
  <2>1. search = "bisect" /\ Gap > 1 /\ Bracket
    BY <1>8 DEF Bisect
  <2>2. /\ m \in Nat
        /\ number[lower_block] < m /\ m < number[upper_block]
    BY <2>1 DEF Bracket, Gap
  <2>3. CASE middle = None
    BY <1>8, <2>3 DEF Bisect
  <2>4. CASE middle # None
    <3>1. middle \in Block /\ number[middle] = m
      BY <2>2, <2>4, BlockAtNumber
    <3>2. CASE IsAfterDate(middle)
      <4>1. upper_block' = middle /\ UNCHANGED <<lower_block, latest, search>>
        BY <1>8, <2>4, <3>2 DEF Bisect
      <4> QED
        BY <2>1, <2>2, <3>1, <3>2, <4>1 DEF Bracket, IsAfterDate
    <3>3. CASE ~IsAfterDate(middle)
      <4>1. lower_block' = middle /\ UNCHANGED <<upper_block, latest, search>>
        BY <1>8, <2>4, <3>3 DEF Bisect
      <4> QED
        BY <2>1, <2>2, <3>1, <3>3, <4>1 DEF Bracket, IsAfterDate
    <3> QED
      BY <3>2, <3>3
  <2> QED
    BY <2>3, <2>4
<1>9. CASE EndSearch
  BY <1>9 DEF EndSearch, Return, Bracket, Gap, IsAfterDate
<1>10. CASE ForgetResolved
  BY <1>10 DEF ForgetResolved
<1>11. CASE UNCHANGED resolverVars
  BY <1>11 DEF resolverVars, Bracket, Gap, IsAfterDate
<1> QED
  BY <1>3, <1>4, <1>5, <1>6, <1>7, <1>8, <1>9, <1>10, <1>11, ResolverMoves
  DEF ResolveStep

\* What the loop invariant means in the end: a block above the resolved one is
\* not below the upper one, and on one chain it is after the date as that is.
LEMMA SearchFinds ==
  ASSUME SearchInv
  PROVE  DateFound
<1> SUFFICES ASSUME search = "done", selector.by = "date",
                    {resolved, upper_block} \subseteq Chain(latest)
             PROVE  IsBlockByDate(resolved, selector.timestamp, latest)
  BY DEF DateFound
<1>1. Bracket /\ Gap <= 1 /\ resolved = lower_block
  BY DEF SearchInv
<1>2. selector.timestamp \in Nat
  BY SelectorAssumption DEF SearchInv
<1>3. /\ number \in [Block -> Nat] /\ timestamp \in [Block -> Nat]
      /\ number[latest] \in Nat
  BY <1>1, ChainAssumption, SelectorAssumption DEF Bracket
<1>4. \/ number[resolved] = 0
      \/ timestamp[resolved] <= selector.timestamp
         /\ number[resolved] < number[latest]
  BY <1>1, <1>2, <1>3 DEF Bracket, IsAfterDate
<1>5. ASSUME NEW c \in Chain(latest), number[c] < number[latest],
             timestamp[c] <= selector.timestamp
      PROVE  number[c] <= number[resolved]
  <2>1. PICK n \in 0..number[latest] : c = chainTo[latest][n]
    BY DEF Chain
  <2>2. PICK k \in 0..number[latest] : upper_block = chainTo[latest][k]
    BY DEF Chain
  <2>3. number[c] = n /\ number[upper_block] = k /\ c \in Block
    <3>1. latest \in Block
      BY <1>1 DEF Bracket
    <3>2. chainTo[latest] \in [0..number[latest] -> Block]
      BY <3>1, ChainAssumption
    <3>3. \A i \in 0..number[latest] : number[chainTo[latest][i]] = i
      BY <3>1, ChainAssumption
    <3> QED
      BY <2>1, <2>2, <3>2, <3>3
  <2>4. SUFFICES ASSUME number[c] > number[resolved]
                 PROVE  FALSE
    BY <1>1, <1>3, <2>3 DEF Bracket
  <2>5. k <= n
    BY <1>1, <1>3, <2>3, <2>4 DEF Bracket, Gap
  <2>6. upper_block # latest
    BY <1>5, <2>3, <2>5, <1>3
  <2>7. selector.timestamp < timestamp[upper_block]
    BY <1>1, <2>6 DEF Bracket, IsAfterDate
  <2>8. CASE k = n
    BY <1>2, <1>3, <1>5, <2>1, <2>2, <2>3, <2>7, <2>8
  <2>9. CASE k < n
    <3>1. timestamp[upper_block] < timestamp[c]
      BY <1>1, <2>1, <2>2, <2>9, SelectorAssumption DEF Bracket
    <3> QED
      BY <1>1, <1>2, <1>3, <1>5, <2>3, <2>7, <3>1 DEF Bracket
  <2> QED
    BY <2>5, <2>8, <2>9
<1> QED
  BY <1>4, <1>5 DEF IsBlockByDate

\* The search by date (blocksel.py:81) finds what a search through the whole
\* chain finds, if what it narrowed down to belongs to that chain.
THEOREM DateFoundHolds == AppSpec => []DateFound
<1>1. AppInit => SearchInv
  BY ChainAssumption DEF AppInit, ChainInit, ResolverInit, SearchInv
<1>2. SearchInv /\ [AppNext]_appVars => SearchInv'
  BY SearchInvInductive
<1>3. SearchInv => DateFound
  BY SearchFinds
<1> QED
  BY <1>1, <1>2, <1>3, PTL DEF AppSpec

-----------------------------------------------------------------------------
(* The watched file and the persisted state.                               *)

\* Cycles of a process whose file has changed: at most one, which is followed
\* by the check, and that ends the loop.
WatchInv ==
  /\ stale_cycles \in Nat
  /\ watch_chain_spec /\ stale_cycles # 0 =>
       /\ stale_cycles = 1
       /\ FileChanged
       /\ \/ phase \in {"down", "wait", "spec", "check"}
          \/ phase = "loop" /\ ~running

\* Each committed cycle is followed by a look at the file.
LEMMA WatchInvInductive ==
  ASSUME WatchInv, [AppNext]_appVars
  PROVE  WatchInv'
<1> USE DEF WatchInv, FileChanged, outside, specVars, Goto, Proceed, Exit
<1>1. CASE WaitForNode
  BY <1>1 DEF WaitForNode
<1>2. CASE ReadChainSpec
  BY <1>2 DEF ReadChainSpec
<1>3. CASE LoadAppState
  BY <1>3 DEF LoadAppState
<1>4. CASE InstallHandlers \/ EnterRun
  BY <1>4 DEF InstallHandlers, EnterRun
<1>5. CASE Loop \/ BeginCycle
  BY <1>5 DEF Loop, BeginCycle
<1>6. CASE ResolveInitial \/ HasInitial
  BY <1>6 DEF ResolveInitial, HasInitial
<1>7. CASE CommitState
  BY <1>7, AppAssumption DEF CommitState
<1>8. CASE CheckChainSpec
  BY <1>8, AppAssumption DEF CheckChainSpec, KeepsRunning, ChangeSeen
<1>9. CASE Start \/ Die
  BY <1>9 DEF Start, Die
<1>10. CASE Signal
  BY <1>10 DEF Signal, Handled, InRun
<1>11. CASE EditFile
  BY <1>11 DEF EditFile
<1>12. CASE NodeMoves
  BY <1>12 DEF NodeMoves
<1>13. CASE UNCHANGED appVars
  BY <1>13 DEF appVars, processVars
<1> QED
  BY <1>1, <1>2, <1>3, <1>4, <1>5, <1>6, <1>7, <1>8, <1>9, <1>10, <1>11,
     <1>12, <1>13 DEF AppNext, AppStep

\* A change of the watched file is noticed after at most one more cycle, also
\* if the file cannot be parsed at that time (main.py:211).
THEOREM ChangeNoticedHolds == AppSpec => []ChangeNoticed
<1>1. AppInit => WatchInv
  BY DEF AppInit, WatchInv
<1>2. WatchInv /\ [AppNext]_appVars => WatchInv'
  BY WatchInvInductive
<1>3. WatchInv => ChangeNoticed
  BY DEF WatchInv, ChangeNoticed
<1> QED
  BY <1>1, <1>2, <1>3, PTL DEF AppSpec

\* A process gets past the construction of the reporters only with a state that
\* it may replace.
StateInv ==
  /\ stored \in States
  /\ phase \in {"built"} \cup Handled =>
       stored \in {"none", "V2"} \/ (stored = "V1" /\ upgrade_db)

\* Only a process that was allowed to use the state gets as far as a commit.
LEMMA StateInvInductive ==
  ASSUME StateInv, [AppNext]_appVars
  PROVE  /\ StateInv'
         /\ stored' # stored => stored = "none" \/ (stored = "V1" /\ upgrade_db)
<1> USE DEF StateInv, States, Handled, InRun, Goto, Proceed, Exit
<1>1. CASE WaitForNode
  BY <1>1 DEF WaitForNode
<1>2. CASE ReadChainSpec
  BY <1>2 DEF ReadChainSpec
<1>3. CASE LoadAppState
  BY <1>3 DEF LoadAppState, Usable
<1>4. CASE InstallHandlers \/ EnterRun
  BY <1>4 DEF InstallHandlers, EnterRun
<1>5. CASE Loop \/ BeginCycle
  BY <1>5 DEF Loop, BeginCycle
<1>6. CASE ResolveInitial \/ HasInitial
  BY <1>6 DEF ResolveInitial, HasInitial
<1>7. CASE CommitState
  BY <1>7 DEF CommitState
<1>8. CASE CheckChainSpec
  BY <1>8 DEF CheckChainSpec
<1>9. CASE Start \/ Die
  BY <1>9 DEF Start, Die
<1>10. CASE Signal
  BY <1>10 DEF Signal
<1>11. CASE EditFile
  BY <1>11 DEF EditFile, processVars
<1>12. CASE NodeMoves
  BY <1>12 DEF NodeMoves
<1>13. CASE UNCHANGED appVars
  BY <1>13 DEF appVars, processVars
<1> QED
  BY <1>1, <1>2, <1>3, <1>4, <1>5, <1>6, <1>7, <1>8, <1>9, <1>10, <1>11,
     <1>12, <1>13 DEF AppNext, AppStep

\* The committed state is never replaced by one of another version unless an
\* upgrade was asked for, wherever the process dies (main.py:164-168, 293-295).
THEOREM StateKeptHolds == AppSpec => StateKept
<1>1. AppInit => StateInv
  BY DEF AppInit, StateInv, Handled, InRun
<1>2. StateInv /\ [AppNext]_appVars => StateInv'
  BY StateInvInductive
<1>3. StateInv /\ [AppNext]_appVars
        => [stored' # stored
              => stored = "none" \/ (stored = "V1" /\ upgrade_db)]_appVars
  BY StateInvInductive
<1> QED
  BY <1>1, <1>2, <1>3, PTL DEF AppSpec, StateKept
=============================================================================
