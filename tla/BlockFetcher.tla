---------------------------- MODULE BlockFetcher ----------------------------
(***************************************************************************)
(* The block fetcher with its block database, driven by App._run_cycle: it *)
(* copies the node's chain, orphaned forks included, into the database and *)
(* passes every block once to the report callbacks.                        *)
(*                                                                         *)
(* One action is the code between two JSON-RPC answers (or two callbacks), *)
(* so the node may move its tip between any two of them.  The database is  *)
(* written in one transaction per cycle: saved is what the last commit     *)
(* left on disk, the other variables are the process' memory and its open  *)
(* session.                                                                *)
(***************************************************************************)
EXTENDS Chain, Sequences, SequencesExt, Functions

CONSTANTS
  MaxReorgDepth,  \* main.MAX_REORG_DEPTH
  MaxBlocks,      \* max_number_of_blocks of one fetch_and_insert_new_blocks
  SyncFrom        \* the block numbers the initial block resolver may select

ASSUME FetcherAssumption ==
  /\ MaxReorgDepth \in Nat
  /\ MaxBlocks \in Nat \ {0}
  /\ SyncFrom \in SUBSET Nat

VARIABLES
  db,               \* the blocks table, the open session's inserts included
  head,             \* BlockFetcher.head
  current_branch,   \* BlockFetcher.current_branch: newest block first
  initial_blocknr,  \* BlockFetcher.initial_blocknr
  delivered,        \* the blocks the callbacks have been called with, in order
  saved,            \* the committed values of the five variables above
  pc,               \* where in the cycle the process is
  error,            \* why it went down, while it is down
  max_block_height, \* EpochFetcher.last_fetch_height of this cycle
  budget,           \* max_number_of_blocks - number_of_synced_blocks
  target,           \* the highest block this cycle's forward sync may fetch
  batch,            \* blocks fetched by the forward sync
  initial_block,    \* the block the resolver returned
  safe,             \* safe_initial_blocknr
  queue,            \* inserted blocks whose callbacks have yet to run
  resume            \* where the cycle goes on after the callbacks

memory == <<db, head, current_branch, initial_blocknr, delivered>>
locals == <<max_block_height, budget, target, batch, initial_block, safe,
            queue, resume>>
fetcherVars == <<memory, saved, pc, error, locals>>
vars == <<chainVars, fetcherVars>>

PC == {"down", "epochs", "resolve", "latest", "safe", "target", "forward",
       "branch", "parents", "callbacks", "commit"}

Error == {"none", "killed", "NoInitialBlock", "UnknownBase", "NotConnected",
          "AlreadyExists", "BlockNotFound", "ForkBeforeInitial"}

Larger(m, n) == IF m > n THEN m ELSE n
Smaller(m, n) == IF m < n THEN m ELSE n

FreshState == [db |-> {}, head |-> None, current_branch |-> <<>>,
               initial_blocknr |-> 0, delivered |-> <<>>]

LocalsReset ==
  /\ max_block_height' = 0
  /\ budget' = 0
  /\ target' = 0
  /\ batch' = <<>>
  /\ initial_block' = None
  /\ safe' = 0
  /\ queue' = <<>>
  /\ resume' = "commit"

FetcherInit ==
  /\ db = {} /\ head = None /\ current_branch = <<>>
  /\ initial_blocknr = 0 /\ delivered = <<>>
  /\ saved = FreshState
  /\ pc = "epochs" /\ error = "none"
  /\ max_block_height = 0 /\ budget = 0 /\ target = 0 /\ batch = <<>>
  /\ initial_block = None /\ safe = 0 /\ queue = <<>> /\ resume = "commit"

Init == ChainInit /\ FetcherInit

-----------------------------------------------------------------------------
(* Failure and restart.                                                    *)

\* An exception leaves the persistent session uncommitted and ends the
\* process; the open transaction is rolled back.
Down(e) ==
  /\ db' = saved.db
  /\ head' = saved.head
  /\ current_branch' = saved.current_branch
  /\ initial_blocknr' = saved.initial_blocknr
  /\ delivered' = saved.delivered
  /\ pc' = "down"
  /\ error' = e
  /\ LocalsReset
  /\ UNCHANGED <<chainVars, saved>>

\* The process is killed, or stopped between two cycles.
Kill == pc # "down" /\ Down("killed")

\* A new process loads the application state from the database.
Restart ==
  /\ pc = "down"
  /\ pc' = "epochs"
  /\ error' = "none"
  /\ UNCHANGED <<chainVars, memory, saved, locals>>

-----------------------------------------------------------------------------
(* Inserting a branch.                                                     *)

\* Mutant: the parent of a fetched piece is taken for granted.
BaseKnownUnchecked(bs, initial, base) == TRUE

\* The check of _insert_branch that the branch starts from a known block.
BaseKnown(bs, initial, base) ==
  number[bs[1]] \in {0, initial} \/ parent[bs[1]] \in base

\* ensure_branch
Connected(bs) == \A i \in 1..(Len(bs) - 1) : parent[bs[i + 1]] = bs[i]

\* Mutant: blocks that are known already are stored again.
InsertableAgain(bs, base) == TRUE

\* The primary key of the blocks table admits the blocks.
Insertable(bs, base) == ToSet(bs) \cap base = {}

\* Mutant: the head is the block the branch starts with.
NewHeadOldest(bs) == bs[1]

NewHead(bs) == Last(bs)

\* _insert_branch: bs becomes part of the database in one go, then the
\* callbacks run for each block, then the cycle goes on at next.
Insert(bs, initial, next) ==
  IF ~BaseKnown(bs, initial, db) THEN Down("UnknownBase")
  ELSE IF ~Connected(bs) THEN Down("NotConnected")
  ELSE IF ~Insertable(bs, db) THEN Down("AlreadyExists")
  ELSE /\ db' = db \cup ToSet(bs)
       /\ head' = NewHead(bs)
       /\ current_branch' = <<>>
       /\ initial_blocknr' = initial
       /\ batch' = <<>>
       /\ queue' = bs
       /\ resume' = next
       /\ pc' = "callbacks"
       /\ UNCHANGED <<chainVars, delivered, saved, error, max_block_height,
                      budget, target, initial_block, safe>>

\* Mutant: the callbacks miss the last block of a branch.
LastCallbackEarly == Len(queue) <= 2

LastCallback == Len(queue) = 1

\* _run_callbacks, one block per step.
RunCallback ==
  /\ pc = "callbacks"
  /\ queue # <<>>
  /\ delivered' = Append(delivered, Head(queue))
  /\ queue' = Tail(queue)
  /\ pc' = IF LastCallback THEN resume ELSE "callbacks"
  /\ UNCHANGED <<chainVars, db, head, current_branch, initial_blocknr, saved,
                 error, max_block_height, budget, target, batch,
                 initial_block, safe, resume>>

-----------------------------------------------------------------------------
(* A cycle.                                                                *)

\* The node's height is read with the epochs; it limits the whole cycle, as
\* does the number of blocks to fetch, of which a first block is one.
UpdateEpochs ==
  /\ pc = "epochs"
  /\ max_block_height' = number[tip]
  /\ budget' = MaxBlocks - (IF db = {} THEN 1 ELSE 0)
  /\ pc' = IF db = {} THEN "resolve"
           ELSE IF current_branch # <<>> THEN "parents" ELSE "target"
  /\ UNCHANGED <<chainVars, memory, saved, error, target, batch,
                 initial_block, safe, queue, resume>>

\* _insert_first_block asks the resolver for the block to start from.
ResolveInitialBlock ==
  /\ pc = "resolve"
  /\ \E n \in SyncFrom :
       IF BlockAt(n) = None THEN Down("NoInitialBlock")
       ELSE /\ initial_block' = BlockAt(n)
            /\ pc' = "latest"
            /\ UNCHANGED <<chainVars, memory, saved, error, max_block_height,
                           budget, target, batch, safe, queue, resume>>

\* Mutant: blocks right at the tip count as final.
FinalHeightAtTip == number[tip]

\* The height up to which blocks are assumed not to be replaced.
FinalHeight == Larger(number[tip] - MaxReorgDepth, 0)

\* getBlock("latest"): is the block deep enough not to be replaced?
ReadLatest ==
  /\ pc = "latest"
  /\ IF number[initial_block] > FinalHeight
     THEN /\ safe' = FinalHeight
          /\ pc' = "safe"
          /\ UNCHANGED <<chainVars, memory, saved, error, max_block_height,
                         budget, target, batch, initial_block, queue, resume>>
     ELSE Insert(<<initial_block>>, number[initial_block], "target")

\* It is not: start from the block that is.
FetchSafeBlock ==
  /\ pc = "safe"
  /\ IF BlockAt(safe) = None THEN Down("BlockNotFound")
     ELSE Insert(<<BlockAt(safe)>>, safe, "target")

\* fetch_forward_sync_target
ReadTarget ==
  /\ pc = "target"
  /\ target' = Smaller(FinalHeight, max_block_height)
  /\ pc' = "forward"
  /\ UNCHANGED <<chainVars, memory, saved, error, max_block_height, budget,
                 batch, initial_block, safe, queue, resume>>

NextForward == number[head] + Len(batch) + 1

\* Mutant: the forward sync ignores the limit on the number of blocks.
ForwardDoneUnlimited == NextForward > target \/ BlockAt(NextForward) = None

\* takewhile stops at the first number the node has no block for.
ForwardDone ==
  \/ NextForward > target
  \/ budget = 0
  \/ BlockAt(NextForward) = None

\* _sync_forwards, one getBlock(number) per step.
FetchForward ==
  /\ pc = "forward"
  /\ ~ForwardDone
  /\ batch' = Append(batch, BlockAt(NextForward))
  /\ budget' = budget - 1
  /\ UNCHANGED <<chainVars, memory, saved, pc, error, max_block_height,
                 target, initial_block, safe, queue, resume>>

InsertForward ==
  /\ pc = "forward"
  /\ ForwardDone
  /\ IF batch = <<>>
     THEN /\ pc' = "branch"
          /\ UNCHANGED <<chainVars, memory, saved, error, locals>>
     ELSE Insert(batch, initial_blocknr, "branch")

\* Mutant: a block is known when it is not above our head.
KnownByHeight(b) == number[b] <= number[head]

Known(b) == b \in db

\* _fetch_branch with an empty current_branch: the block at the height limit.
FetchBranchHead ==
  /\ pc = "branch"
  /\ LET b == BlockAt(max_block_height) IN
     IF budget = 0
     THEN /\ pc' = "commit"
          /\ UNCHANGED <<chainVars, memory, saved, error, locals>>
     ELSE IF b = None THEN Down("BlockNotFound")
     ELSE IF number[b] < initial_blocknr THEN Down("ForkBeforeInitial")
     ELSE /\ IF Known(b)
             THEN pc' = "commit" /\ UNCHANGED <<current_branch, budget>>
             ELSE /\ current_branch' = <<b>>
                  /\ budget' = budget - 1
                  /\ pc' = "parents"
          /\ UNCHANGED <<chainVars, db, head, initial_blocknr, delivered,
                         saved, error, max_block_height, target, batch,
                         initial_block, safe, queue, resume>>

\* Mutant: the branch goes on until it overlaps with the database.
BranchCompleteLate == Last(current_branch) \in db

BranchComplete == parent[Last(current_branch)] \in db

\* The loop of _fetch_branch, one getBlock(parentHash) per step.
FetchParent ==
  /\ pc = "parents"
  /\ ~BranchComplete
  /\ budget > 0
  /\ LET p == BlockByHash(parent[Last(current_branch)]) IN
     IF p = None THEN Down("BlockNotFound")
     ELSE IF number[p] < initial_blocknr THEN Down("ForkBeforeInitial")
     ELSE /\ current_branch' = Append(current_branch, p)
          /\ budget' = budget - 1
          /\ UNCHANGED <<chainVars, db, head, initial_blocknr, delivered,
                         saved, pc, error, max_block_height, target, batch,
                         initial_block, safe, queue, resume>>

\* The end of _sync_backwards: insert a complete branch, keep an incomplete
\* one for the next cycle.
InsertBackward ==
  /\ pc = "parents"
  /\ IF BranchComplete
     THEN Insert(Reverse(current_branch), initial_blocknr, "commit")
     ELSE /\ budget = 0
          /\ pc' = "commit"
          /\ UNCHANGED <<chainVars, memory, saved, error, locals>>

\* store_pickled and session.commit
Commit ==
  /\ pc = "commit"
  /\ saved' = [db |-> db, head |-> head, current_branch |-> current_branch,
               initial_blocknr |-> initial_blocknr, delivered |-> delivered]
  /\ pc' = "epochs"
  /\ LocalsReset
  /\ UNCHANGED <<chainVars, memory, error>>

-----------------------------------------------------------------------------
CycleStep ==
  \/ UpdateEpochs
  \/ ResolveInitialBlock \/ ReadLatest \/ FetchSafeBlock
  \/ ReadTarget \/ FetchForward \/ InsertForward
  \/ FetchBranchHead \/ FetchParent \/ InsertBackward
  \/ RunCallback
  \/ Commit

NodeStep == ChainNext /\ UNCHANGED fetcherVars

Next == CycleStep \/ Restart \/ Kill \/ NodeStep

Spec == Init /\ [][Next]_vars

\* A running process goes on with its cycle.  Nobody has to restart it, and
\* neither progress of the node nor a kill is owed to it.
FairSpec == Spec /\ WF_vars(CycleStep)

-----------------------------------------------------------------------------
(* Properties.                                                             *)

TypeOK ==
  /\ ChainTypeOK
  /\ db \in SUBSET Block
  /\ head \in Block \cup {None}
  /\ current_branch \in Seq(Block)
  /\ initial_blocknr \in Nat
  /\ delivered \in Seq(Block)
  /\ saved \in [db: SUBSET Block, head: Block \cup {None},
                 current_branch: Seq(Block), initial_blocknr: Nat,
                 delivered: Seq(Block)]
  /\ pc \in PC /\ error \in Error
  /\ max_block_height \in Nat /\ budget \in Nat /\ target \in Nat
  /\ batch \in Seq(Block)
  /\ initial_block \in Block \cup {None} /\ safe \in Nat
  /\ queue \in Seq(Block)
  /\ resume \in {"target", "branch", "commit"}

\* The database is one tree: it has one block with the lowest number, where
\* the synchronisation started, and the parent of every other block.  This is
\* what the branch insertion checks of _insert_branch and ensure_branch and
\* the pieces fetched in different cycles have to add up to.
OneTree ==
  /\ \A b \in db : \/ parent[b] \in db
                   \/ number[b] = initial_blocknr
  /\ \A b, c \in db : number[b] = initial_blocknr /\ number[c] = initial_blocknr
                        => b = c

\* The branch kept over cycles and restarts is linked, newest block first,
\* and never holds a block that is in the database already (its insertion
\* would be refused as already known).
BranchResumable ==
  /\ \A i \in 1..(Len(current_branch) - 1) :
       current_branch[i + 1] = parent[current_branch[i]]
  /\ ToSet(current_branch) \cap db = {}
  /\ db = {} => current_branch = <<>>

\* Every block in the database reaches the callbacks exactly once, and what
\* is committed has reached them: a crash between the insertion and the last
\* callback leaves no block that is stored and never reported on.
DeliveredIsStored ==
  /\ ToSet(delivered) \cup ToSet(queue) = db
  /\ IsInjective(delivered \o queue)
  /\ ToSet(saved.delivered) = saved.db

\* The process can no longer get over its committed state: the block after
\* its head is fetched by number, and its parent is not in the database.
Wedged ==
  /\ saved.head # None
  /\ saved.current_branch = <<>>
  /\ LET n == number[saved.head] + 1 IN
     /\ n <= number[tip] - MaxReorgDepth
     /\ parent[BlockAt(n)] \notin saved.db

\* The block the synchronisation started from was replaced.
InitialLost ==
  /\ saved.db # {}
  /\ \A b \in saved.db \cap Chain(tip) : number[b] # saved.initial_blocknr

\* Without a replaced node and with reorganisations within MaxReorgDepth, a
\* cycle only fails for want of an initial block, for want of a parent when
\* the committed state is wedged, or below an initial block that was replaced;
\* or while there is no committed state yet.  No reorganisation between two of
\* its requests disconnects a fetched piece, repeats a block or makes a block
\* disappear.
FailureExplained ==
  /\ error \notin {"NotConnected", "AlreadyExists", "BlockNotFound"}
  /\ error = "UnknownBase" => Wedged \/ saved.db = {}
  /\ error = "ForkBeforeInitial" => InitialLost \/ saved.db = {}

\* A wedged state is for good: once the process is down in it, no restart and
\* no further block gets it out.  (A cycle that was already under way when the
\* node's chain made the committed state a wedged one may still escape.)
WedgedForGood == [](Wedged /\ pc = "down" => []Wedged)

\* Without a replaced node the committed head never falls back to a lower
\* block, also when the monitor moves to another fork: the forward sync, which
\* goes on from the head's number, never fetches a number twice.
HeadNeverFallsBack ==
  [][saved.head # None => number[saved.head] <= number[saved'.head]]_vars

\* The fetcher fulfils what BlockFeed promises to the reporters, whatever the
\* node does.
Feed == INSTANCE BlockFeed WITH durable <- saved.delivered
ImplementsFeed == Feed!FeedSpec

\* A process that stays up gets the canonical chain into the database once
\* the node's tip has settled.
CatchesUp ==
  (<>[][FALSE]_tip /\ <>[](pc # "down")) => <>[](tip \in saved.db)

-----------------------------------------------------------------------------
(* A claim of the repository that the code does not live up to.            *)

\* Blocks less than MAX_REORG_DEPTH deep may be replaced, those deeper are
\* assumed not to be (main.py:58-60): a reorganisation within that bound must
\* not leave the monitor without a known parent.  Violated, see Wedged.
ShallowReorgSurvived == error # "UnknownBase"
=============================================================================
