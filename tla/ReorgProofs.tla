---------------------------- MODULE ReorgProofs ----------------------------
(***************************************************************************)
(* Theorems about BlockFetcher for a node that is not reset and replaces   *)
(* only blocks less than MaxReorgDepth deep: in which ways a cycle can     *)
(* fail, that the head never falls back, and that a wedged process stays   *)
(* so.                                                                     *)
(***************************************************************************)
EXTENDS BlockFetcherProofs

Bounded == ~NodeMayReset /\ ReorgBound <= MaxReorgDepth

\* All chains start with the same block.
OneGenesis ==
  \A b, c \in Block : number[b] = 0 /\ number[c] = 0 => b = c

-----------------------------------------------------------------------------
(* What the node cannot replace any more.                                  *)

Permanent(n) == n \in Nat /\ (n = 0 \/ n + MaxReorgDepth <= number[tip])

\* The types, in arithmetic terms.
LEMMA TipTypes ==
  ASSUME TypeInv
  PROVE  /\ tip \in Block /\ number[tip] \in Nat /\ MaxReorgDepth \in Nat
         /\ ReorgBound \in Nat /\ None \notin Block
         /\ \A b \in Block : number[b] \in Nat
  BY ChainAssumption, NodeAssumption, FetcherAssumption
  DEF TypeInv, TypeOK, ChainTypeOK

\* The chain up to a block at a height, and up to the block there, agree.
LEMMA ChainFacts ==
  ASSUME NEW b \in Block, NEW n \in 0..number[b]
  PROVE  /\ chainTo[b][n] \in Block /\ number[chainTo[b][n]] = n
         /\ n > 0 => parent[chainTo[b][n]] = chainTo[b][n - 1]
         /\ \A m \in 0..n : chainTo[chainTo[b][n]][m] = chainTo[b][m]
         /\ chainTo[b][number[b]] = b
  <1>1. chainTo[b] \in [0..number[b] -> Block]
    BY ChainAssumption
  <1>2. chainTo[b][n] \in Block
    BY <1>1
  <1> QED BY <1>2, ChainAssumption

\* The height of final blocks is permanent, and so is all below it.
LEMMA FinalPermanent ==
  ASSUME TypeInv, NEW n \in Nat, n <= FinalHeight
  PROVE  Permanent(n)
  BY TipTypes DEF FinalHeight, Larger, Permanent

\* What is below a permanent height is permanent and canonical.
LEMMA PermanentBelow ==
  ASSUME TypeInv, NEW n \in Nat, NEW m \in Nat, Permanent(m), n <= m
  PROVE  Permanent(n) /\ n \in 0..number[tip]
  BY TipTypes DEF Permanent

\* A step of the node leaves the canonical blocks at permanent heights alone.
LEMMA NodeKeeps ==
  ASSUME Bounded, TypeInv, TypeInv', [ChainNext]_chainVars, NEW n, Permanent(n),
         n # 0 \/ OneGenesis
  PROVE  /\ Permanent(n)'
         /\ chainTo[tip'][n] = chainTo[tip][n]
  <1>1. CASE UNCHANGED tip
    BY <1>1 DEF Permanent
  <1>2. CASE ~UNCHANGED tip
    <2>1. PICK b \in Block : Import(b)
      BY <1>2 DEF ChainNext, chainVars, Reset, Bounded
    <2>2. tip' = b /\ number[b] >= number[tip]
      BY <2>1 DEF Import
    <2>3. n \in Nat /\ number[b] \in Nat /\ number[tip] \in Nat
      BY <2>1, TipTypes DEF Permanent
    <2>4. n \in 0..number[tip] /\ n \in 0..number[b]
      BY <2>2, <2>3, TipTypes DEF Permanent
    <2>5. CASE n = 0
      <3>1. number[chainTo[b][n]] = 0 /\ number[chainTo[tip][n]] = 0
            /\ chainTo[b][n] \in Block /\ chainTo[tip][n] \in Block
        BY <2>1, <2>4, <2>5, ChainFacts, TipTypes
      <3> QED BY <2>2, <2>5, <3>1 DEF OneGenesis, Permanent
    <2>6. CASE n # 0
      <3>1. n + MaxReorgDepth <= number[tip]
        BY <2>6 DEF Permanent
      <3>2. n \in 0..(number[tip] - ReorgBound)
        BY <2>3, <3>1, TipTypes DEF Bounded
      <3>3. chainTo[b][n] = chainTo[tip][n]
        BY <2>1, <3>2 DEF Import
      <3>4. n + MaxReorgDepth <= number[b]
        BY <2>2, <2>3, <3>1, TipTypes
      <3> QED BY <2>2, <2>3, <3>3, <3>4 DEF Permanent
    <2> QED BY <2>5, <2>6
  <1> QED BY <1>1, <1>2

-----------------------------------------------------------------------------
(* A wedged process.  It never gets further than the first piece that the  *)
(* forward sync would insert.                                              *)

NextNumber == number[saved.head] + 1

Stuck ==
  /\ Wedged
  /\ db = saved.db /\ head = saved.head /\ current_branch = <<>>
  /\ initial_blocknr = saved.initial_blocknr
  /\ pc \in {"down", "epochs", "target", "forward"}
  /\ pc \in {"target", "forward"} =>
       NextNumber <= max_block_height /\ (batch = <<>> => budget > 0)
  /\ pc = "forward" =>
       /\ NextNumber <= target
       /\ batch # <<>> => batch[1] = BlockAt(NextNumber)

\* Where a wedged process goes on, and with which block.
LEMMA WedgedFacts ==
  ASSUME TypeInv, ShapeInv, Wedged
  PROVE  /\ saved.head \in saved.db /\ saved.head \in Block
         /\ NextNumber \in Nat \ {0} /\ Permanent(NextNumber)
         /\ NextNumber \in 0..number[tip]
         /\ BlockAt(NextNumber) = chainTo[tip][NextNumber]
         /\ BlockAt(NextNumber) \in Block
         /\ number[BlockAt(NextNumber)] = NextNumber
         /\ saved.initial_blocknr < NextNumber
  <1>1. saved.db \subseteq Block /\ saved.initial_blocknr \in Nat
    BY DEF TypeInv, TypeOK
  <1>2. saved.head \in saved.db
    BY DEF Wedged, ShapeInv, SavedShape, HeadShape
  <1>3. number[saved.head] \in Nat /\ number[saved.head] >= saved.initial_blocknr
    BY <1>1, <1>2, TipTypes DEF ShapeInv, SavedShape, TreeShape
  <1>4. NextNumber \in Nat \ {0} /\ NextNumber <= number[tip] - MaxReorgDepth
    BY <1>3 DEF Wedged, NextNumber
  <1>5. NextNumber \in 0..number[tip] /\ Permanent(NextNumber)
    BY <1>4, TipTypes DEF Permanent
  <1>6. BlockAt(NextNumber) = chainTo[tip][NextNumber]
    BY <1>5 DEF BlockAt
  <1>7. chainTo[tip][NextNumber] \in Block /\ number[chainTo[tip][NextNumber]] = NextNumber
    BY <1>5, ChainFacts, TipTypes
  <1>8. saved.initial_blocknr < NextNumber
    BY <1>1, <1>3 DEF NextNumber
  <1> QED BY <1>1, <1>2, <1>4, <1>5, <1>6, <1>7, <1>8

\* A wedged state outlasts whatever the node does.
LEMMA NodeWedged ==
  ASSUME Bounded, TypeInv, ShapeInv, TypeInv', Wedged,
         [ChainNext]_chainVars, UNCHANGED saved
  PROVE  Wedged' /\ BlockAt(NextNumber)' = BlockAt(NextNumber)
  <1>1. /\ NextNumber \in Nat \ {0} /\ Permanent(NextNumber)
        /\ BlockAt(NextNumber) = chainTo[tip][NextNumber]
    BY WedgedFacts
  <1>2. NextNumber' = NextNumber
    BY DEF NextNumber
  <1>3. Permanent(NextNumber)' /\ chainTo[tip'][NextNumber] = chainTo[tip][NextNumber]
    BY <1>1, <1>2, NodeKeeps
  <1>4. number[tip'] \in Nat /\ MaxReorgDepth \in Nat
    BY TipTypes, ChainAssumption DEF TypeInv, TypeOK, ChainTypeOK
  <1>5. NextNumber + MaxReorgDepth <= number[tip']
    BY <1>1, <1>2, <1>3 DEF Permanent
  <1>6. NextNumber \in 0..number[tip'] /\ NextNumber <= number[tip'] - MaxReorgDepth
    BY <1>1, <1>4, <1>5
  <1>7. BlockAt(NextNumber)' = BlockAt(NextNumber)
    BY <1>1, <1>2, <1>3, <1>6 DEF BlockAt
  <1> QED BY <1>6, <1>7, <1>2 DEF Wedged, NextNumber

\* No step leads out of a wedged state.
LEMMA StuckStep ==
  Bounded /\ TypeInv /\ ShapeInv /\ TypeInv' /\ Stuck /\ [Next]_vars => Stuck'
  <1> SUFFICES ASSUME Bounded, TypeInv, ShapeInv, TypeInv', Stuck, [Next]_vars
               PROVE  Stuck'
    OBVIOUS
  <1>w. /\ saved.head \in saved.db /\ saved.head \in Block
        /\ NextNumber \in Nat \ {0} /\ Permanent(NextNumber)
        /\ NextNumber \in 0..number[tip]
        /\ BlockAt(NextNumber) \in Block
        /\ number[BlockAt(NextNumber)] = NextNumber
        /\ saved.initial_blocknr < NextNumber
    BY WedgedFacts DEF Stuck
  <1>t. /\ batch \in Seq(Block) /\ max_block_height \in Nat /\ budget \in Nat
        /\ target \in Nat /\ MaxBlocks \in Nat \ {0} /\ saved.initial_blocknr \in Nat
    BY FetcherAssumption DEF TypeInv, TypeOK
  <1>d. ASSUME NEW e, Down(e) PROVE Stuck'
    BY <1>d DEF Down, Stuck, Wedged, BlockAt, chainVars
  <1>u. ASSUME UNCHANGED <<tip, saved>>
        PROVE  Wedged' /\ NextNumber' = NextNumber
               /\ BlockAt(NextNumber)' = BlockAt(NextNumber)
    BY <1>u DEF Stuck, Wedged, NextNumber, BlockAt
  <1>1. CASE UpdateEpochs
    BY <1>1, <1>u, <1>w, <1>t DEF UpdateEpochs, Stuck, memory, chainVars
  <1>2. CASE ReadTarget
    <2>1. NextNumber <= FinalHeight
      BY <1>w, TipTypes DEF Permanent, FinalHeight, Larger
    <2>2. NextNumber <= target'
      BY <1>2, <2>1 DEF ReadTarget, Smaller, Stuck
    <2>3. batch = <<>>
      BY <1>2 DEF ReadTarget, ShapeInv, CycleShape
    <2> QED BY <1>2, <1>u, <2>2, <2>3 DEF ReadTarget, Stuck, memory, chainVars
  <1>3. CASE FetchForward
    <2> DEFINE b == BlockAt(NextForward)
    <2>1. b \in Block /\ batch' = Append(batch, b)
      BY <1>3, BlockAtNumber DEF FetchForward, ForwardDone, TypeInv, TypeOK
    <2>2. CASE batch = <<>>
      <3>1. NextForward = NextNumber
        BY <1>w, <2>2, TipTypes DEF NextForward, NextNumber, Stuck
      <3>2. batch' = <<b>>
        BY <2>1, <2>2
      <3>3. batch'[1] = BlockAt(NextNumber)
        BY <3>1, <3>2
      <3> QED BY <1>3, <1>u, <2>1, <3>2, <3>3
          DEF FetchForward, Stuck, memory, chainVars
    <2>3. CASE batch # <<>>
      <3>1. Len(batch) \in Nat \ {0}
        BY <1>t, <2>3, EmptySeq, LenProperties
      <3>2. batch'[1] = batch[1] /\ batch' # <<>>
        BY <1>t, <2>1, <3>1, AppendProperties, EmptySeq
      <3> QED BY <1>3, <1>u, <2>3, <3>2 DEF FetchForward, Stuck, memory, chainVars
    <2> QED BY <2>2, <2>3
  <1>4. CASE InsertForward
    <2>1. batch # <<>>
      <3> SUFFICES ASSUME batch = <<>> PROVE FALSE
        OBVIOUS
      <3>1. NextForward = NextNumber
        BY <1>w, TipTypes DEF NextForward, NextNumber, Stuck
      <3>2. BlockAt(NextNumber) # None /\ budget > 0 /\ NextNumber <= target
        BY <1>w, <1>4, TipTypes DEF Stuck, InsertForward
      <3> QED BY <1>4, <1>t, <1>w, <3>1, <3>2 DEF InsertForward, ForwardDone
    <2>2. batch[1] = BlockAt(NextNumber)
      BY <1>4, <2>1 DEF InsertForward, Stuck
    <2>3. ~BaseKnown(batch, initial_blocknr, db)
      BY <1>w, <1>t, <2>2 DEF BaseKnown, Stuck, Wedged, NextNumber
    <2>4. Down("UnknownBase")
      BY <1>4, <2>1, <2>3 DEF InsertForward, Insert
    <2> QED BY <1>d, <2>4
  <1>5. CASE Kill
    BY <1>5, <1>d DEF Kill
  <1>6. CASE Restart
    BY <1>6, <1>u DEF Restart, Stuck, memory, chainVars
  <1>7. CASE NodeStep
    <2>1. UNCHANGED <<memory, saved, pc, locals>> /\ [ChainNext]_chainVars
      BY <1>7 DEF NodeStep, fetcherVars
    <2>2. Wedged' /\ BlockAt(NextNumber)' = BlockAt(NextNumber)
      BY <2>1, NodeWedged DEF Stuck
    <2>3. NextNumber' = NextNumber
      BY <2>1 DEF NextNumber
    <2> QED BY <2>1, <2>2, <2>3 DEF Stuck, memory, locals
  <1>8. CASE UNCHANGED vars
    BY <1>8, <1>u DEF vars, fetcherVars, memory, locals, chainVars, Stuck
  <1>9. /\ ~ResolveInitialBlock /\ ~ReadLatest /\ ~FetchSafeBlock
        /\ ~FetchBranchHead /\ ~FetchParent /\ ~InsertBackward
        /\ ~RunCallback /\ ~Commit
    BY DEF Stuck, ResolveInitialBlock, ReadLatest, FetchSafeBlock,
           FetchBranchHead, FetchParent, InsertBackward, RunCallback, Commit
  <1> QED BY <1>1, <1>2, <1>3, <1>4, <1>5, <1>6, <1>7, <1>8, <1>9
      DEF Next, CycleStep

-----------------------------------------------------------------------------
(* Between two cycles the process' memory is what was committed.           *)

AsSaved ==
  /\ db = saved.db /\ head = saved.head
  /\ current_branch = saved.current_branch
  /\ initial_blocknr = saved.initial_blocknr

AtRest == pc \in {"down", "epochs"} => AsSaved

\* At first nothing is under way.
LEMMA InitAtRest == Init => AtRest
  BY DEF Init, FetcherInit, FreshState, AtRest, AsSaved

\* An insertion leads on in the cycle, or down to what is saved.
LEMMA InsertMoves ==
  ASSUME NEW bs, NEW initial, NEW next, Insert(bs, initial, next)
  PROVE  AtRest'
  BY DEF Insert, Down, AtRest, AsSaved

\* Between cycles memory and disk agree.
LEMMA StepAtRest == TypeInv /\ AtRest /\ [Next]_vars => AtRest'
  <1> SUFFICES ASSUME TypeInv, AtRest, [Next]_vars PROVE AtRest'
    OBVIOUS
  <1>d. \A e : Down(e) => AtRest'
    BY DEF Down, AtRest, AsSaved
  <1>1. CASE UpdateEpochs \/ ReadTarget \/ FetchForward
    BY <1>1 DEF UpdateEpochs, ReadTarget, FetchForward, AtRest
  <1>2. CASE ResolveInitialBlock
    BY <1>2, <1>d DEF ResolveInitialBlock, AtRest
  <1>3. CASE ReadLatest \/ FetchSafeBlock \/ InsertForward \/ InsertBackward
    BY <1>3, <1>d, InsertMoves
    DEF ReadLatest, FetchSafeBlock, InsertForward, InsertBackward, AtRest
  <1>4. CASE FetchBranchHead \/ FetchParent
    BY <1>4, <1>d DEF FetchBranchHead, FetchParent, AtRest
  <1>5. CASE RunCallback
    BY <1>5 DEF RunCallback, AtRest, TypeInv, TypeOK
  <1>6. CASE Commit
    BY <1>6 DEF Commit, AtRest, AsSaved, memory
  <1>7. CASE Kill
    BY <1>7, <1>d DEF Kill
  <1>8. CASE Restart \/ NodeStep \/ UNCHANGED vars
    BY <1>8 DEF Restart, NodeStep, vars, fetcherVars, memory, AtRest, AsSaved
  <1> QED BY <1>1, <1>2, <1>3, <1>4, <1>5, <1>6, <1>7, <1>8 DEF Next, CycleStep

\* On a node that replaces blocks only within the monitor's limit, a process
\* that went down in a wedged state never gets out of it, however often it is
\* restarted and however the chain goes on.
THEOREM WedgedForGoodHolds ==
  ASSUME Bounded
  PROVE  Spec => WedgedForGood
  <1>1. Init => AtRest
    BY InitAtRest
  <1>2. TypeInv /\ AtRest /\ [Next]_vars => AtRest'
    BY StepAtRest
  <1>3. TypeInv /\ ShapeInv /\ TypeInv' /\ Stuck /\ [Next]_vars => Stuck'
    BY StuckStep
  <1>4. AtRest /\ Wedged /\ pc = "down" => Stuck
    BY DEF AtRest, AsSaved, Wedged, Stuck
  <1>5. Stuck => Wedged
    BY DEF Stuck
  <1>6. Spec => []TypeInv /\ []ShapeInv
    BY ShapesHold, PTL
  <1> QED BY <1>1, <1>2, <1>3, <1>4, <1>5, <1>6, PTL DEF Spec, WedgedForGood

-----------------------------------------------------------------------------
(* Without a reset, the node serves what it served before.                 *)

\* With a block, the node serves the block's parent.
ParentsServed == \A b \in served : number[b] > 0 => parent[b] \in served

\* On a chain, the parent of a block is the block below it.
LEMMA ChainParents ==
  ASSUME NEW b \in Block
  PROVE  \A c \in Chain(b) : number[c] > 0 => parent[c] \in Chain(b)
  <1> SUFFICES ASSUME NEW n \in 0..number[b], number[chainTo[b][n]] > 0
               PROVE  parent[chainTo[b][n]] \in Chain(b)
    BY DEF Chain
  <1>1. number[b] \in Nat
    BY ChainAssumption
  <1>2. n > 0 /\ n - 1 \in 0..number[b]
    BY <1>1, ChainFacts
  <1> QED BY <1>2, ChainFacts DEF Chain

ServedInv == FetchedInv /\ ParentsServed

\* At first no block has been fetched.
LEMMA InitServed == Init => ServedInv
  <1> SUFFICES ASSUME Init PROVE ServedInv
    OBVIOUS
  <1>1. tip \in Block /\ served = Chain(tip) /\ number[tip] = 0
    BY DEF Init, ChainInit
  <1>2. \A b \in served : number[b] <= number[tip]
    <2> SUFFICES ASSUME NEW n \in 0..number[tip]
                 PROVE  number[chainTo[tip][n]] <= number[tip]
      BY <1>1 DEF Chain
    <2> QED BY <1>1, ChainFacts
  <1>3. ParentsServed
    BY <1>1, ChainParents DEF ParentsServed
  <1> QED BY <1>1, <1>2, <1>3, EmptySet
      DEF Init, FetcherInit, FreshState, ServedInv, FetchedInv

\* A node that is not reset goes on serving blocks with their parents, and its
\* tip does not fall.
LEMMA StepServed ==
  ASSUME ~NodeMayReset, TypeInv, ShapeInv, ServedInv, [Next]_vars
  PROVE  ServedInv' /\ number[tip] <= number[tip']
  <1>t. tip \in Block /\ number[tip] \in Nat
    BY TipTypes
  <1>1. CASE CycleStep \/ Restart \/ Kill
    <2>1. FetchedInv'
      BY <1>1, FetchServed DEF ServedInv
    <2>2. UNCHANGED chainVars
      BY <1>1
      DEF CycleStep, Restart, Kill, Down, UpdateEpochs, ResolveInitialBlock,
          ReadLatest, FetchSafeBlock, ReadTarget, FetchForward, InsertForward,
          FetchBranchHead, FetchParent, InsertBackward, RunCallback, Commit,
          Insert
    <2> QED BY <1>t, <2>1, <2>2 DEF ServedInv, ParentsServed, chainVars
  <1>2. CASE NodeStep
    <2>1. PICK b \in Block : Import(b)
      BY <1>2 DEF NodeStep, ChainNext, Reset
    <2>2. FetchedInv' /\ number[tip] <= number[tip']
      BY <1>2, <2>1, ImportServed DEF NodeStep, ServedInv
    <2>3. served' = served \cup Chain(b)
      BY <2>1 DEF Import
    <2>4. ParentsServed'
      BY <2>3, ChainParents DEF ServedInv, ParentsServed
    <2> QED BY <2>2, <2>4 DEF ServedInv
  <1>3. CASE UNCHANGED vars
    BY <1>t, <1>3 DEF vars, chainVars, fetcherVars, memory, locals, ServedInv,
                FetchedInv, ParentsServed, Chain
  <1> QED BY <1>1, <1>2, <1>3 DEF Next

-----------------------------------------------------------------------------
(* The head is the highest block of the database, and a branch in progress *)
(* leads to a block that is at least as high.                              *)

RankShape(d, h, cb) ==
  /\ \A b \in d : number[b] <= number[h]
  /\ cb # <<>> => number[h] <= number[cb[1]]

\* A block fetched at the height limit is not below the head.
HeadWithinLimit ==
  \/ pc \in {"target", "forward", "branch"}
  \/ pc = "callbacks" /\ resume # "commit"
  => number[head] <= max_block_height \/ number[head] = initial_blocknr

RankInv ==
  /\ RankShape(db, head, current_branch)
  /\ RankShape(saved.db, saved.head, saved.current_branch)
  /\ saved.head # None => head # None /\ number[saved.head] <= number[head]
  /\ HeadWithinLimit
  /\ pc = "forward" =>
       /\ target <= max_block_height
       /\ \A i \in 1..Len(batch) : number[batch[i]] <= target

\* At first there is no head.
LEMMA InitRank == Init => RankInv
  BY DEF Init, FetcherInit, FreshState, RankInv, RankShape, HeadWithinLimit

\* A process that goes down keeps the saved head, which is ranked.
LEMMA DownRank ==
  ASSUME TypeInv, RankInv, NEW e, Down(e)
  PROVE  RankInv'
  <1>1. saved.head # None => number[saved.head] \in Nat
    BY TipTypes DEF TypeInv, TypeOK
  <1> QED BY <1>1 DEF RankInv, RankShape, HeadWithinLimit, Down

\* An inserted branch ends at or above the head.
LEMMA InsertRank ==
  ASSUME TypeInv, ShapeInv, RankInv,
         NEW bs \in Seq(Block), bs # <<>>, NEW initial, NEW next,
         Insert(bs, initial, next),
         \A i \in 1..Len(bs) : number[bs[i]] <= number[Last(bs)],
         db # {} => number[head] <= number[Last(bs)],
         next # "commit" =>
           number[Last(bs)] <= max_block_height \/ number[Last(bs)] = initial
  PROVE  RankInv'
  <1>1. CASE \E e : Down(e)
    BY <1>1, DownRank
  <1>2. CASE ~ \E e : Down(e)
    <2>1. /\ db' = db \cup ToSet(bs) /\ head' = Last(bs)
          /\ current_branch' = <<>> /\ pc' = "callbacks"
          /\ initial_blocknr' = initial /\ resume' = next
          /\ UNCHANGED <<saved, max_block_height>>
      BY <1>2 DEF Insert, NewHead
    <2>2. Last(bs) \in Block /\ number[Last(bs)] \in Nat
      BY LastInSet, TipTypes
    <2>3. /\ db = {} => head = None
          /\ db # {} => head \in Block /\ number[head] \in Nat
          /\ db \subseteq Block
      BY TipTypes DEF TypeInv, TypeOK, ShapeInv, MemoryShape, HeadShape
    <2>4. saved.head # None => saved.head \in Block /\ number[saved.head] \in Nat
      BY TipTypes DEF TypeInv, TypeOK
    <2>5. \A b \in ToSet(bs) : number[b] <= number[Last(bs)]
      <3>1. DOMAIN bs = 1..Len(bs)
        OBVIOUS
      <3> QED BY <3>1 DEF ToSet
    <2>6. \A b \in db : number[b] <= number[Last(bs)]
      <3> SUFFICES ASSUME NEW b \in db PROVE number[b] <= number[Last(bs)]
        OBVIOUS
      <3>1. number[b] \in Nat /\ number[head] \in Nat
        BY <2>3, TipTypes
      <3>2. number[b] <= number[head] /\ number[head] <= number[Last(bs)]
        BY DEF RankInv, RankShape
      <3> QED BY <2>2, <3>1, <3>2
    <2>7. RankShape(db', head', current_branch')
      BY <2>1, <2>5, <2>6 DEF RankShape
    <2>8. saved.head # None => head' # None /\ number[saved.head] <= number[head']
      BY <2>1, <2>2, <2>3, <2>4, TipTypes DEF RankInv
    <2> QED BY <2>1, <2>7, <2>8 DEF RankInv, HeadWithinLimit
  <1> QED BY <1>1, <1>2

\* Every step keeps the head no lower than the saved one.
LEMMA StepRank ==
  ASSUME TypeInv, ShapeInv, FetchedInv, RankInv, [Next]_vars
  PROVE  RankInv'
  <1>t. /\ number[tip] \in Nat /\ max_block_height \in Nat /\ target \in Nat
        /\ initial_blocknr \in Nat /\ db \subseteq Block
        /\ current_branch \in Seq(Block) /\ batch \in Seq(Block)
        /\ \A b \in Block : number[b] \in Nat
        /\ None \notin Block
    BY TipTypes DEF TypeInv, TypeOK
  <1>h. db # {} => /\ head \in db /\ number[head] \in Nat
                   /\ number[head] <= number[tip] /\ number[head] >= initial_blocknr
    BY <1>t DEF FetchedInv, ShapeInv, MemoryShape, HeadShape, TreeShape
  <1>1. CASE UpdateEpochs
    BY <1>1, <1>h DEF UpdateEpochs, memory, RankInv, RankShape, HeadWithinLimit
  <1>2. CASE ResolveInitialBlock
    BY <1>2, DownRank
    DEF ResolveInitialBlock, memory, RankInv, RankShape, HeadWithinLimit
  <1>3. CASE ReadLatest
    <2>1. CASE number[initial_block] > FinalHeight
      BY <1>3, <2>1 DEF ReadLatest, memory, RankInv, RankShape, HeadWithinLimit
    <2>2. CASE ~(number[initial_block] > FinalHeight)
      <3>1. initial_block \in Block /\ db = {}
        BY <1>3 DEF ReadLatest, TypeInv, Control, ShapeInv, CycleShape
      <3>2. <<initial_block>> \in Seq(Block) /\ Len(<<initial_block>>) = 1
            /\ Last(<<initial_block>>) = initial_block
        BY <3>1 DEF Last
      <3>3. Insert(<<initial_block>>, number[initial_block], "target")
        BY <1>3, <2>2 DEF ReadLatest
      <3>4. \A i \in 1..Len(<<initial_block>>) :
              number[<<initial_block>>[i]] <= number[Last(<<initial_block>>)]
        BY <1>t, <3>1, <3>2
      <3> QED BY <3>1, <3>2, <3>3, <3>4, InsertRank
    <2> QED BY <2>1, <2>2
  <1>4. CASE FetchSafeBlock
    <2> DEFINE b == BlockAt(safe)
    <2>1. CASE b = None
      BY <1>4, <2>1, DownRank DEF FetchSafeBlock
    <2>2. CASE b # None
      <3>1. b \in Block /\ number[b] = safe /\ db = {}
        BY <1>4, <2>2, BlockAtNumber
        DEF FetchSafeBlock, TypeInv, TypeOK, ShapeInv, CycleShape
      <3>2. Insert(<<b>>, safe, "target")
        BY <1>4, <2>2 DEF FetchSafeBlock
      <3> HIDE DEF b
      <3>3. <<b>> \in Seq(Block) /\ Len(<<b>>) = 1 /\ Last(<<b>>) = b
        BY <3>1 DEF Last
      <3>4. \A i \in 1..Len(<<b>>) : number[<<b>>[i]] <= number[Last(<<b>>)]
        BY <1>t, <3>1, <3>3
      <3> QED BY <3>1, <3>2, <3>3, <3>4, InsertRank
    <2> QED BY <2>1, <2>2
  <1>5. CASE ReadTarget
    <2>1. target' <= max_block_height
      BY <1>5, <1>t, TipTypes DEF ReadTarget, Smaller, FinalHeight, Larger
    <2>2. batch = <<>>
      BY <1>5 DEF ReadTarget, ShapeInv, CycleShape
    <2> QED BY <1>5, <2>1, <2>2
        DEF ReadTarget, memory, RankInv, RankShape, HeadWithinLimit
  <1>6. CASE FetchForward
    <2> DEFINE b == BlockAt(NextForward)
    <2>1. b \in Block /\ number[b] = NextForward /\ NextForward <= target
      <3>1. NextForward \in Nat
        BY <1>6, <1>h, <1>t DEF FetchForward, NextForward, ShapeInv, CycleShape
      <3> QED BY <1>6, <1>t, <3>1, BlockAtNumber
          DEF FetchForward, ForwardDone, TypeInv, TypeOK
    <2>2. batch' = Append(batch, b)
      BY <1>6 DEF FetchForward
    <2> HIDE DEF b
    <2>3. \A i \in 1..Len(batch') : \/ i \in 1..Len(batch) /\ batch'[i] = batch[i]
                                    \/ batch'[i] = b
      BY <1>t, <2>1, <2>2
    <2>4. \A i \in 1..Len(batch') : number[batch'[i]] <= target
      BY <1>6, <2>1, <2>3 DEF FetchForward, RankInv
    <2> QED BY <1>6, <2>4
        DEF FetchForward, memory, RankInv, RankShape, HeadWithinLimit
  <1>7. CASE InsertForward
    <2>1. CASE batch = <<>>
      BY <1>7, <2>1
      DEF InsertForward, memory, locals, RankInv, RankShape, HeadWithinLimit
    <2>2. CASE batch # <<>>
      <3>1. Insert(batch, initial_blocknr, "branch") /\ db # {}
        BY <1>7, <2>2 DEF InsertForward, ShapeInv, CycleShape
      <3>2. \A i \in 1..Len(batch) : /\ number[batch[i]] = number[head] + i
                                     /\ number[batch[i]] <= target
        BY <1>7 DEF InsertForward, ShapeInv, CycleShape, RankInv
      <3>3. Len(batch) \in 1..Len(batch) /\ Last(batch) = batch[Len(batch)]
        BY <1>t, <2>2, EmptySeq, LenProperties DEF Last
      <3>4. /\ number[Last(batch)] = number[head] + Len(batch)
            /\ number[Last(batch)] <= target
        BY <3>2, <3>3
      <3>5. target <= max_block_height
        BY <1>7 DEF InsertForward, RankInv
      <3>6. number[Last(batch)] <= max_block_height
        BY <1>t, <1>h, <3>1, <3>3, <3>4, <3>5
      <3>7. number[head] <= number[Last(batch)]
        BY <1>h, <3>1, <3>3, <3>4
      <3>8. \A i \in 1..Len(batch) : number[batch[i]] <= number[Last(batch)]
        BY <1>h, <3>1, <3>2, <3>3, <3>4
      <3> QED BY <1>t, <2>2, <3>1, <3>6, <3>7, <3>8, InsertRank
    <2> QED BY <2>1, <2>2
  <1>8. CASE FetchBranchHead
    <2> DEFINE b == BlockAt(max_block_height)
    <2>1. CASE (\E e : Down(e)) \/ UNCHANGED current_branch
      BY <1>8, <2>1, DownRank
      DEF FetchBranchHead, memory, locals, RankInv, RankShape, HeadWithinLimit
    <2>2. CASE ~((\E e : Down(e)) \/ UNCHANGED current_branch)
      <3>1. b # None /\ ~(number[b] < initial_blocknr)
            /\ current_branch' = <<b>> /\ pc' = "parents"
            /\ UNCHANGED <<db, head, saved>>
        BY <1>8, <2>2 DEF FetchBranchHead, memory
      <3>2. b \in Block /\ number[b] = max_block_height
        BY <3>1, BlockAtNumber DEF TypeInv, TypeOK
      <3>3. number[head] <= max_block_height \/ number[head] = initial_blocknr
        BY <1>8 DEF FetchBranchHead, RankInv, HeadWithinLimit
      <3>4. number[head] <= number[b]
        BY <1>8, <1>t, <1>h, <3>1, <3>2, <3>3
        DEF FetchBranchHead, ShapeInv, CycleShape
      <3> HIDE DEF b
      <3>5. <<b>>[1] = b
        OBVIOUS
      <3> QED BY <3>1, <3>4, <3>5 DEF RankInv, RankShape, HeadWithinLimit
    <2> QED BY <2>1, <2>2
  <1>9. CASE FetchParent
    <2> DEFINE p == BlockByHash(parent[Last(current_branch)])
    <2>1. CASE \E e : Down(e)
      BY <2>1, DownRank
    <2>2. CASE ~ \E e : Down(e)
      <3>1. /\ p # None /\ current_branch' = Append(current_branch, p)
            /\ pc = "parents" /\ current_branch # <<>>
            /\ UNCHANGED <<db, head, saved, pc>>
        BY <1>9, <2>2 DEF FetchParent, TypeInv, Control
      <3>2. p \in Block
        BY <3>1, BlockByHashType DEF TypeInv, TypeOK
      <3> HIDE DEF p
      <3>3. current_branch'[1] = current_branch[1]
        <4>1. Len(current_branch) \in Nat \ {0}
          BY <1>t, <3>1, EmptySeq, LenProperties
        <4> QED BY <1>t, <3>1, <3>2, <4>1, AppendProperties
      <3> QED BY <3>1, <3>3 DEF RankInv, RankShape, HeadWithinLimit
    <2> QED BY <2>1, <2>2
  <1>10. CASE InsertBackward
    <2>1. CASE ~BranchComplete
      BY <1>10, <2>1
      DEF InsertBackward, memory, locals, RankInv, RankShape, HeadWithinLimit
    <2>2. CASE BranchComplete
      <3> DEFINE cb == current_branch
                 r == Reverse(cb)
                 n == Len(cb)
      <3>1. Insert(r, initial_blocknr, "commit")
        BY <1>10, <2>2 DEF InsertBackward
      <3>2. cb # <<>> /\ cb \in Seq(Block) /\ n \in Nat \ {0} /\ DOMAIN cb = 1..n
        BY <1>10, <1>t, EmptySeq, LenProperties DEF InsertBackward, TypeInv, Control
      <3>3. DOMAIN r = 1..n /\ \A i \in 1..n : r[i] = cb[(n - i) + 1]
        BY <3>2 DEF Reverse
      <3>4. \A i \in 1..n : (n - i) + 1 \in 1..n /\ cb[(n - i) + 1] \in Block
        <4>1. \A i \in 1..n : (n - i) + 1 \in 1..n
          BY <3>2
        <4> QED BY <3>2, <4>1, ElementOfSeq
      <3>5. \A i \in 1..n : number[cb[i]] = number[cb[1]] - (i - 1)
        BY DEF ShapeInv, MemoryShape, BranchShape
      <3> HIDE DEF r
      <3>6. r \in Seq(Block) /\ Len(r) = n /\ r # <<>>
        <4>1. r \in [1..n -> Block]
          <5>1. r = [i \in 1..n |-> cb[(n - i) + 1]]
            BY <3>2 DEF r, Reverse
          <5> QED BY <5>1, <3>4
        <4>2. r \in Seq(Block) /\ Len(r) = n
          BY <4>1, <3>2, SeqDef
        <4> QED BY <4>2, <3>2
      <3>7. Last(r) = cb[1]
        <4>1. n \in 1..n /\ (n - n) + 1 = 1
          BY <3>2
        <4> QED BY <3>3, <3>6, <4>1 DEF Last
      <3>8. number[cb[1]] \in Nat
        BY <1>t, <3>2, ElementOfSeq
      <3>9. \A i \in 1..Len(r) : number[r[i]] <= number[Last(r)]
        BY <3>2, <3>3, <3>4, <3>5, <3>6, <3>7, <3>8
      <3>10. number[head] <= number[Last(r)]
        BY <3>2, <3>7 DEF RankInv, RankShape
      <3> QED BY <3>1, <3>6, <3>9, <3>10, InsertRank
    <2> QED BY <2>1, <2>2
  <1>11. CASE RunCallback
    <2>1. \/ pc' = "callbacks"
          \/ pc' = resume /\ resume \in {"target", "branch", "commit"}
      BY <1>11 DEF RunCallback, TypeInv, TypeOK
    <2> QED BY <1>11, <2>1 DEF RunCallback, RankInv, RankShape, HeadWithinLimit
  <1>12. CASE Commit
    <2>1. head # None => number[head] \in Nat
      BY TipTypes DEF TypeInv, TypeOK
    <2> QED BY <1>12, <2>1 DEF Commit, memory, RankInv, RankShape, HeadWithinLimit
  <1>13. CASE Kill
    BY <1>13, DownRank DEF Kill
  <1>14. CASE Restart \/ NodeStep \/ UNCHANGED vars
    BY <1>14 DEF Restart, NodeStep, vars, fetcherVars, memory, locals, RankInv,
                 RankShape, HeadWithinLimit
  <1> QED BY <1>1, <1>2, <1>3, <1>4, <1>5, <1>6, <1>7, <1>8, <1>9, <1>10, <1>11,
             <1>12, <1>13, <1>14 DEF Next, CycleStep

\* What the proofs below go on with: the node is not reset.
LEMMA RankHolds ==
  ASSUME ~NodeMayReset
  PROVE  Spec => [](TypeInv /\ ShapeInv /\ ServedInv /\ AtRest /\ RankInv)
  <1>1. Init => ServedInv /\ AtRest /\ RankInv
    BY InitServed, InitAtRest, InitRank
  <1>2. /\ TypeInv /\ ShapeInv /\ ServedInv /\ AtRest /\ RankInv /\ [Next]_vars
        => ServedInv' /\ AtRest' /\ RankInv'
    BY StepServed, StepAtRest, StepRank DEF ServedInv
  <1>3. Spec => []TypeInv /\ []ShapeInv
    BY ShapesHold, PTL
  <1> QED BY <1>1, <1>2, <1>3, PTL DEF Spec

\* Without a reset of the node the committed head never falls back to a lower
\* block, on whichever fork it is.
THEOREM HeadNeverFallsBackHolds ==
  ASSUME ~NodeMayReset
  PROVE  Spec => HeadNeverFallsBack
  <1>1. TypeInv /\ RankInv /\ [Next]_vars
        => [saved.head # None => number[saved.head] <= number[saved'.head]]_vars
    <2> SUFFICES ASSUME TypeInv, RankInv, Next, saved.head # None
                 PROVE  number[saved.head] <= number[saved'.head]
      OBVIOUS
    <2>1. number[saved.head] \in Nat
      BY TipTypes DEF TypeInv, TypeOK
    <2>2. CASE Commit
      BY <2>2 DEF Commit, RankInv
    <2>3. CASE ~Commit
      <3>1. saved' = saved
        BY <2>3
        DEF Next, CycleStep, NodeStep, fetcherVars, Restart, Kill, Down,
            UpdateEpochs, ResolveInitialBlock, ReadLatest, FetchSafeBlock,
            ReadTarget, FetchForward, InsertForward, FetchBranchHead,
            FetchParent, InsertBackward, RunCallback, Insert
      <3> QED BY <2>1, <3>1
    <2> QED BY <2>2, <2>3
  <1> QED BY <1>1, RankHolds, PTL DEF Spec, HeadNeverFallsBack

-----------------------------------------------------------------------------
(* What the cycle has read of the chain still holds of it.                 *)

OnChain(cb, n) == \A i \in 1..Len(cb) : chainTo[cb[i]][n] = chainTo[tip][n]

\* A database that is not empty has the block it was started from.
Rooted(d, n) == d # {} => \E b \in d : number[b] = n

RecentInv ==
  /\ Rooted(db, initial_blocknr)
  /\ Rooted(saved.db, saved.initial_blocknr)
  /\ db # {} => Permanent(initial_blocknr)
  /\ saved.db # {} =>
       /\ Permanent(saved.initial_blocknr)
       /\ initial_blocknr = saved.initial_blocknr
       /\ saved.db \subseteq db
  /\ pc \in {"target", "forward"} => saved.db = {} \/ AsSaved
  /\ pc = "callbacks" /\ resume = "target" => saved.db = {}
  /\ pc = "safe" => Permanent(safe)
  /\ pc = "forward" =>
       /\ Permanent(target)
       /\ \A i \in 1..Len(batch) : batch[i] = chainTo[tip][number[batch[i]]]
  /\ OnChain(current_branch, initial_blocknr)
  /\ OnChain(saved.current_branch, saved.initial_blocknr)
  /\ pc \notin {"down", "epochs"} =>
       /\ max_block_height <= number[tip]
       /\ saved.db # {} => saved.initial_blocknr <= max_block_height

\* At first no block is stored.
LEMMA InitRecent == Init => RecentInv
  BY DEF Init, FetcherInit, FreshState, RecentInv, OnChain, Rooted

\* A process that goes down falls back on what it had committed.
LEMMA DownRecent ==
  ASSUME RecentInv, NEW e, Down(e)
  PROVE  RecentInv'
  BY DEF RecentInv, Down, OnChain, Permanent, chainVars

\* An insertion keeps the database rooted in a permanent block.
LEMMA InsertRecent ==
  ASSUME RecentInv, pc \notin {"down", "epochs"},
         NEW bs, NEW initial, NEW next, Insert(bs, initial, next),
         Permanent(initial), \E b \in db \cup ToSet(bs) : number[b] = initial,
         saved.db # {} => initial = initial_blocknr /\ next # "target"
  PROVE  RecentInv'
  <1>1. CASE \E e : Down(e)
    BY <1>1, DownRecent
  <1>2. CASE ~ \E e : Down(e)
    <2>1. /\ db' = db \cup ToSet(bs)
          /\ current_branch' = <<>> /\ initial_blocknr' = initial
          /\ pc' = "callbacks" /\ resume' = next
          /\ UNCHANGED <<tip, saved, max_block_height>>
      BY <1>2 DEF Insert, chainVars
    <2> QED BY <2>1 DEF RecentInv, OnChain, Permanent, Rooted
  <1> QED BY <1>1, <1>2

\* The node's steps.
LEMMA NodeRecent ==
  ASSUME Bounded, OneGenesis, TypeInv, TypeInv', ShapeInv, RankInv, RecentInv,
         NodeStep, number[tip] <= number[tip']
  PROVE  RecentInv'
  <1>1. /\ [ChainNext]_chainVars
        /\ UNCHANGED <<db, current_branch, initial_blocknr, saved, pc, resume,
                       safe, target, batch, max_block_height, head>>
    BY DEF NodeStep, fetcherVars, memory, locals
  <1>2. ASSUME NEW n, Permanent(n)
        PROVE  Permanent(n)' /\ chainTo[tip'][n] = chainTo[tip][n]
    BY <1>1, <1>2, NodeKeeps
  <1>3. ASSUME pc = "forward", NEW i \in 1..Len(batch)
        PROVE  batch[i] = chainTo[tip'][number[batch[i]]]
    <2>1. batch[i] \in Block /\ number[batch[i]] \in Nat /\ target \in Nat
      BY TipTypes, ElementOfSeq DEF TypeInv, TypeOK
    <2>2. number[batch[i]] <= target /\ Permanent(target)
      BY <1>3 DEF RankInv, RecentInv
    <2>3. Permanent(number[batch[i]])
      BY <2>1, <2>2, PermanentBelow
    <2> QED BY <1>2, <1>3, <2>3 DEF RecentInv
  <1>4. OnChain(current_branch, initial_blocknr)'
    <2>1. CASE current_branch = <<>>
      BY <1>1, <2>1 DEF OnChain
    <2>2. CASE current_branch # <<>>
      <3>1. Permanent(initial_blocknr)
        BY <2>2 DEF ShapeInv, MemoryShape, BranchShape, RecentInv
      <3> QED BY <1>1, <1>2, <3>1 DEF OnChain, RecentInv
    <2> QED BY <2>1, <2>2
  <1>5. OnChain(saved.current_branch, saved.initial_blocknr)'
    <2>1. CASE saved.current_branch = <<>>
      BY <1>1, <2>1 DEF OnChain
    <2>2. CASE saved.current_branch # <<>>
      <3>1. Permanent(saved.initial_blocknr)
        BY <2>2 DEF ShapeInv, SavedShape, BranchShape, RecentInv
      <3> QED BY <1>1, <1>2, <3>1 DEF OnChain, RecentInv
    <2> QED BY <2>1, <2>2
  <1>6. max_block_height \in Nat /\ number[tip] \in Nat /\ number[tip'] \in Nat
    BY TipTypes, ChainAssumption DEF TypeInv, TypeOK, ChainTypeOK
  <1>7. /\ db' # {} => Permanent(initial_blocknr)'
        /\ saved'.db # {} => Permanent(saved.initial_blocknr)'
        /\ pc' = "safe" => Permanent(safe)'
        /\ pc' = "forward" => Permanent(target)'
    BY <1>1, <1>2 DEF RecentInv
  <1>8. pc' \notin {"down", "epochs"} =>
          /\ max_block_height' <= number[tip']
          /\ saved'.db # {} => saved'.initial_blocknr <= max_block_height'
    BY <1>1, <1>6 DEF RecentInv
  <1>9. pc' = "forward" =>
          \A i \in 1..Len(batch') : batch'[i] = chainTo[tip'][number[batch'[i]]]
    BY <1>1, <1>3
  <1> QED BY <1>1, <1>4, <1>5, <1>7, <1>8, <1>9 DEF RecentInv, AsSaved

\* The steps of the process.
LEMMA StepRecent ==
  ASSUME Bounded, OneGenesis, TypeInv, TypeInv', ShapeInv, AtRest, RankInv,
         RecentInv, [Next]_vars, number[tip] <= number[tip']
  PROVE  RecentInv'
  <1>t. /\ number[tip] \in Nat /\ max_block_height \in Nat /\ target \in Nat
        /\ initial_blocknr \in Nat /\ saved.initial_blocknr \in Nat
        /\ safe \in Nat /\ tip \in Block
        /\ current_branch \in Seq(Block) /\ batch \in Seq(Block)
        /\ \A b \in Block : number[b] \in Nat
    BY TipTypes DEF TypeInv, TypeOK
  <1>f. FinalHeight \in Nat /\ Permanent(FinalHeight)
    <2>1. FinalHeight \in Nat
      BY TipTypes DEF FinalHeight, Larger
    <2> QED BY <2>1, FinalPermanent
  <1>1. CASE UpdateEpochs
    <2>1. saved.db # {} => saved.initial_blocknr <= number[tip]
      BY <1>t, PermanentBelow DEF RecentInv
    <2>2. AsSaved
      BY <1>1 DEF UpdateEpochs, AtRest
    <2>3. pc' \in {"resolve", "target", "parents"}
      BY <1>1 DEF UpdateEpochs
    <2>4. /\ max_block_height' = number[tip]
          /\ UNCHANGED <<tip, db, head, current_branch, initial_blocknr, saved>>
      BY <1>1 DEF UpdateEpochs, memory, chainVars
    <2> QED BY <1>t, <2>1, <2>2, <2>3, <2>4
        DEF RecentInv, OnChain, Permanent, AsSaved
  <1>2. CASE ResolveInitialBlock
    BY <1>2, DownRecent
    DEF ResolveInitialBlock, memory, chainVars, RecentInv, OnChain, Permanent
  <1>3. CASE ReadLatest
    <2>1. CASE number[initial_block] > FinalHeight
      BY <1>3, <1>f, <2>1
      DEF ReadLatest, memory, chainVars, RecentInv, OnChain, Permanent
    <2>2. CASE ~(number[initial_block] > FinalHeight)
      <3>1. initial_block \in Block /\ db = {}
        BY <1>3 DEF ReadLatest, TypeInv, Control, ShapeInv, CycleShape
      <3>2. Insert(<<initial_block>>, number[initial_block], "target")
        BY <1>3, <2>2 DEF ReadLatest
      <3>3. Permanent(number[initial_block])
        BY <1>t, <1>f, <2>2, <3>1, FinalPermanent
      <3>4. saved.db = {}
        BY <3>1 DEF RecentInv
      <3>5. initial_block \in ToSet(<<initial_block>>)
        BY DEF ToSet
      <3> QED BY <1>3, <3>2, <3>3, <3>4, <3>5, InsertRecent DEF ReadLatest
    <2> QED BY <2>1, <2>2
  <1>4. CASE FetchSafeBlock
    <2>1. CASE BlockAt(safe) = None
      BY <1>4, <2>1, DownRecent DEF FetchSafeBlock
    <2>2. CASE BlockAt(safe) # None
      <3>1. Insert(<<BlockAt(safe)>>, safe, "target") /\ Permanent(safe)
        BY <1>4, <2>2 DEF FetchSafeBlock, RecentInv
      <3>2. saved.db = {}
        BY <1>4 DEF FetchSafeBlock, RecentInv, ShapeInv, CycleShape
      <3>3. /\ number[BlockAt(safe)] = safe
            /\ BlockAt(safe) \in ToSet(<<BlockAt(safe)>>)
        BY <2>2, BlockAtNumber DEF ToSet, TypeInv, TypeOK
      <3> QED BY <1>4, <3>1, <3>2, <3>3, InsertRecent DEF FetchSafeBlock
    <2> QED BY <2>1, <2>2
  <1>5. CASE ReadTarget
    <2>1. target' \in Nat /\ target' <= FinalHeight
      BY <1>5, <1>t, <1>f DEF ReadTarget, Smaller
    <2>2. Permanent(target')
      BY <2>1, FinalPermanent
    <2>3. Permanent(target)'
      BY <1>5, <2>2 DEF ReadTarget, chainVars, Permanent
    <2>4. batch = <<>>
      BY <1>5 DEF ReadTarget, ShapeInv, CycleShape
    <2> QED BY <1>5, <2>3, <2>4
        DEF ReadTarget, memory, chainVars, RecentInv, OnChain, Permanent, AsSaved
  <1>6. CASE FetchForward
    <2> DEFINE b == BlockAt(NextForward)
    <2>1. b \in Block /\ number[b] = NextForward /\ b = chainTo[tip][NextForward]
      BY <1>6, BlockAtNumber DEF FetchForward, ForwardDone, TypeInv, TypeOK, BlockAt
    <2>2. batch' = Append(batch, b) /\ b = chainTo[tip][number[b]]
      BY <1>6, <2>1 DEF FetchForward
    <2> HIDE DEF b
    <2>3. \A i \in 1..Len(batch') : \/ i \in 1..Len(batch) /\ batch'[i] = batch[i]
                                    \/ batch'[i] = b
      BY <1>t, <2>1, <2>2
    <2>4. \A i \in 1..Len(batch') : batch'[i] = chainTo[tip][number[batch'[i]]]
      BY <1>6, <2>2, <2>3 DEF FetchForward, RecentInv
    <2> QED BY <1>6, <2>4
        DEF FetchForward, memory, chainVars, RecentInv, OnChain, Permanent, AsSaved
  <1>7. CASE InsertForward
    <2>1. CASE batch = <<>>
      BY <1>7, <2>1
      DEF InsertForward, memory, locals, chainVars, RecentInv, OnChain, Permanent
    <2>2. CASE batch # <<>>
      BY <1>7, <2>2, InsertRecent
      DEF InsertForward, ShapeInv, CycleShape, RecentInv, Rooted
    <2> QED BY <2>1, <2>2
  <1>8. CASE FetchBranchHead
    <2> DEFINE b == BlockAt(max_block_height)
    <2>1. CASE (\E e : Down(e)) \/ UNCHANGED current_branch
      BY <1>8, <2>1, DownRecent
      DEF FetchBranchHead, memory, locals, chainVars, RecentInv, OnChain, Permanent
    <2>2. CASE ~((\E e : Down(e)) \/ UNCHANGED current_branch)
      <3>1. b # None /\ ~(number[b] < initial_blocknr)
            /\ current_branch' = <<b>> /\ pc' = "parents"
            /\ UNCHANGED <<tip, db, initial_blocknr, saved, max_block_height>>
        BY <1>8, <2>2 DEF FetchBranchHead, memory, chainVars
      <3>2. b \in Block /\ number[b] = max_block_height
            /\ b = chainTo[tip][max_block_height]
            /\ max_block_height \in 0..number[tip]
        BY <3>1, BlockAtNumber DEF TypeInv, TypeOK, BlockAt
      <3>3. initial_blocknr \in 0..max_block_height
        BY <1>t, <3>1, <3>2
      <3>4. chainTo[b][initial_blocknr] = chainTo[tip][initial_blocknr]
        BY <1>t, <3>2, <3>3, ChainFacts
      <3> HIDE DEF b
      <3>5. OnChain(current_branch', initial_blocknr)
        BY <3>1, <3>4 DEF OnChain
      <3> QED BY <1>8, <3>1, <3>5
          DEF FetchBranchHead, RecentInv, OnChain, Permanent
    <2> QED BY <2>1, <2>2
  <1>9. CASE FetchParent
    <2> DEFINE l == Last(current_branch)
               p == BlockByHash(parent[l])
    <2>1. CASE \E e : Down(e)
      BY <2>1, DownRecent
    <2>2. CASE ~ \E e : Down(e)
      <3>1. /\ p # None /\ ~(number[p] < initial_blocknr)
            /\ current_branch' = Append(current_branch, p)
            /\ current_branch # <<>> /\ pc = "parents"
            /\ UNCHANGED <<tip, db, initial_blocknr, saved, pc, max_block_height>>
        BY <1>9, <2>2 DEF FetchParent, chainVars, TypeInv, Control
      <3>2. p \in Block /\ p = parent[l]
        BY <3>1, BlockByHashType DEF TypeInv, TypeOK
      <3>3. l \in Block /\ \E i \in 1..Len(current_branch) : l = current_branch[i]
        <4>1. Len(current_branch) \in 1..Len(current_branch)
          BY <1>t, <3>1, EmptySeq, LenProperties
        <4> QED BY <1>t, <3>1, <4>1, LastInSet DEF Last
      <3>4. chainTo[l][initial_blocknr] = chainTo[tip][initial_blocknr]
        BY <3>3 DEF RecentInv, OnChain
      <3>5. number[l] > 0 /\ number[p] = number[l] - 1
        BY <3>2, <3>3, ParentNumber
      <3>6. p = chainTo[l][number[p]] /\ number[p] \in 0..number[l]
        <4>1. number[l] \in 0..number[l] /\ number[p] \in 0..number[l]
          BY <1>t, <3>2, <3>3, <3>5
        <4>2. parent[chainTo[l][number[l]]] = chainTo[l][number[l] - 1]
              /\ chainTo[l][number[l]] = l
          BY <3>3, <3>5, <4>1, ChainFacts
        <4> QED BY <3>2, <3>5, <4>1, <4>2
      <3>7. initial_blocknr \in 0..number[p]
        BY <1>t, <3>1, <3>2
      <3>8. chainTo[p][initial_blocknr] = chainTo[l][initial_blocknr]
        BY <3>3, <3>6, <3>7, ChainFacts
      <3> HIDE DEF p, l
      <3>9. \A i \in 1..Len(current_branch') :
              \/ i \in 1..Len(current_branch) /\ current_branch'[i] = current_branch[i]
              \/ current_branch'[i] = p
        BY <1>t, <3>1, <3>2
      <3>10. OnChain(current_branch', initial_blocknr)
        BY <3>4, <3>8, <3>9 DEF OnChain, RecentInv
      <3> QED BY <3>1, <3>10 DEF RecentInv, OnChain, Permanent
    <2> QED BY <2>1, <2>2
  <1>10. CASE InsertBackward
    <2>1. CASE ~BranchComplete
      BY <1>10, <2>1
      DEF InsertBackward, memory, locals, chainVars, RecentInv, OnChain, Permanent
    <2>2. CASE BranchComplete
      <3>1. Insert(Reverse(current_branch), initial_blocknr, "commit")
        BY <1>10, <2>2 DEF InsertBackward
      <3>2. db # {}
        BY <2>2 DEF BranchComplete
      <3> QED BY <1>10, <3>1, <3>2, InsertRecent
          DEF InsertBackward, RecentInv, Rooted
    <2> QED BY <2>1, <2>2
  <1>11. CASE RunCallback
    <2>1. \/ pc' = "callbacks"
          \/ pc' = resume /\ resume \in {"target", "branch", "commit"}
      BY <1>11 DEF RunCallback, TypeInv, TypeOK
    <2> QED BY <1>11, <2>1
        DEF RunCallback, chainVars, RecentInv, OnChain, Permanent
  <1>12. CASE Commit
    BY <1>12 DEF Commit, memory, chainVars, RecentInv, OnChain, Permanent
  <1>13. CASE Kill
    BY <1>13, DownRecent DEF Kill
  <1>14. CASE Restart \/ UNCHANGED vars
    BY <1>14 DEF Restart, vars, fetcherVars, chainVars, memory, locals, RecentInv,
                 OnChain, Permanent, AsSaved
  <1>15. CASE NodeStep
    BY <1>15, NodeRecent
  <1> QED BY <1>1, <1>2, <1>3, <1>4, <1>5, <1>6, <1>7, <1>8, <1>9, <1>10, <1>11,
             <1>12, <1>13, <1>14, <1>15 DEF Next, CycleStep

-----------------------------------------------------------------------------
(* How a cycle can fail.                                                   *)

FailInv == FailureExplained /\ (error # "none" => pc = "down")

\* The block the synchronisation started from is lost when the node's chain
\* has another one at its height.
LEMMA LostBlock ==
  ASSUME NEW t \in Block, NEW n \in 0..number[t], NEW d
  PROVE  (\A b \in d \cap Chain(t) : number[b] # n) <=> chainTo[t][n] \notin d
  <1>1. number[chainTo[t][n]] = n /\ chainTo[t][n] \in Chain(t)
    BY ChainFacts DEF Chain
  <1>2. \A b \in Chain(t) : number[b] = n => b = chainTo[t][n]
    BY ChainFacts DEF Chain
  <1> QED BY <1>1, <1>2

\* A failure has to be explained when it happens; saved values do not change.
LEMMA DownExplained ==
  ASSUME NEW e, Down(e),
         e \notin {"NotConnected", "AlreadyExists", "BlockNotFound"},
         e = "UnknownBase" => Wedged \/ saved.db = {},
         e = "ForkBeforeInitial" => InitialLost \/ saved.db = {}
  PROVE  FailInv'
  BY DEF Down, FailInv, FailureExplained, Wedged, InitialLost, BlockAt, Chain,
         chainVars

\* A piece that is linked and new can only fail for want of its parent.
LEMMA InsertExplained ==
  ASSUME FailInv, pc # "down", NEW bs, NEW initial, NEW next,
         Insert(bs, initial, next), Connected(bs), Insertable(bs, db),
         ~BaseKnown(bs, initial, db) => Wedged \/ saved.db = {}
  PROVE  FailInv'
  <1>1. CASE ~BaseKnown(bs, initial, db)
    BY <1>1, DownExplained DEF Insert
  <1>2. CASE BaseKnown(bs, initial, db)
    BY <1>2 DEF Insert, FailInv, FailureExplained
  <1> QED BY <1>1, <1>2

\* A first block is refused only if it is not there.
LEMMA FirstBlockExplained ==
  ASSUME FailInv, pc # "down", db = {}, NEW b \in Block, NEW next,
         Insert(<<b>>, number[b], next)
  PROVE  FailInv'
  <1>1. Len(<<b>>) = 1 /\ <<b>>[1] = b
    OBVIOUS
  <1>2. Connected(<<b>>) /\ Insertable(<<b>>, db) /\ BaseKnown(<<b>>, number[b], db)
    BY <1>1 DEF Connected, Insertable, BaseKnown
  <1> QED BY <1>2, InsertExplained

\* The forward sync fails only on a head that is wedged.
LEMMA ForwardExplained ==
  ASSUME TypeInv, ShapeInv, RankInv, RecentInv, FailInv, InsertForward,
         batch # <<>>
  PROVE  FailInv'
  <1>1. /\ Insert(batch, initial_blocknr, "branch") /\ pc = "forward"
        /\ db # {} /\ current_branch = <<>>
    BY DEF InsertForward, ShapeInv, CycleShape
  <1>2. /\ batch \in Seq(Block) /\ db \subseteq Block /\ target \in Nat
        /\ saved.db \subseteq Block
        /\ \A b \in Block : number[b] \in Nat
        /\ number[tip] \in Nat /\ MaxReorgDepth \in Nat /\ None \notin Block
    BY TipTypes DEF TypeInv, TypeOK
  <1>3. head \in db /\ head \in Block /\ number[head] \in Nat
    BY <1>1, <1>2 DEF ShapeInv, MemoryShape, HeadShape
  <1>4. Len(batch) \in Nat \ {0} /\ DOMAIN batch = 1..Len(batch)
    BY <1>2, EmptySeq, LenProperties
  <1>5. ASSUME NEW i \in 1..Len(batch)
        PROVE  /\ batch[i] \in Block
               /\ number[batch[i]] = number[head] + i
               /\ number[batch[i]] <= target
               /\ batch[i] = chainTo[tip][number[head] + i]
               /\ number[head] + i \in 0..number[tip]
    <2>1. batch[i] \in Block
      BY <1>2, ElementOfSeq
    <2>2. number[batch[i]] = number[head] + i /\ number[batch[i]] <= target
      BY <1>1 DEF ShapeInv, CycleShape, RankInv
    <2>3. Permanent(target)
      BY <1>1 DEF RecentInv
    <2>4. number[batch[i]] \in 0..number[tip]
      BY <1>2, <2>1, <2>2, <2>3, PermanentBelow
    <2>5. batch[i] = chainTo[tip][number[batch[i]]]
      BY <1>1 DEF RecentInv
    <2> QED BY <2>1, <2>2, <2>4, <2>5
  <1>6. Connected(batch)
    <2> SUFFICES ASSUME NEW i \in 1..(Len(batch) - 1)
                 PROVE  parent[batch[i + 1]] = batch[i]
      BY DEF Connected
    <2>1. i \in 1..Len(batch) /\ i + 1 \in 1..Len(batch)
      BY <1>4
    <2>2. /\ batch[i + 1] = chainTo[tip][number[head] + (i + 1)]
          /\ batch[i] = chainTo[tip][number[head] + i]
          /\ number[head] + (i + 1) \in 0..number[tip]
      BY <1>5, <2>1
    <2>3. number[head] + (i + 1) > 0 /\ (number[head] + (i + 1)) - 1 = number[head] + i
      BY <1>3, <2>1
    <2>4. parent[chainTo[tip][number[head] + (i + 1)]]
          = chainTo[tip][(number[head] + (i + 1)) - 1]
      BY <2>2, <2>3, ChainFacts, TipTypes
    <2> QED BY <2>2, <2>3, <2>4
  <1>7. Insertable(batch, db)
    <2> SUFFICES ASSUME NEW i \in 1..Len(batch), batch[i] \in db
                 PROVE  FALSE
      BY <1>4 DEF Insertable, ToSet
    <2>1. number[batch[i]] <= number[head]
      BY DEF RankInv, RankShape
    <2> QED BY <1>3, <1>5, <2>1
  <1>8. ASSUME ~BaseKnown(batch, initial_blocknr, db), saved.db # {}
        PROVE  Wedged
    <2>1. AsSaved
      BY <1>1, <1>8 DEF RecentInv
    <2>2. parent[batch[1]] \notin db
      BY <1>8 DEF BaseKnown
    <2>3. 1 \in 1..Len(batch)
      BY <1>4
    <2>4. /\ number[head] + 1 \in 0..number[tip]
          /\ batch[1] = BlockAt(number[head] + 1)
          /\ number[head] + 1 <= target
      BY <1>5, <2>3 DEF BlockAt
    <2>5. number[head] + 1 \in Nat \ {0} /\ Permanent(target)
      BY <1>1, <1>3 DEF RecentInv
    <2>6. Permanent(number[head] + 1)
      BY <1>2, <2>4, <2>5, PermanentBelow
    <2>7. number[head] + 1 <= number[tip] - MaxReorgDepth
      BY <1>2, <2>5, <2>6 DEF Permanent
    <2> QED BY <1>1, <1>2, <1>3, <2>1, <2>2, <2>4, <2>7 DEF Wedged, AsSaved
  <1> QED BY <1>1, <1>6, <1>7, <1>8, InsertExplained

\* The next parent of a branch is always served.
LEMMA ParentExplained ==
  ASSUME OneGenesis, TypeInv, ShapeInv, ServedInv, RecentInv, FailInv, FetchParent
  PROVE  FailInv'
  <1> DEFINE l == Last(current_branch)
             p == BlockByHash(parent[l])
             n == Len(current_branch)
  <1>1. pc = "parents" /\ parent[l] \notin db /\ current_branch # <<>>
    BY DEF FetchParent, BranchComplete, TypeInv, Control
  <1>2. /\ current_branch \in Seq(Block) /\ db \subseteq Block
        /\ initial_blocknr \in Nat /\ tip \in Block /\ number[tip] \in Nat
        /\ \A b \in Block : number[b] \in Nat
    BY TipTypes DEF TypeInv, TypeOK
  <1>3. n \in 1..n /\ l = current_branch[n] /\ l \in Block
    BY <1>1, <1>2, EmptySeq, LenProperties, LastInSet DEF Last
  <1>4. l \notin db /\ number[l] >= initial_blocknr /\ db # {} /\ l \in served
    <2>1. l \in ToSet(current_branch)
      BY <1>1, <1>2, LastInSet
    <2> QED BY <1>1, <1>3, <2>1
        DEF ShapeInv, MemoryShape, BranchShape, ServedInv, FetchedInv
  <1>5. Permanent(initial_blocknr) /\ initial_blocknr \in 0..number[tip]
    BY <1>2, <1>4, PermanentBelow DEF RecentInv
  <1>6. chainTo[l][initial_blocknr] = chainTo[tip][initial_blocknr]
    BY <1>3 DEF RecentInv, OnChain
  <1>7. number[l] = initial_blocknr => l = chainTo[tip][initial_blocknr]
    BY <1>3, <1>6, ChainFacts, ChainAssumption
  <1>8. CASE ~ \E e : Down(e)
    BY <1>8 DEF FetchParent, FailInv, FailureExplained
  <1>9. CASE \E e : Down(e)
    <2>1. p # None
      <3>1. CASE number[l] > 0
        BY <1>4, <3>1, ChainAssumption
        DEF ServedInv, ParentsServed, BlockByHash, TypeInv, TypeOK, ChainTypeOK
      <3>2. CASE number[l] = 0
        <4>1. initial_blocknr = 0
          BY <1>2, <1>4, <3>2
        <4>2. PICK r \in db : number[r] = 0
          BY <1>4, <4>1 DEF RecentInv, Rooted
        <4> QED BY <1>2, <1>3, <1>4, <3>2, <4>2 DEF OneGenesis
      <3> QED BY <1>2, <1>3, <3>1, <3>2
    <2>2. Down("ForkBeforeInitial") /\ number[p] < initial_blocknr
      BY <1>9, <2>1 DEF FetchParent, Down
    <2>3. p \in Block /\ p = parent[l]
      BY <2>1, BlockByHashType DEF TypeInv, TypeOK
    <2>4. number[p] = number[l] - 1 /\ number[l] \in Nat /\ number[p] \in Nat
      BY <1>2, <1>3, <2>3, ParentNumber
    <2>5. l = chainTo[tip][initial_blocknr]
      BY <1>2, <1>4, <1>7, <2>2, <2>4
    <2>6. ASSUME saved.db # {} PROVE InitialLost
      <3>1. saved.db \subseteq db /\ initial_blocknr = saved.initial_blocknr
        BY <2>6 DEF RecentInv
      <3>2. chainTo[tip][saved.initial_blocknr] \notin saved.db
        BY <1>4, <2>5, <3>1
      <3> QED BY <1>2, <1>5, <2>6, <3>1, <3>2, LostBlock DEF InitialLost
    <2> QED BY <2>2, <2>6, DownExplained
  <1> QED BY <1>8, <1>9

\* The block at the height limit is there to start a branch from.
LEMMA BranchHeadExplained ==
  ASSUME TypeInv, RecentInv, FailInv, FetchBranchHead
  PROVE  FailInv'
  <1> DEFINE b == BlockAt(max_block_height)
  <1>1. /\ max_block_height \in Nat /\ number[tip] \in Nat /\ tip \in Block
        /\ max_block_height <= number[tip]
        /\ initial_blocknr \in Nat /\ saved.initial_blocknr \in Nat
    BY TipTypes DEF FetchBranchHead, TypeInv, TypeOK, RecentInv
  <1>2. b \in Block /\ b # None /\ number[b] = max_block_height
    BY <1>1, ChainFacts, TipTypes DEF BlockAt
  <1>3. CASE ~ \E e : Down(e)
    BY <1>2, <1>3
    DEF FetchBranchHead, FailInv, FailureExplained, locals
  <1>4. CASE \E e : Down(e)
    <2>1. budget # 0
      BY <1>4 DEF FetchBranchHead, Down
    <2>2. Down("ForkBeforeInitial") /\ number[b] < initial_blocknr
      BY <1>2, <1>4, <2>1 DEF FetchBranchHead, Down
    <2>3. saved.db = {}
      BY <1>1, <1>2, <2>2 DEF FetchBranchHead, RecentInv
    <2> QED BY <2>2, <2>3, DownExplained
  <1> QED BY <1>3, <1>4

\* A complete branch has its base in the database.
LEMMA BackwardExplained ==
  ASSUME TypeInv, ShapeInv, FailInv, InsertBackward, BranchComplete
  PROVE  FailInv'
  <1> DEFINE cb == current_branch
             r == Reverse(cb)
             n == Len(cb)
  <1>1. /\ Insert(r, initial_blocknr, "commit") /\ pc = "parents"
        /\ parent[Last(cb)] \in db
    BY DEF InsertBackward, BranchComplete
  <1>2. cb # <<>> /\ cb \in Seq(Block) /\ n \in Nat \ {0} /\ DOMAIN cb = 1..n
    BY <1>1, EmptySeq, LenProperties DEF TypeInv, TypeOK, Control
  <1>3. DOMAIN r = 1..n /\ \A i \in 1..n : r[i] = cb[(n - i) + 1]
    BY <1>2 DEF Reverse
  <1>4. Len(r) = n
    BY <1>2, <1>3
  <1> HIDE DEF r
  <1>5. Connected(r)
    <2> SUFFICES ASSUME NEW i \in 1..(n - 1)
                 PROVE  parent[r[i + 1]] = r[i]
      BY <1>4 DEF Connected
    <2>1. i \in 1..n /\ i + 1 \in 1..n /\ n - i \in 1..(n - 1)
          /\ (n - (i + 1)) + 1 = n - i
      BY <1>2
    <2>2. r[i + 1] = cb[n - i] /\ r[i] = cb[(n - i) + 1]
      BY <1>3, <2>1
    <2>3. cb[(n - i) + 1] = parent[cb[n - i]]
      BY <2>1 DEF ShapeInv, MemoryShape, BranchShape
    <2> QED BY <2>2, <2>3
  <1>6. Insertable(r, db)
    <2>1. ToSet(r) = ToSet(cb)
      BY <1>2, ReverseSet DEF r
    <2>2. \A i \in 1..n : cb[i] \notin db
      BY DEF ShapeInv, MemoryShape, BranchShape
    <2>3. ToSet(cb) \cap db = {}
      BY <1>2, <2>2 DEF ToSet
    <2> QED BY <2>1, <2>3 DEF Insertable
  <1>7. BaseKnown(r, initial_blocknr, db)
    <2>1. 1 \in 1..n /\ (n - 1) + 1 = n
      BY <1>2
    <2>2. r[1] = Last(cb)
      BY <1>3, <2>1 DEF Last
    <2> QED BY <1>1, <2>2 DEF BaseKnown
  <1> QED BY <1>1, <1>5, <1>6, <1>7, InsertExplained

\* What a failure is put down to outlasts the node's steps.
LEMMA NodeExplained ==
  ASSUME Bounded, OneGenesis, TypeInv, TypeInv', ShapeInv, RecentInv, FailInv,
         NodeStep, number[tip] <= number[tip']
  PROVE  FailInv'
  <1>1. [ChainNext]_chainVars /\ UNCHANGED <<saved, pc, error>>
    BY DEF NodeStep, fetcherVars
  <1>2. Wedged => Wedged'
    BY <1>1, NodeWedged
  <1>3. InitialLost => InitialLost'
    <2> SUFFICES ASSUME InitialLost PROVE InitialLost'
      OBVIOUS
    <2> DEFINE n == saved.initial_blocknr
    <2>1. saved.db # {} /\ Permanent(n) /\ n \in Nat
      BY DEF InitialLost, RecentInv, TypeInv, TypeOK
    <2>2. tip \in Block /\ tip' \in Block /\ number[tip] \in Nat /\ number[tip'] \in Nat
      BY ChainAssumption DEF TypeInv, TypeOK, ChainTypeOK
    <2>3. n \in 0..number[tip] /\ n \in 0..number[tip']
      BY <2>1, <2>2, PermanentBelow
    <2>4. chainTo[tip'][n] = chainTo[tip][n]
      BY <1>1, <2>1, NodeKeeps
    <2>5. chainTo[tip][n] \notin saved.db
      BY <2>2, <2>3, LostBlock DEF InitialLost
    <2>6. \A b \in saved.db \cap Chain(tip') : number[b] # n
      BY <2>2, <2>3, <2>4, <2>5, LostBlock
    <2>7. (\A b \in saved.db \cap Chain(tip) : number[b] # saved.initial_blocknr)'
      BY <1>1, <2>6 DEF Chain
    <2> QED BY <1>1, <2>1, <2>7 DEF InitialLost
  <1> QED BY <1>1, <1>2, <1>3 DEF FailInv, FailureExplained

\* Every failure is one of those that are explained.
LEMMA StepExplained ==
  ASSUME Bounded, OneGenesis, TypeInv, TypeInv', ShapeInv, ServedInv, RankInv,
         RecentInv, FailInv, [Next]_vars, number[tip] <= number[tip']
  PROVE  FailInv'
  <1>1. CASE UpdateEpochs \/ ReadTarget \/ FetchForward \/ Commit
    BY <1>1 DEF UpdateEpochs, ReadTarget, FetchForward, Commit, FailInv,
                FailureExplained
  <1>2. CASE ResolveInitialBlock
    BY <1>2, DownExplained DEF ResolveInitialBlock, FailInv, FailureExplained
  <1>3. CASE ReadLatest
    <2>1. pc = "latest" /\ initial_block \in Block /\ db = {}
      BY <1>3 DEF ReadLatest, TypeInv, Control, ShapeInv, CycleShape
    <2> QED BY <1>3, <2>1, FirstBlockExplained
        DEF ReadLatest, FailInv, FailureExplained
  <1>4. CASE FetchSafeBlock
    <2>1. pc = "safe" /\ db = {} /\ Permanent(safe) /\ safe \in Nat /\ tip \in Block
      BY <1>4, TipTypes
      DEF FetchSafeBlock, ShapeInv, CycleShape, RecentInv, TypeInv, TypeOK
    <2>2. safe \in 0..number[tip]
      BY <2>1, PermanentBelow
    <2>3. BlockAt(safe) \in Block /\ number[BlockAt(safe)] = safe
      BY <2>1, <2>2, ChainFacts DEF BlockAt
    <2> QED BY <1>4, <2>1, <2>3, FirstBlockExplained, TipTypes DEF FetchSafeBlock
  <1>5. CASE InsertForward
    <2>1. CASE batch = <<>>
      BY <1>5, <2>1 DEF InsertForward, FailInv, FailureExplained
    <2> QED BY <1>5, <2>1, ForwardExplained
  <1>6. CASE FetchBranchHead
    BY <1>6, BranchHeadExplained
  <1>7. CASE FetchParent
    BY <1>7, ParentExplained
  <1>8. CASE InsertBackward
    <2>1. CASE ~BranchComplete
      BY <1>8, <2>1 DEF InsertBackward, FailInv, FailureExplained
    <2> QED BY <1>8, <2>1, BackwardExplained
  <1>9. CASE RunCallback
    BY <1>9 DEF RunCallback, FailInv, FailureExplained
  <1>10. CASE Kill
    BY <1>10, DownExplained DEF Kill
  <1>11. CASE Restart
    BY <1>11 DEF Restart, FailInv, FailureExplained
  <1>12. CASE NodeStep
    BY <1>12, NodeExplained
  <1>13. CASE UNCHANGED vars
    BY <1>13 DEF vars, fetcherVars, chainVars, FailInv, FailureExplained, Wedged,
                 InitialLost, BlockAt, Chain
  <1> QED BY <1>1, <1>2, <1>3, <1>4, <1>5, <1>6, <1>7, <1>8, <1>9, <1>10, <1>11,
             <1>12, <1>13 DEF Next, CycleStep

\* With reorganisations within the monitor's limit, a cycle that goes on from
\* a committed state fails only because that is wedged or the initial block
\* was lost: nothing the node does between two requests of a cycle disconnects
\* a piece, repeats a block or makes one disappear.
THEOREM FailureExplainedHolds ==
  ASSUME Bounded, OneGenesis
  PROVE  Spec => []FailureExplained
  <1> DEFINE Known4 == TypeInv /\ ShapeInv /\ ServedInv /\ AtRest /\ RankInv
  <1>1. Init => RecentInv /\ FailInv
    BY InitRecent DEF Init, FetcherInit, FailInv, FailureExplained
  <1>2. Known4 /\ TypeInv' /\ RecentInv /\ FailInv /\ [Next]_vars
        => RecentInv' /\ FailInv'
    <2> SUFFICES ASSUME Known4, TypeInv', RecentInv, FailInv, [Next]_vars
                 PROVE  RecentInv' /\ FailInv'
      OBVIOUS
    <2>1. number[tip] <= number[tip']
      BY StepServed DEF Bounded
    <2> QED BY <2>1, StepRecent, StepExplained
  <1>3. Spec => []Known4
    BY RankHolds DEF Bounded
  <1>4. FailInv => FailureExplained
    BY DEF FailInv
  <1>5. Known4 => TypeInv
    OBVIOUS
  <1> HIDE DEF Known4
  <1> QED BY <1>1, <1>2, <1>3, <1>4, <1>5, PTL DEF Spec
=============================================================================
