------------------------- MODULE BlockFetcherProofs -------------------------
(***************************************************************************)
(* Theorems about BlockFetcher: its types, the shape of the database and   *)
(* of the branch kept over cycles, and that it implements BlockFeed.  They *)
(* hold for every tree of blocks, every depth and budget, and whatever the *)
(* node does, reorganisations of any depth and resets included.            *)
(***************************************************************************)
EXTENDS BlockFetcher, SequenceTheorems, TLAPS

-----------------------------------------------------------------------------
(* The node's chain.                                                       *)

\* getBlock(number) answers with the canonical block of that number, or None.
LEMMA BlockAtNumber ==
  ASSUME ChainTypeOK, NEW n
  PROVE  /\ BlockAt(n) \in Block \cup {None}
         /\ BlockAt(n) # None => BlockAt(n) \in Block /\ number[BlockAt(n)] = n
  BY ChainAssumption DEF BlockAt, ChainTypeOK

\* getBlock(hash) answers with the block of that hash, or None.
LEMMA BlockByHashType ==
  ASSUME ChainTypeOK, NEW b
  PROVE  /\ BlockByHash(b) \in Block \cup {None}
         /\ BlockByHash(b) # None => BlockByHash(b) \in Block /\ BlockByHash(b) = b
  BY ChainAssumption DEF BlockByHash, ChainTypeOK

\* A chain consists of blocks.
LEMMA ChainOfBlocks == \A b \in Block : Chain(b) \subseteq Block
  <1>1. ASSUME NEW b \in Block, NEW n \in 0..number[b]
        PROVE  chainTo[b][n] \in Block
    <2>1. chainTo[b] \in [0..number[b] -> Block]
      BY ChainAssumption
    <2> QED BY <2>1
  <1> QED BY <1>1 DEF Chain

\* A block's parent has the number below the block's.
LEMMA ParentNumber ==
  ASSUME NEW b \in Block, parent[b] \in Block
  PROVE  number[b] > 0 /\ number[parent[b]] = number[b] - 1
  <1>1. number[b] \in Nat /\ number[b] # 0
    BY ChainAssumption
  <1>2. number[b] \in 0..number[b] /\ number[b] - 1 \in 0..number[b] /\ number[b] > 0
    BY <1>1
  <1>3. parent[chainTo[b][number[b]]] = chainTo[b][number[b] - 1]
    BY <1>2, ChainAssumption
  <1>4. number[chainTo[b][number[b] - 1]] = number[b] - 1
    BY <1>2, ChainAssumption
  <1>5. chainTo[b][number[b]] = b
    BY ChainAssumption
  <1> QED BY <1>2, <1>3, <1>4, <1>5

-----------------------------------------------------------------------------
(* Types.  TypeOK is inductive once it is known what a cycle's program     *)
(* counter says of the values it goes on with.                             *)

Control ==
  /\ pc = "latest" => initial_block \in Block
  /\ pc = "parents" => current_branch # <<>>

TypeInv == TypeOK /\ Control

\* A failing cycle leaves well-typed variables behind.
LEMMA DownTypes ==
  ASSUME TypeInv, NEW e \in Error, Down(e)
  PROVE  TypeInv'
  BY DEF TypeInv, Control, TypeOK, ChainTypeOK, chainVars, Down, LocalsReset, PC

\* So does the insertion of a branch, whether it succeeds or fails.
LEMMA InsertTypes ==
  ASSUME TypeInv,
         NEW bs \in Seq(Block), bs # <<>>,
         NEW initial \in Nat,
         NEW next \in {"target", "branch", "commit"},
         Insert(bs, initial, next)
  PROVE  TypeInv'
  <1>1. CASE \E e \in Error : Down(e)
    BY <1>1, DownTypes
  <1>2. CASE ~ \E e \in Error : Down(e)
    <2>1. /\ db' = db \cup ToSet(bs)
          /\ head' = NewHead(bs)
          /\ current_branch' = <<>>
          /\ initial_blocknr' = initial
          /\ batch' = <<>>
          /\ queue' = bs
          /\ resume' = next
          /\ pc' = "callbacks"
          /\ UNCHANGED <<chainVars, delivered, saved, error, max_block_height,
                         budget, target, initial_block, safe>>
      BY <1>2 DEF Insert, Error
    <2>2. ToSet(bs) \in SUBSET Block /\ NewHead(bs) \in Block
      BY DEF ToSet, NewHead, Last
    <2> QED BY <2>1, <2>2 DEF TypeInv, Control, TypeOK, ChainTypeOK, chainVars, PC
  <1> QED BY <1>1, <1>2

\* The initial state is well typed.
LEMMA InitTypes == Init => TypeInv
  BY ChainAssumption
  DEF Init, ChainInit, FetcherInit, FreshState, TypeInv, Control, TypeOK,
      ChainTypeOK, Chain, PC, Error

\* Every step keeps the types.
LEMMA StepTypes == TypeInv /\ [Next]_vars => TypeInv'
  <1> SUFFICES ASSUME TypeInv, [Next]_vars PROVE TypeInv'
    OBVIOUS
  <1> USE DEF TypeInv
  <1>t. /\ \A b \in Block : number[b] \in Nat
        /\ None \notin Block
    BY ChainAssumption
  <1>1. CASE UpdateEpochs
    BY <1>1, <1>t, FetcherAssumption
    DEF UpdateEpochs, Control, TypeOK, ChainTypeOK, chainVars, memory, PC
  <1>2. CASE ResolveInitialBlock
    <2>1. PICK n \in SyncFrom :
            IF BlockAt(n) = None THEN Down("NoInitialBlock")
            ELSE /\ initial_block' = BlockAt(n)
                 /\ pc' = "latest"
                 /\ UNCHANGED <<chainVars, memory, saved, error,
                                max_block_height, budget, target, batch, safe,
                                queue, resume>>
      BY <1>2 DEF ResolveInitialBlock
    <2>2. CASE BlockAt(n) = None
      BY <2>1, <2>2, DownTypes DEF Error
    <2>3. CASE BlockAt(n) # None
      <3>1. BlockAt(n) \in Block
        BY <2>3, BlockAtNumber DEF TypeOK
      <3> QED BY <2>1, <2>3, <3>1 DEF Control, TypeOK, ChainTypeOK, chainVars, memory, PC
    <2> QED BY <2>2, <2>3
  <1>3. CASE ReadLatest
    <2>1. initial_block \in Block
      BY <1>3 DEF ReadLatest, Control
    <2>2. FinalHeight \in Nat
      BY <1>t, FetcherAssumption DEF FinalHeight, Larger, TypeOK, ChainTypeOK
    <2>3. CASE number[initial_block] > FinalHeight
      BY <1>3, <2>2, <2>3
      DEF ReadLatest, Control, TypeOK, ChainTypeOK, chainVars, memory, PC
    <2>4. CASE ~(number[initial_block] > FinalHeight)
      <3>1. Insert(<<initial_block>>, number[initial_block], "target")
        BY <1>3, <2>4 DEF ReadLatest
      <3>2. <<initial_block>> \in Seq(Block) /\ <<initial_block>> # <<>>
        BY <2>1
      <3> QED BY <3>1, <3>2, <2>1, <1>t, InsertTypes
    <2> QED BY <2>3, <2>4
  <1>4. CASE FetchSafeBlock
    <2>1. CASE BlockAt(safe) = None
      BY <1>4, <2>1, DownTypes DEF FetchSafeBlock, Error
    <2>2. CASE BlockAt(safe) # None
      <3>1. BlockAt(safe) \in Block
        BY <2>2, BlockAtNumber DEF TypeOK
      <3>2. <<BlockAt(safe)>> \in Seq(Block) /\ <<BlockAt(safe)>> # <<>>
        BY <3>1
      <3> QED BY <1>4, <2>2, <3>2, InsertTypes DEF FetchSafeBlock, TypeOK
    <2> QED BY <2>1, <2>2
  <1>5. CASE ReadTarget
    <2>1. FinalHeight \in Nat
      BY <1>t, FetcherAssumption DEF FinalHeight, Larger, TypeOK, ChainTypeOK
    <2> QED BY <1>5, <2>1
      DEF ReadTarget, Smaller, Control, TypeOK, ChainTypeOK, chainVars, memory, PC
  <1>6. CASE FetchForward
    <2>1. BlockAt(NextForward) \in Block
      BY <1>6, BlockAtNumber DEF FetchForward, ForwardDone, TypeOK
    <2>2. budget - 1 \in Nat
      BY <1>6 DEF FetchForward, ForwardDone, TypeOK
    <2> QED BY <1>6, <2>1, <2>2
      DEF FetchForward, Control, TypeOK, ChainTypeOK, chainVars, memory, PC
  <1>7. CASE InsertForward
    <2>1. CASE batch = <<>>
      BY <1>7, <2>1
      DEF InsertForward, Control, TypeOK, ChainTypeOK, chainVars, memory, locals, PC
    <2>2. CASE batch # <<>>
      BY <1>7, <2>2, InsertTypes DEF InsertForward, TypeOK
    <2> QED BY <2>1, <2>2
  <1>8. CASE FetchBranchHead
    <2> DEFINE b == BlockAt(max_block_height)
    <2>1. CASE budget = 0
      BY <1>8, <2>1
      DEF FetchBranchHead, Control, TypeOK, ChainTypeOK, chainVars, memory, locals, PC
    <2>2. CASE budget # 0 /\ (b = None \/ number[b] < initial_blocknr)
      BY <1>8, <2>2, DownTypes DEF FetchBranchHead, Error
    <2>3. CASE budget # 0 /\ b # None /\ ~(number[b] < initial_blocknr)
      <3>1. b \in Block
        BY <2>3, BlockAtNumber DEF TypeOK
      <3>2. budget - 1 \in Nat
        BY <2>3 DEF TypeOK
      <3>3. /\ \/ pc' = "commit" /\ UNCHANGED <<current_branch, budget>>
               \/ /\ current_branch' = <<b>>
                  /\ budget' = budget - 1
                  /\ pc' = "parents"
            /\ UNCHANGED <<chainVars, db, head, initial_blocknr, delivered,
                           saved, error, max_block_height, target, batch,
                           initial_block, safe, queue, resume>>
        BY <1>8, <2>3 DEF FetchBranchHead
      <3>4. <<b>> \in Seq(Block) /\ <<b>> # <<>>
        BY <3>1
      <3> HIDE DEF b
      <3> QED BY <3>2, <3>3, <3>4 DEF Control, TypeOK, ChainTypeOK, chainVars, PC
    <2> QED BY <2>1, <2>2, <2>3
  <1>9. CASE FetchParent
    <2> DEFINE p == BlockByHash(parent[Last(current_branch)])
    <2>1. CASE p = None \/ number[p] < initial_blocknr
      BY <1>9, <2>1, DownTypes DEF FetchParent, Error
    <2>2. CASE p # None /\ ~(number[p] < initial_blocknr)
      <3>1. p \in Block
        BY <2>2, BlockByHashType DEF TypeOK
      <3>2. budget - 1 \in Nat
        BY <1>9 DEF FetchParent, TypeOK
      <3>3. /\ current_branch' = Append(current_branch, p)
            /\ budget' = budget - 1
            /\ UNCHANGED <<chainVars, db, head, initial_blocknr, delivered,
                           saved, pc, error, max_block_height, target, batch,
                           initial_block, safe, queue, resume>>
        BY <1>9, <2>2 DEF FetchParent
      <3>4. /\ Append(current_branch, p) \in Seq(Block)
            /\ Append(current_branch, p) # <<>>
        <4>1. current_branch \in Seq(Block)
          BY DEF TypeOK
        <4> HIDE DEF p
        <4> QED BY <3>1, <4>1, AppendProperties, EmptySeq
      <3> HIDE DEF p
      <3> QED BY <3>2, <3>3, <3>4 DEF Control, TypeOK, ChainTypeOK, chainVars, PC
    <2> QED BY <2>1, <2>2
  <1>10. CASE InsertBackward
    <2>1. CASE BranchComplete
      <3>1. /\ Reverse(current_branch) \in Seq(Block)
            /\ Reverse(current_branch) # <<>>
        BY <1>10 DEF InsertBackward, Control, TypeOK, Reverse
      <3> QED BY <1>10, <2>1, <3>1, InsertTypes DEF InsertBackward, TypeOK
    <2>2. CASE ~BranchComplete
      BY <1>10, <2>2
      DEF InsertBackward, Control, TypeOK, ChainTypeOK, chainVars, memory, locals, PC
    <2> QED BY <2>1, <2>2
  <1>11. CASE RunCallback
    <2>1. Head(queue) \in Block /\ Tail(queue) \in Seq(Block)
      BY <1>11 DEF RunCallback, TypeOK
    <2>2. Append(delivered, Head(queue)) \in Seq(Block)
      BY <2>1 DEF TypeOK
    <2> QED BY <1>11, <2>1, <2>2
      DEF RunCallback, Control, TypeOK, ChainTypeOK, chainVars, PC
  <1>12. CASE Commit
    BY <1>12
    DEF Commit, LocalsReset, Control, TypeOK, ChainTypeOK, chainVars, memory, PC
  <1>13. CASE Restart
    BY <1>13
    DEF Restart, Control, TypeOK, ChainTypeOK, chainVars, memory, locals, PC, Error
  <1>14. CASE Kill
    BY <1>14, DownTypes DEF Kill, Error
  <1>15. CASE NodeStep
    <2>1. ChainTypeOK'
      <3> QED BY <1>15, ChainOfBlocks
        DEF NodeStep, ChainNext, Import, Reset, ChainTypeOK, TypeOK
    <2> QED BY <1>15, <2>1
      DEF NodeStep, fetcherVars, memory, locals, Control, TypeOK
  <1>16. CASE UNCHANGED vars
    BY <1>16
    DEF vars, fetcherVars, chainVars, memory, locals, Control, TypeOK, ChainTypeOK
  <1> QED
    BY <1>1, <1>2, <1>3, <1>4, <1>5, <1>6, <1>7, <1>8, <1>9, <1>10, <1>11,
       <1>12, <1>13, <1>14, <1>15, <1>16 DEF Next, CycleStep

\* The types hold throughout ...
LEMMA TypesHold == Spec => []TypeInv
  BY InitTypes, StepTypes, PTL DEF Spec

\* Every variable keeps its type, whatever the node does: among others the
\* budget of a cycle never goes below zero and every fetched piece consists of
\* blocks, never of the None of a missing block.
THEOREM TypeCorrect == Spec => []TypeOK
  <1>1. TypeInv => TypeOK
    BY DEF TypeInv
  <1> QED BY <1>1, TypesHold, PTL

-----------------------------------------------------------------------------
(* The shape of the database, of the branch and of the deliveries.  OneTree *)
(* is not inductive: a branch fits the tree because of what was checked     *)
(* when each of its blocks was fetched, in this cycle or in earlier ones.   *)
(* Numbers stand in for an induction along the parents: a fetched piece is  *)
(* numbered consecutively.                                                  *)

\* A set of blocks d that is one tree from the number init on.
TreeShape(d, init) ==
  /\ \A b \in d : number[b] >= init
  /\ \A b \in d : parent[b] \in d \/ number[b] = init
  /\ \A b, c \in d : number[b] = init /\ number[c] = init => b = c

HeadShape(h, d) == IF d = {} THEN h = None ELSE h \in d

\* A branch cb that a later cycle can complete and insert into d.
BranchShape(cb, d, init) ==
  /\ \A i \in 1..Len(cb) : /\ number[cb[i]] = number[cb[1]] - (i - 1)
                           /\ number[cb[i]] >= init
                           /\ cb[i] \notin d
  /\ \A i \in 1..(Len(cb) - 1) : cb[i + 1] = parent[cb[i]]
  /\ d = {} => cb = <<>>

\* Of the blocks d, del has been delivered and q is next.
DeliveryShape(del, q, d) ==
  /\ ToSet(del) \cup ToSet(q) = d
  /\ ToSet(del) \cap ToSet(q) = {}
  /\ IsInjective(del) /\ IsInjective(q)
  /\ \A i \in 1..(Len(q) - 1) : parent[q[i + 1]] = q[i]
  /\ q # <<>> => del = <<>> \/ parent[q[1]] \in ToSet(del)

MemoryShape ==
  /\ TreeShape(db, initial_blocknr)
  /\ HeadShape(head, db)
  /\ BranchShape(current_branch, db, initial_blocknr)
  /\ DeliveryShape(delivered, queue, db)

SavedShape ==
  /\ TreeShape(saved.db, saved.initial_blocknr)
  /\ HeadShape(saved.head, saved.db)
  /\ BranchShape(saved.current_branch, saved.db, saved.initial_blocknr)
  /\ DeliveryShape(saved.delivered, <<>>, saved.db)

CycleShape ==
  /\ pc \in {"resolve", "latest", "safe"} => db = {}
  /\ pc \in {"target", "forward", "branch"} => db # {} /\ current_branch = <<>>
  /\ pc = "callbacks" => db # {} /\ current_branch = <<>> /\ queue # <<>>
  /\ pc # "callbacks" => queue = <<>>
  /\ pc = "forward" =>
       \A i \in 1..Len(batch) : number[batch[i]] = number[head] + i
  /\ pc # "forward" => batch = <<>>

ShapeInv == MemoryShape /\ SavedShape /\ CycleShape

-----------------------------------------------------------------------------
(* Lemmas about the pieces.                                                *)

\* The number of the i-th block of a piece of consecutive blocks.
Ascending(bs) == \A i \in 1..Len(bs) : number[bs[i]] = number[bs[1]] + (i - 1)

\* A piece of consecutive blocks repeats none.
LEMMA AscendingInjective ==
  ASSUME NEW bs \in Seq(Block), Ascending(bs)
  PROVE  IsInjective(bs)
  <1> SUFFICES ASSUME NEW i \in 1..Len(bs), NEW j \in 1..Len(bs), bs[i] = bs[j]
               PROVE  i = j
    BY DEF IsInjective
  <1>1. /\ number[bs[i]] = number[bs[1]] + (i - 1)
        /\ number[bs[j]] = number[bs[1]] + (j - 1)
    BY DEF Ascending
  <1>2. bs[1] \in Block /\ number[bs[1]] \in Nat
    <2>1. bs[1] \in Block
      OBVIOUS
    <2> QED BY <2>1, ChainAssumption
  <1> QED BY <1>1, <1>2

\* Adding a connected piece to a tree from one of its blocks, or starting a
\* tree with one block, makes a tree.
LEMMA TreeGrows ==
  ASSUME NEW d \in SUBSET Block, NEW init \in Nat, NEW new \in Nat,
         NEW bs \in Seq(Block), bs # <<>>,
         TreeShape(d, init), Ascending(bs), Connected(bs),
         \/ d = {} /\ Len(bs) = 1 /\ number[bs[1]] = new
         \/ new = init /\ number[bs[1]] > init /\ parent[bs[1]] \in d
  PROVE  TreeShape(d \cup ToSet(bs), new)
  <1> DEFINE e == d \cup ToSet(bs)
  <1>1. ToSet(bs) = {bs[i] : i \in 1..Len(bs)} /\ Len(bs) \in Nat \ {0}
    BY EmptySeq, LenProperties DEF ToSet
  <1>2. number[bs[1]] \in Nat /\ \A b \in Block : number[b] \in Nat
    BY <1>1, ChainAssumption
  <1>3. CASE d = {} /\ Len(bs) = 1 /\ number[bs[1]] = new
    <2>1. e = {bs[1]}
      BY <1>1, <1>3
    <2> QED BY <2>1, <1>2, <1>3 DEF TreeShape
  <1>4. CASE new = init /\ number[bs[1]] > init /\ parent[bs[1]] \in d
    <2>1. \A i \in 1..Len(bs) : number[bs[i]] > init
      BY <1>2, <1>4 DEF Ascending
    <2>2. \A i \in 1..Len(bs) : parent[bs[i]] \in e
      <3> SUFFICES ASSUME NEW i \in 1..Len(bs) PROVE parent[bs[i]] \in e
        OBVIOUS
      <3>1. CASE i = 1
        BY <3>1, <1>4
      <3>2. CASE i # 1
        <4>1. i - 1 \in 1..(Len(bs) - 1) /\ (i - 1) + 1 = i
          BY <3>2, <1>1
        <4>2. parent[bs[i]] = bs[i - 1]
          BY <4>1 DEF Connected
        <4>3. i - 1 \in 1..Len(bs)
          BY <4>1, <1>1
        <4> QED BY <4>2, <4>3, <1>1
      <3> QED BY <3>1, <3>2
    <2>3. \A b \in e : b \in d \/ \E i \in 1..Len(bs) : b = bs[i]
      BY <1>1
    <2>4. \A b \in e : number[b] >= init
      <3> SUFFICES ASSUME NEW b \in e PROVE number[b] >= init
        OBVIOUS
      <3>1. CASE b \in d
        BY <3>1 DEF TreeShape
      <3>2. CASE \E i \in 1..Len(bs) : b = bs[i]
        <4>1. PICK i \in 1..Len(bs) : b = bs[i]
          BY <3>2
        <4>2. bs[i] \in Block
          BY ElementOfSeq
        <4> QED BY <4>1, <4>2, <2>1, <1>2
      <3> QED BY <3>1, <3>2, <2>3
    <2>5. \A b \in e : parent[b] \in e \/ number[b] = init
      BY <2>2, <2>3 DEF TreeShape
    <2>6. \A b, c \in e : number[b] = init /\ number[c] = init => b = c
      <3>1. \A b \in e : number[b] = init => b \in d
        BY <2>1, <2>3, <1>2, <1>4
      <3> QED BY <3>1 DEF TreeShape
    <2> QED BY <2>4, <2>5, <2>6, <1>4 DEF TreeShape
  <1> QED BY <1>3, <1>4

\* Inserting a piece that is not known yet puts it next for delivery.
LEMMA DeliveryGrows ==
  ASSUME NEW d \in SUBSET Block, NEW del \in Seq(Block),
         NEW bs \in Seq(Block), bs # <<>>,
         DeliveryShape(del, <<>>, d), Ascending(bs), Connected(bs),
         Insertable(bs, d),
         d = {} \/ parent[bs[1]] \in d
  PROVE  DeliveryShape(del, bs, d \cup ToSet(bs))
  <1>1. ToSet(<<>>) = {}
    BY DEF ToSet
  <1>2. ToSet(del) = d /\ IsInjective(del)
    BY <1>1 DEF DeliveryShape
  <1>3. IsInjective(bs)
    BY AscendingInjective
  <1>4. d = {} => del = <<>>
    <2> SUFFICES ASSUME d = {}, del # <<>> PROVE FALSE
      OBVIOUS
    <2>1. 1 \in DOMAIN del
      BY EmptySeq, LenProperties
    <2>2. del[1] \in ToSet(del)
      BY <2>1 DEF ToSet
    <2> QED BY <2>2, <1>2
  <1> QED BY <1>2, <1>3, <1>4 DEF DeliveryShape, Connected, Insertable

\* Delivering the next block keeps the order and repeats no block.
LEMMA DeliveryMoves ==
  ASSUME NEW d \in SUBSET Block, NEW del \in Seq(Block),
         NEW q \in Seq(Block), q # <<>>, DeliveryShape(del, q, d)
  PROVE  DeliveryShape(Append(del, Head(q)), Tail(q), d)
  <1> DEFINE h == Head(q)
             t == Tail(q)
             a == Append(del, h)
  <1>1. /\ h = q[1] /\ h \in Block
        /\ t \in Seq(Block) /\ Len(t) = Len(q) - 1
        /\ \A i \in 1..Len(t) : t[i] = q[i + 1]
        /\ Len(q) \in Nat \ {0}
    BY HeadTailProperties, EmptySeq
  <1>2. /\ a \in Seq(Block) /\ Len(a) = Len(del) + 1
        /\ \A i \in 1..Len(del) : a[i] = del[i]
        /\ a[Len(del) + 1] = h
        /\ Len(del) \in Nat
    BY <1>1, AppendProperties, LenProperties
  <1>3. /\ DOMAIN q = 1..Len(q) /\ DOMAIN t = 1..Len(t)
        /\ DOMAIN a = 1..Len(a) /\ DOMAIN del = 1..Len(del)
    BY <1>1, <1>2, LenProperties
  <1> HIDE DEF h, t, a
  <1>4. ToSet(a) = ToSet(del) \cup {h}
    <2>1. 1..Len(a) = (1..Len(del)) \cup {Len(del) + 1}
      BY <1>2
    <2> QED BY <2>1, <1>2, <1>3 DEF ToSet
  <1>5. ToSet(q) = {h} \cup ToSet(t)
    <2>1. \A i \in 1..Len(q) : i = 1 \/ (i - 1 \in 1..Len(t) /\ t[i - 1] = q[i])
      BY <1>1
    <2>2. \A i \in 1..Len(t) : i + 1 \in 1..Len(q) /\ t[i] = q[i + 1]
      BY <1>1
    <2>3. 1 \in 1..Len(q)
      BY <1>1
    <2>4. ToSet(q) = {q[i] : i \in 1..Len(q)} /\ ToSet(t) = {t[i] : i \in 1..Len(t)}
      BY <1>3 DEF ToSet
    <2>5. ASSUME NEW x \in ToSet(q) PROVE x \in {h} \cup ToSet(t)
      BY <2>1, <2>4, <2>5, <1>1
    <2>6. ASSUME NEW x \in {h} \cup ToSet(t) PROVE x \in ToSet(q)
      BY <2>2, <2>3, <2>4, <2>6, <1>1
    <2> QED BY <2>5, <2>6
  <1>6. \A i \in 1..Len(t) : t[i] # h
    <2> SUFFICES ASSUME NEW i \in 1..Len(t), t[i] = h PROVE FALSE
      OBVIOUS
    <2>1. i + 1 \in 1..Len(q) /\ 1 \in 1..Len(q) /\ q[i + 1] = q[1]
      BY <1>1
    <2>2. i + 1 = 1
      BY <2>1, <1>3 DEF DeliveryShape, IsInjective
    <2> QED BY <2>2
  <1>7. h \notin ToSet(t)
    BY <1>6, <1>3 DEF ToSet
  <1>8. h \notin ToSet(del)
    BY <1>5 DEF DeliveryShape
  <1>9. IsInjective(t)
    <2> SUFFICES ASSUME NEW i \in 1..Len(t), NEW j \in 1..Len(t), t[i] = t[j]
                 PROVE  i = j
      BY <1>3 DEF IsInjective
    <2>1. i + 1 \in 1..Len(q) /\ j + 1 \in 1..Len(q) /\ q[i + 1] = q[j + 1]
      BY <1>1
    <2>2. i + 1 = j + 1
      BY <2>1, <1>3 DEF DeliveryShape, IsInjective
    <2> QED BY <2>2
  <1>10. IsInjective(a)
    <2>1. \A i \in 1..Len(del) : del[i] # h
      BY <1>8, <1>3 DEF ToSet
    <2> SUFFICES ASSUME NEW i \in 1..Len(a), NEW j \in 1..Len(a), a[i] = a[j]
                 PROVE  i = j
      BY <1>3 DEF IsInjective
    <2>2. CASE i \in 1..Len(del) /\ j \in 1..Len(del)
      BY <2>2, <1>2, <1>3 DEF DeliveryShape, IsInjective
    <2>3. CASE i = Len(del) + 1 \/ j = Len(del) + 1
      BY <2>1, <2>3, <1>2
    <2> QED BY <2>2, <2>3, <1>2
  <1>11. \A i \in 1..(Len(t) - 1) : parent[t[i + 1]] = t[i]
    <2> SUFFICES ASSUME NEW i \in 1..(Len(t) - 1) PROVE parent[t[i + 1]] = t[i]
      OBVIOUS
    <2>1. /\ i + 1 \in 1..(Len(q) - 1) /\ i \in 1..Len(t) /\ i + 1 \in 1..Len(t)
      BY <1>1
    <2>2. parent[q[(i + 1) + 1]] = q[i + 1]
      BY <2>1 DEF DeliveryShape
    <2> QED BY <2>1, <2>2, <1>1
  <1>12. t # <<>> => parent[t[1]] \in ToSet(a)
    <2> SUFFICES ASSUME t # <<>> PROVE parent[t[1]] \in ToSet(a)
      OBVIOUS
    <2>1. Len(t) \in Nat \ {0}
      BY <1>1, EmptySeq
    <2>2. 1 \in 1..(Len(q) - 1) /\ t[1] = q[1 + 1]
      BY <2>1, <1>1
    <2>3. parent[q[1 + 1]] = q[1]
      BY <2>2 DEF DeliveryShape
    <2> QED BY <2>2, <2>3, <1>1, <1>4
  <1>13. ToSet(a) \cup ToSet(t) = d /\ ToSet(a) \cap ToSet(t) = {}
    BY <1>4, <1>5, <1>7, <1>8 DEF DeliveryShape
  <1>14. DeliveryShape(a, t, d)
    BY <1>9, <1>10, <1>11, <1>12, <1>13 DEF DeliveryShape
  <1> QED BY <1>14 DEF a, h, t

-----------------------------------------------------------------------------
(* The shape is kept by every step.                                        *)

\* A failing cycle falls back to a committed state of the right shape.
LEMMA DownShape ==
  ASSUME ShapeInv, NEW e, Down(e)
  PROVE  ShapeInv'
  BY DEF ShapeInv, MemoryShape, SavedShape, CycleShape, Down, LocalsReset

\* What an insertion that succeeds does, and that there is no third way.
LEMMA InsertCases ==
  ASSUME NEW bs, NEW initial, NEW next, Insert(bs, initial, next)
  PROVE  \/ \E e \in Error : Down(e)
         \/ /\ BaseKnown(bs, initial, db) /\ Connected(bs) /\ Insertable(bs, db)
            /\ db' = db \cup ToSet(bs)
            /\ head' = NewHead(bs)
            /\ current_branch' = <<>>
            /\ initial_blocknr' = initial
            /\ batch' = <<>>
            /\ queue' = bs
            /\ pc' = "callbacks"
            /\ UNCHANGED <<delivered, saved>>
  BY DEF Insert, Error

\* The insertion of consecutive blocks keeps the shape: the first block of
\* all, or a piece that starts above the initial block.
LEMMA InsertShape ==
  ASSUME TypeInv, ShapeInv, queue = <<>>,
         NEW bs \in Seq(Block), bs # <<>>, Ascending(bs),
         NEW initial \in Nat, NEW next,
         Insert(bs, initial, next),
         \/ db = {} /\ Len(bs) = 1 /\ number[bs[1]] = initial
         \/ db # {} /\ initial = initial_blocknr /\ number[bs[1]] > initial
  PROVE  ShapeInv'
  <1>1. CASE \E e \in Error : Down(e)
    BY <1>1, DownShape
  <1>2. CASE ~ \E e \in Error : Down(e)
    <2>1. /\ BaseKnown(bs, initial, db) /\ Connected(bs) /\ Insertable(bs, db)
          /\ db' = db \cup ToSet(bs)
          /\ head' = NewHead(bs)
          /\ current_branch' = <<>>
          /\ initial_blocknr' = initial
          /\ batch' = <<>>
          /\ queue' = bs
          /\ pc' = "callbacks"
          /\ UNCHANGED <<delivered, saved>>
      BY <1>2, InsertCases
    <2>2. /\ db \in SUBSET Block /\ initial_blocknr \in Nat
          /\ delivered \in Seq(Block)
      BY DEF TypeInv, TypeOK
    <2>3. TreeShape(db, initial_blocknr) /\ DeliveryShape(delivered, <<>>, db)
      BY DEF ShapeInv, MemoryShape
    <2>4. db # {} => parent[bs[1]] \in db
      <3>1. db # {} => number[bs[1]] \notin {0, initial}
        <4>1. bs[1] \in Block
          BY EmptySeq, ElementOfSeq
        <4>2. number[bs[1]] \in Nat
          BY <4>1, ChainAssumption
        <4> QED BY <4>2
      <3> QED BY <3>1, <2>1 DEF BaseKnown
    <2>5. TreeShape(db \cup ToSet(bs), initial)
      BY <2>1, <2>2, <2>3, <2>4, TreeGrows
    <2>6. DeliveryShape(delivered, bs, db \cup ToSet(bs))
      BY <2>1, <2>2, <2>3, <2>4, DeliveryGrows
    <2>7. NewHead(bs) \in ToSet(bs)
      <3>1. Len(bs) \in 1..Len(bs) /\ DOMAIN bs = 1..Len(bs)
        BY EmptySeq, LenProperties
      <3> QED BY <3>1 DEF NewHead, Last, ToSet
    <2>8. MemoryShape'
      <3>1. BranchShape(<<>>, db', initial_blocknr')
        BY DEF BranchShape
      <3> QED BY <2>1, <2>5, <2>6, <2>7, <3>1 DEF MemoryShape, HeadShape
    <2>9. SavedShape'
      BY <2>1 DEF ShapeInv, SavedShape
    <2>10. CycleShape'
      BY <2>1, <2>7 DEF CycleShape
    <2> QED BY <2>8, <2>9, <2>10 DEF ShapeInv
  <1> QED BY <1>1, <1>2

\* A piece of one block.
LEMMA Singleton ==
  ASSUME NEW b \in Block
  PROVE  /\ <<b>> \in Seq(Block) /\ <<b>> # <<>> /\ Len(<<b>>) = 1
         /\ <<b>>[1] = b /\ Ascending(<<b>>) /\ number[b] \in Nat
  <1>1. number[b] \in Nat
    BY ChainAssumption
  <1> QED BY <1>1 DEF Ascending

\* The initial state has the shape.
LEMMA InitShape == Init => ShapeInv
  <1> SUFFICES ASSUME Init PROVE ShapeInv
    OBVIOUS
  <1>1. ToSet(<<>>) = {} /\ IsInjective(<<>>)
    BY DEF ToSet, IsInjective
  <1>2. DeliveryShape(<<>>, <<>>, {})
    BY <1>1 DEF DeliveryShape
  <1>3. /\ BranchShape(<<>>, {}, 0)
        /\ TreeShape({}, 0)
        /\ HeadShape(None, {})
    BY DEF BranchShape, TreeShape, HeadShape
  <1> QED BY <1>2, <1>3
    DEF Init, FetcherInit, FreshState, ShapeInv, MemoryShape, SavedShape, CycleShape

\* The forward sync collects the blocks after the head one by one.
LEMMA FetchForwardShape ==
  ASSUME TypeInv, ShapeInv, FetchForward
  PROVE  ShapeInv'
  <1> DEFINE b == BlockAt(NextForward)
  <1>1. b \in Block /\ number[b] = NextForward
    BY BlockAtNumber DEF FetchForward, ForwardDone, TypeInv, TypeOK
  <1>2. batch \in Seq(Block) /\ Len(batch) \in Nat
    BY LenProperties DEF TypeInv, TypeOK
  <1>3. /\ Len(Append(batch, b)) = Len(batch) + 1
        /\ \A i \in 1..Len(batch) : Append(batch, b)[i] = batch[i]
        /\ Append(batch, b)[Len(batch) + 1] = b
    BY <1>1, <1>2, AppendProperties
  <1>4. number[b] = number[head] + (Len(batch) + 1)
    <2>1. number[head] \in Nat
      <3>1. head \in db /\ db \subseteq Block
        BY DEF FetchForward, TypeInv, TypeOK, ShapeInv, MemoryShape, HeadShape,
               CycleShape
      <3> QED BY <3>1, ChainAssumption
    <2> QED BY <2>1, <1>1, <1>2 DEF NextForward
  <1>5. \A i \in 1..Len(batch) : number[batch[i]] = number[head] + i
    BY DEF FetchForward, ShapeInv, CycleShape
  <1>6. batch' = Append(batch, b) /\ UNCHANGED <<memory, saved, pc, queue>>
    BY DEF FetchForward
  <1> HIDE DEF b
  <1>7. \A i \in 1..Len(batch') : number[batch'[i]] = number[head] + i
    <2>1. \A i \in 1..(Len(batch) + 1) : i \in 1..Len(batch) \/ i = Len(batch) + 1
      BY <1>2
    <2> QED BY <2>1, <1>3, <1>4, <1>5, <1>6
  <1>8. MemoryShape' /\ SavedShape'
    BY <1>6 DEF ShapeInv, MemoryShape, SavedShape, memory
  <1>9. CycleShape'
    BY <1>6, <1>7 DEF FetchForward, ShapeInv, CycleShape, memory
  <1> QED BY <1>8, <1>9 DEF ShapeInv

\* What the forward sync has collected goes on from the head.
LEMMA InsertForwardShape ==
  ASSUME TypeInv, ShapeInv, InsertForward
  PROVE  ShapeInv'
  <1>1. CASE batch = <<>>
    BY <1>1
    DEF InsertForward, ShapeInv, MemoryShape, SavedShape, CycleShape, memory, locals
  <1>2. CASE batch # <<>>
    <2>1. Insert(batch, initial_blocknr, "branch")
      BY <1>2 DEF InsertForward
    <2>2. batch \in Seq(Block) /\ initial_blocknr \in Nat /\ db \subseteq Block
      BY DEF TypeInv, TypeOK
    <2>3. db # {} /\ queue = <<>> /\ head \in db
      BY DEF InsertForward, ShapeInv, MemoryShape, HeadShape, CycleShape
    <2>4. number[head] \in Nat /\ number[head] >= initial_blocknr
      BY <2>2, <2>3, ChainAssumption DEF ShapeInv, MemoryShape, TreeShape
    <2>5. \A i \in 1..Len(batch) : number[batch[i]] = number[head] + i
      BY DEF InsertForward, ShapeInv, CycleShape
    <2>6. 1 \in 1..Len(batch)
      BY <1>2, <2>2, EmptySeq
    <2>7. number[batch[1]] = number[head] + 1
      BY <2>5, <2>6
    <2>8. Ascending(batch)
      BY <2>4, <2>5, <2>7 DEF Ascending
    <2>9. number[batch[1]] > initial_blocknr
      BY <2>2, <2>4, <2>7
    <2> QED BY <1>2, <2>1, <2>2, <2>3, <2>8, <2>9, InsertShape
  <1> QED BY <1>1, <1>2

\* A new branch starts with an unknown block that is not too low.
LEMMA FetchBranchHeadShape ==
  ASSUME TypeInv, ShapeInv, FetchBranchHead
  PROVE  ShapeInv'
  <1> DEFINE b == BlockAt(max_block_height)
  <1>1. CASE budget = 0
    BY <1>1
    DEF FetchBranchHead, ShapeInv, MemoryShape, SavedShape, CycleShape, memory, locals
  <1>2. CASE budget # 0 /\ (b = None \/ number[b] < initial_blocknr)
    BY <1>2, DownShape DEF FetchBranchHead
  <1>3. CASE budget # 0 /\ b # None /\ ~(number[b] < initial_blocknr)
    <2>1. b \in Block /\ number[b] \in Nat /\ initial_blocknr \in Nat
      BY <1>3, BlockAtNumber, ChainAssumption DEF TypeInv, TypeOK
    <2>2. UNCHANGED <<db, head, initial_blocknr, delivered, saved, batch, queue>>
      BY <1>3 DEF FetchBranchHead
    <2>3. \/ b \in db /\ pc' = "commit" /\ UNCHANGED current_branch
          \/ b \notin db /\ pc' = "parents" /\ current_branch' = <<b>>
      BY <1>3 DEF FetchBranchHead, Known
    <2>4. db # {} /\ queue = <<>> /\ batch = <<>>
      BY DEF FetchBranchHead, ShapeInv, CycleShape
    <2>5. BranchShape(current_branch', db, initial_blocknr)
      <3>1. CASE UNCHANGED current_branch
        BY <3>1 DEF ShapeInv, MemoryShape
      <3>2. CASE b \notin db /\ current_branch' = <<b>>
        <4>1. /\ Len(<<b>>) = 1 /\ <<b>>[1] = b
              /\ 1..1 = {1} /\ 1..(1 - 1) = {}
          OBVIOUS
        <4> HIDE DEF b
        <4>2. BranchShape(<<b>>, db, initial_blocknr)
          BY <4>1, <3>2, <2>1, <2>4, <1>3 DEF BranchShape
        <4> QED BY <4>2, <3>2
      <3> QED BY <3>1, <3>2, <2>3
    <2>6. MemoryShape' /\ SavedShape'
      BY <2>2, <2>5 DEF ShapeInv, MemoryShape, SavedShape
    <2>7. CycleShape'
      BY <2>2, <2>3, <2>4 DEF CycleShape
    <2> QED BY <2>6, <2>7 DEF ShapeInv
  <1> QED BY <1>1, <1>2, <1>3

\* The branch is extended by the parent of its oldest block.
LEMMA FetchParentShape ==
  ASSUME TypeInv, ShapeInv, FetchParent
  PROVE  ShapeInv'
  <1> DEFINE cb == current_branch
             q == parent[Last(cb)]
             p == BlockByHash(q)
  <1>1. CASE p = None \/ number[p] < initial_blocknr
    BY <1>1, DownShape DEF FetchParent
  <1>2. CASE p # None /\ ~(number[p] < initial_blocknr)
    <2>1. p \in Block /\ p = q
      BY <1>2, BlockByHashType DEF TypeInv, TypeOK
    <2>2. cb \in Seq(Block) /\ cb # <<>> /\ initial_blocknr \in Nat
      BY DEF TypeInv, TypeOK, Control, FetchParent
    <2>3. Len(cb) \in Nat \ {0} /\ Last(cb) = cb[Len(cb)] /\ Last(cb) \in Block
      BY <2>2, EmptySeq, ElementOfSeq DEF Last
    <2>4. number[Last(cb)] = number[cb[1]] - (Len(cb) - 1)
      BY <2>3 DEF ShapeInv, MemoryShape, BranchShape
    <2>5. number[p] = number[Last(cb)] - 1 /\ number[p] >= initial_blocknr
      <3>1. number[p] = number[Last(cb)] - 1
        BY <2>1, <2>3, ParentNumber
      <3>2. number[p] \in Nat
        BY <2>1, ChainAssumption
      <3> QED BY <3>1, <3>2, <2>2, <1>2
    <2>6. number[p] = number[cb[1]] - Len(cb)
      <3>1. cb[1] \in Block
        BY <2>2, <2>3, ElementOfSeq
      <3>2. number[cb[1]] \in Nat
        BY <3>1, ChainAssumption
      <3> QED BY <3>2, <2>3, <2>4, <2>5
    <2>7. p \notin db
      BY <2>1 DEF FetchParent, BranchComplete
    <2>8. /\ Len(Append(cb, p)) = Len(cb) + 1
          /\ \A i \in 1..Len(cb) : Append(cb, p)[i] = cb[i]
          /\ Append(cb, p)[Len(cb) + 1] = p
      BY <2>1, <2>2, AppendProperties
    <2>9. /\ current_branch' = Append(cb, p)
          /\ UNCHANGED <<db, head, initial_blocknr, delivered, saved, pc, batch,
                         queue>>
      BY <1>2 DEF FetchParent
    <2>10. /\ BranchShape(cb, db, initial_blocknr)
           /\ p = parent[cb[Len(cb)]]
      BY <2>1, <2>3 DEF ShapeInv, MemoryShape
    <2> HIDE DEF p, q
    <2>11. BranchShape(Append(cb, p), db, initial_blocknr)
      <3> DEFINE a == Append(cb, p)
      <3>1. 1 \in 1..Len(cb) /\ a[1] = cb[1]
        BY <2>3, <2>8
      <3>2. \A i \in 1..Len(a) : i \in 1..Len(cb) \/ i = Len(cb) + 1
        BY <2>3, <2>8
      <3>3. ASSUME NEW i \in 1..Len(a)
            PROVE  /\ number[a[i]] = number[a[1]] - (i - 1)
                   /\ number[a[i]] >= initial_blocknr
                   /\ a[i] \notin db
        <4>1. CASE i \in 1..Len(cb)
          BY <4>1, <3>1, <2>8, <2>10 DEF BranchShape
        <4>2. CASE i = Len(cb) + 1
          <5>1. i - 1 = Len(cb)
            BY <4>2, <2>3
          <5> QED BY <4>2, <5>1, <3>1, <2>5, <2>6, <2>7, <2>8
        <4> QED BY <4>1, <4>2, <3>2
      <3>4. ASSUME NEW i \in 1..(Len(a) - 1)
            PROVE  a[i + 1] = parent[a[i]]
        <4>1. i \in 1..Len(cb) /\ a[i] = cb[i]
          BY <2>3, <2>8
        <4>2. CASE i = Len(cb)
          BY <4>1, <4>2, <2>8, <2>10
        <4>3. CASE i # Len(cb)
          <5>1. i \in 1..(Len(cb) - 1) /\ i + 1 \in 1..Len(cb)
            BY <4>1, <4>3, <2>3
          <5> QED BY <4>1, <5>1, <2>8, <2>10 DEF BranchShape
        <4> QED BY <4>2, <4>3
      <3>5. db # {}
        BY <2>2, <2>10 DEF BranchShape
      <3> QED BY <3>3, <3>4, <3>5 DEF BranchShape
    <2>12. MemoryShape' /\ SavedShape'
      BY <2>9, <2>11 DEF ShapeInv, MemoryShape, SavedShape
    <2>13. CycleShape'
      BY <2>9 DEF FetchParent, ShapeInv, CycleShape
    <2> QED BY <2>12, <2>13 DEF ShapeInv
  <1> QED BY <1>1, <1>2

\* A complete branch goes on from the known parent of its oldest block.
LEMMA InsertBackwardShape ==
  ASSUME TypeInv, ShapeInv, InsertBackward
  PROVE  ShapeInv'
  <1> DEFINE cb == current_branch
             r == Reverse(cb)
             n == Len(cb)
  <1>1. CASE BranchComplete
    <2>1. cb \in Seq(Block) /\ cb # <<>> /\ initial_blocknr \in Nat
          /\ db \subseteq Block
      BY DEF InsertBackward, TypeInv, TypeOK, Control
    <2>2. n \in Nat \ {0}
      BY <2>1, EmptySeq
    <2>3. /\ r = [i \in 1..n |-> cb[n - i + 1]]
          /\ r \in Seq(Block) /\ r # <<>> /\ Len(r) = n
      BY <2>1, <2>2 DEF Reverse
    <2>4. BranchShape(cb, db, initial_blocknr) /\ db # {}
      BY <2>1 DEF ShapeInv, MemoryShape, BranchShape
    <2>5. \A i \in 1..n : cb[i] \in Block /\ number[cb[i]] \in Nat
      <3>1. \A i \in 1..n : cb[i] \in Block
        BY <2>1, ElementOfSeq
      <3> QED BY <3>1, ChainAssumption
    <2>6. \A i \in 1..n : number[cb[i]] = number[cb[1]] - (i - 1)
      BY <2>4 DEF BranchShape
    <2>7. \A i \in 1..n : n - i + 1 \in 1..n /\ r[i] = cb[n - i + 1]
      BY <2>2, <2>3
    <2>8. Ascending(r)
      <3> SUFFICES ASSUME NEW i \in 1..n
                   PROVE  number[r[i]] = number[r[1]] + (i - 1)
        BY <2>3 DEF Ascending
      <3>1. 1 \in 1..n /\ n \in 1..n /\ r[1] = cb[n]
        BY <2>2, <2>7
      <3>2. number[r[1]] = number[cb[1]] - (n - 1)
        BY <3>1, <2>6
      <3>3. number[r[i]] = number[cb[1]] - ((n - i + 1) - 1)
        BY <2>6, <2>7
      <3>4. number[cb[1]] \in Nat
        BY <3>1, <2>5
      <3> QED BY <3>2, <3>3, <3>4, <2>2
    <2>9. number[r[1]] > initial_blocknr
      <3>1. r[1] = cb[n] /\ cb[n] \in Block /\ number[cb[n]] \in Nat
        <4>1. 1 \in 1..n /\ n \in 1..n /\ n - 1 + 1 = n
          BY <2>2
        <4> QED BY <4>1, <2>5, <2>7
      <3>2. parent[cb[n]] \in db
        BY <1>1 DEF BranchComplete, Last
      <3>3. number[parent[cb[n]]] = number[cb[n]] - 1
        BY <3>1, <3>2, <2>1, ParentNumber
      <3>4. number[parent[cb[n]]] >= initial_blocknr
        BY <3>2 DEF ShapeInv, MemoryShape, TreeShape
      <3> QED BY <3>1, <3>3, <3>4, <2>1
    <2>10. queue = <<>>
      BY DEF InsertBackward, ShapeInv, CycleShape
    <2>11. Insert(r, initial_blocknr, "commit")
      BY <1>1 DEF InsertBackward
    <2> HIDE DEF r
    <2> QED BY <2>1, <2>3, <2>4, <2>8, <2>9, <2>10, <2>11, InsertShape
  <1>2. CASE ~BranchComplete
    BY <1>2
    DEF InsertBackward, ShapeInv, MemoryShape, SavedShape, CycleShape, memory, locals
  <1> QED BY <1>1, <1>2

\* The first block: it is inserted into an empty database under its number.
LEMMA FirstBlockShape ==
  ASSUME TypeInv, ShapeInv, ReadLatest \/ FetchSafeBlock
  PROVE  ShapeInv'
  <1>1. db = {} /\ queue = <<>>
    BY DEF ReadLatest, FetchSafeBlock, ShapeInv, CycleShape
  <1>2. CASE ReadLatest
    <2>1. CASE number[initial_block] > FinalHeight
      BY <1>1, <1>2, <2>1
      DEF ReadLatest, ShapeInv, MemoryShape, SavedShape, CycleShape, memory
    <2>2. CASE ~(number[initial_block] > FinalHeight)
      <3>1. initial_block \in Block
        BY <1>2 DEF ReadLatest, TypeInv, Control
      <3>2. Insert(<<initial_block>>, number[initial_block], "target")
        BY <1>2, <2>2 DEF ReadLatest
      <3> QED BY <1>1, <3>1, <3>2, Singleton, InsertShape
    <2> QED BY <2>1, <2>2
  <1>3. CASE FetchSafeBlock
    <2>1. CASE BlockAt(safe) = None
      BY <1>3, <2>1, DownShape DEF FetchSafeBlock
    <2>2. CASE BlockAt(safe) # None
      <3>1. BlockAt(safe) \in Block /\ number[BlockAt(safe)] = safe
        BY <2>2, BlockAtNumber DEF TypeInv, TypeOK
      <3>2. Insert(<<BlockAt(safe)>>, safe, "target")
        BY <1>3, <2>2 DEF FetchSafeBlock
      <3> QED BY <1>1, <3>1, <3>2, Singleton, InsertShape
    <2> QED BY <2>1, <2>2
  <1> QED BY <1>2, <1>3

\* Every step keeps the shape.
LEMMA StepShape == TypeInv /\ ShapeInv /\ [Next]_vars => ShapeInv'
  <1> SUFFICES ASSUME TypeInv, ShapeInv, [Next]_vars PROVE ShapeInv'
    OBVIOUS
  <1>1. CASE UpdateEpochs
    BY <1>1
    DEF UpdateEpochs, ShapeInv, MemoryShape, SavedShape, CycleShape, memory
  <1>2. CASE ResolveInitialBlock
    <2>1. CASE Down("NoInitialBlock")
      BY <2>1, DownShape
    <2>2. CASE ~Down("NoInitialBlock")
      BY <1>2, <2>2
      DEF ResolveInitialBlock, ShapeInv, MemoryShape, SavedShape, CycleShape, memory
    <2> QED BY <2>1, <2>2
  <1>3. CASE ReadLatest \/ FetchSafeBlock
    BY <1>3, FirstBlockShape
  <1>4. CASE ReadTarget
    BY <1>4 DEF ReadTarget, ShapeInv, MemoryShape, SavedShape, CycleShape, memory
  <1>5. CASE FetchForward
    BY <1>5, FetchForwardShape
  <1>6. CASE InsertForward
    BY <1>6, InsertForwardShape
  <1>7. CASE FetchBranchHead
    BY <1>7, FetchBranchHeadShape
  <1>8. CASE FetchParent
    BY <1>8, FetchParentShape
  <1>9. CASE InsertBackward
    BY <1>9, InsertBackwardShape
  <1>10. CASE RunCallback
    <2>1. /\ db \in SUBSET Block /\ delivered \in Seq(Block)
          /\ queue \in Seq(Block) /\ queue # <<>>
      BY <1>10 DEF RunCallback, TypeInv, TypeOK
    <2>2. DeliveryShape(Append(delivered, Head(queue)), Tail(queue), db)
      BY <2>1, DeliveryMoves DEF ShapeInv, MemoryShape
    <2>3. MemoryShape' /\ SavedShape'
      BY <1>10, <2>2 DEF RunCallback, ShapeInv, MemoryShape, SavedShape
    <2>4. pc' = "callbacks" <=> Tail(queue) # <<>>
      <3>1. Len(Tail(queue)) = Len(queue) - 1 /\ Tail(queue) \in Seq(Block)
            /\ Len(queue) \in Nat \ {0}
        BY <2>1, HeadTailProperties, EmptySeq
      <3>2. Tail(queue) = <<>> <=> Len(queue) = 1
        <4>1. Len(Tail(queue)) = 0 <=> Tail(queue) = <<>>
          BY <3>1, EmptySeq
        <4> QED BY <3>1, <4>1
      <3>3. resume # "callbacks"
        BY DEF TypeInv, TypeOK
      <3> QED BY <1>10, <3>2, <3>3 DEF RunCallback, LastCallback
    <2>5. db # {} /\ current_branch = <<>> /\ batch = <<>>
      BY <1>10 DEF RunCallback, ShapeInv, CycleShape
    <2>6. pc' \in {"callbacks", "target", "branch", "commit"}
      BY <1>10 DEF RunCallback, TypeInv, TypeOK
    <2>7. CycleShape'
      BY <1>10, <2>4, <2>5, <2>6 DEF RunCallback, CycleShape
    <2> QED BY <2>3, <2>7 DEF ShapeInv
  <1>11. CASE Commit
    <2>1. queue = <<>> /\ batch = <<>>
      BY <1>11 DEF Commit, ShapeInv, CycleShape
    <2>2. /\ saved'.db = db /\ saved'.head = head
          /\ saved'.current_branch = current_branch
          /\ saved'.initial_blocknr = initial_blocknr
          /\ saved'.delivered = delivered
          /\ UNCHANGED memory
          /\ queue' = <<>> /\ batch' = <<>> /\ pc' = "epochs"
      BY <1>11 DEF Commit, LocalsReset
    <2> QED BY <2>1, <2>2
      DEF ShapeInv, MemoryShape, SavedShape, CycleShape, memory
  <1>12. CASE Restart
    BY <1>12
    DEF Restart, ShapeInv, MemoryShape, SavedShape, CycleShape, memory, locals
  <1>13. CASE Kill
    BY <1>13, DownShape DEF Kill
  <1>14. CASE NodeStep
    BY <1>14
    DEF NodeStep, fetcherVars, ShapeInv, MemoryShape, SavedShape, CycleShape,
        memory, locals
  <1>15. CASE UNCHANGED vars
    BY <1>15
    DEF vars, fetcherVars, ShapeInv, MemoryShape, SavedShape, CycleShape,
        memory, locals
  <1> QED
    BY <1>1, <1>2, <1>3, <1>4, <1>5, <1>6, <1>7, <1>8, <1>9, <1>10, <1>11,
       <1>12, <1>13, <1>14, <1>15 DEF Next, CycleStep

\* ... and so do the shapes of what is stored and under way.
LEMMA ShapesHold == Spec => [](TypeInv /\ ShapeInv)
  <1>1. Init => TypeInv /\ ShapeInv
    BY InitTypes, InitShape
  <1>2. TypeInv /\ ShapeInv /\ [Next]_vars => TypeInv' /\ ShapeInv'
    BY StepTypes, StepShape
  <1> QED BY <1>1, <1>2, PTL DEF Spec

\* Pieces fetched forward, backward, in several cycles, across restarts and
\* during reorganisations always add up to one tree with one root.
THEOREM OneTreeHolds == Spec => []OneTree
  <1>1. ShapeInv => OneTree
    BY DEF ShapeInv, MemoryShape, TreeShape, OneTree
  <1> QED BY <1>1, ShapesHold, PTL

\* The persisted branch can always be completed and inserted.
THEOREM BranchResumableHolds == Spec => []BranchResumable
  <1>1. TypeInv /\ ShapeInv => BranchResumable
    <2> SUFFICES ASSUME TypeInv, ShapeInv PROVE BranchResumable
      OBVIOUS
    <2>1. DOMAIN current_branch = 1..Len(current_branch)
      BY LenProperties DEF TypeInv, TypeOK
    <2> QED BY <2>1 DEF ShapeInv, MemoryShape, BranchShape, BranchResumable, ToSet
  <1> QED BY <1>1, ShapesHold, PTL

\* Every stored block is delivered once, every committed block has been.
THEOREM DeliveredIsStoredHolds == Spec => []DeliveredIsStored
  <1>1. TypeInv /\ ShapeInv => DeliveredIsStored
    <2> SUFFICES ASSUME TypeInv, ShapeInv PROVE DeliveredIsStored
      OBVIOUS
    <2> DEFINE a == delivered \o queue
               n == Len(delivered)
    <2>1. delivered \in Seq(Block) /\ queue \in Seq(Block)
      BY DEF TypeInv, TypeOK
    <2>2. /\ a \in Seq(Block) /\ Len(a) = n + Len(queue)
          /\ \A i \in 1..(n + Len(queue)) :
               a[i] = IF i <= n THEN delivered[i] ELSE queue[i - n]
          /\ n \in Nat /\ Len(queue) \in Nat
      BY <2>1, ConcatProperties, LenProperties
    <2>3. /\ DOMAIN a = 1..Len(a) /\ DOMAIN delivered = 1..n
          /\ DOMAIN queue = 1..Len(queue)
      BY <2>1, <2>2, LenProperties
    <2>4. /\ IsInjective(delivered) /\ IsInjective(queue)
          /\ ToSet(delivered) \cap ToSet(queue) = {}
          /\ ToSet(delivered) \cup ToSet(queue) = db
      BY DEF ShapeInv, MemoryShape, DeliveryShape
    <2> HIDE DEF a, n
    <2>5. \A i \in 1..n, j \in 1..Len(queue) : delivered[i] # queue[j]
      BY <2>3, <2>4 DEF ToSet
    <2>6. IsInjective(a)
      <3> SUFFICES ASSUME NEW i \in 1..Len(a), NEW j \in 1..Len(a), a[i] = a[j]
                   PROVE  i = j
        BY <2>3 DEF IsInjective
      <3>1. CASE i <= n /\ j <= n
        <4>1. i \in 1..n /\ j \in 1..n /\ delivered[i] = delivered[j]
          BY <3>1, <2>2
        <4> QED BY <4>1, <2>3, <2>4 DEF IsInjective
      <3>2. CASE ~(i <= n) /\ ~(j <= n)
        <4>1. /\ i - n \in 1..Len(queue) /\ j - n \in 1..Len(queue)
              /\ queue[i - n] = queue[j - n]
          BY <3>2, <2>2
        <4>2. i - n = j - n
          BY <4>1, <2>3, <2>4 DEF IsInjective
        <4> QED BY <4>2, <2>2
      <3>3. CASE i <= n /\ ~(j <= n)
        BY <3>3, <2>2, <2>5
      <3>4. CASE ~(i <= n) /\ j <= n
        BY <3>4, <2>2, <2>5
      <3> QED BY <3>1, <3>2, <3>3, <3>4
    <2>7. ToSet(saved.delivered) = saved.db
      <3>1. ToSet(<<>>) = {}
        BY DEF ToSet
      <3> QED BY <3>1 DEF ShapeInv, SavedShape, DeliveryShape
    <2> QED BY <2>4, <2>6, <2>7 DEF DeliveredIsStored, a
  <1> QED BY <1>1, ShapesHold, PTL

-----------------------------------------------------------------------------
(* Refinement.                                                             *)

\* An insertion hands nothing to the callbacks by itself; a failure takes
\* back what has not been committed.
LEMMA InsertFeeds ==
  ASSUME NEW bs, NEW initial, NEW next, Insert(bs, initial, next)
  PROVE  Feed!Lose \/ UNCHANGED Feed!feedVars
  BY InsertCases DEF Down, Feed!Lose, Feed!feedVars

\* Every step of the fetcher is a step of the feed or leaves it alone.
LEMMA StepFeeds ==
  ASSUME TypeInv, ShapeInv, [Next]_vars
  PROVE  [Feed!FeedNext]_(Feed!feedVars)
  <1>1. \A e : Down(e) => Feed!Lose
    BY DEF Down, Feed!Lose
  <1>2. CASE ResolveInitialBlock \/ ReadLatest \/ FetchSafeBlock \/ InsertForward
             \/ FetchBranchHead \/ FetchParent \/ InsertBackward \/ Kill
    BY <1>1, <1>2, InsertFeeds
    DEF ResolveInitialBlock, ReadLatest, FetchSafeBlock, InsertForward,
        FetchBranchHead, FetchParent, InsertBackward, Kill, memory, locals,
        Feed!FeedNext, Feed!feedVars
  <1>3. CASE UpdateEpochs \/ ReadTarget \/ FetchForward \/ Restart \/ NodeStep
             \/ UNCHANGED vars
    BY <1>3
    DEF UpdateEpochs, ReadTarget, FetchForward, Restart, NodeStep, fetcherVars,
        vars, memory, Feed!feedVars
  <1>4. CASE Commit
    BY <1>4 DEF Commit, memory, Feed!FeedNext, Feed!Persist
  <1>5. CASE RunCallback
    <2>1. queue \in Seq(Block) /\ queue # <<>>
      BY <1>5 DEF RunCallback, TypeInv, TypeOK
    <2>2. Head(queue) \in Block /\ Head(queue) = queue[1] /\ 1 \in DOMAIN queue
      BY <2>1, EmptySeq, LenProperties, HeadTailProperties
    <2>3. Head(queue) \in ToSet(queue)
      BY <2>2 DEF ToSet
    <2>4. /\ Head(queue) \notin ToSet(delivered)
          /\ delivered = <<>> \/ parent[Head(queue)] \in ToSet(delivered)
      BY <2>1, <2>2, <2>3 DEF ShapeInv, MemoryShape, DeliveryShape
    <2>5. Feed!Deliver(Head(queue))
      BY <1>5, <2>4 DEF RunCallback, Feed!Deliver, Feed!ToSet, ToSet
    <2> QED BY <2>2, <2>5 DEF Feed!FeedNext
  <1> QED BY <1>2, <1>3, <1>4, <1>5 DEF Next, CycleStep

\* The fetcher implements the feed: once, parents first, and a crash takes
\* back exactly what is not committed.
THEOREM FeedImplemented == Spec => ImplementsFeed
  <1>1. Init => Feed!FeedInit
    BY DEF Init, FetcherInit, FreshState, Feed!FeedInit
  <1>2. TypeInv /\ ShapeInv /\ [Next]_vars => [Feed!FeedNext]_(Feed!feedVars)
    BY StepFeeds
  <1> QED BY <1>1, <1>2, ShapesHold, PTL DEF Spec, ImplementsFeed, Feed!FeedSpec

-----------------------------------------------------------------------------
(* Without a reset of the node, it serves all blocks the monitor holds, and *)
(* none is above its tip.                                                  *)

FetchedInv ==
  /\ Chain(tip) \subseteq served
  /\ \A b \in served : number[b] <= number[tip]
  /\ db \subseteq served
  /\ ToSet(current_branch) \subseteq served
  /\ ToSet(batch) \subseteq served
  /\ initial_block \in served \cup {None}
  /\ saved.db \subseteq served
  /\ ToSet(saved.current_branch) \subseteq served

\* The elements of a sequence that grew by one.
LEMMA AppendSet ==
  ASSUME NEW s \in Seq(Block), NEW b \in Block
  PROVE  /\ Append(s, b) \in Seq(Block)
         /\ ToSet(Append(s, b)) = ToSet(s) \cup {b}
  BY AppendProperties DEF ToSet

\* The last element is one.
LEMMA LastInSet ==
  ASSUME NEW s \in Seq(Block), s # <<>>
  PROVE  Last(s) \in ToSet(s) /\ Last(s) \in Block
  <1>1. Len(s) \in 1..Len(s) /\ DOMAIN s = 1..Len(s)
    BY EmptySeq, LenProperties
  <1> QED BY <1>1 DEF Last, ToSet

\* Turning a sequence round keeps its elements.
LEMMA ReverseSet ==
  ASSUME NEW s \in Seq(Block)
  PROVE  ToSet(Reverse(s)) = ToSet(s)
  <1> DEFINE r == Reverse(s)
             n == Len(s)
  <1>1. n \in Nat /\ DOMAIN s = 1..n
    BY LenProperties
  <1>2. DOMAIN r = 1..n /\ \A i \in 1..n : r[i] = s[(n - i) + 1]
    BY <1>1 DEF Reverse
  <1> HIDE DEF r
  <1>3. ToSet(r) = {r[i] : i \in 1..n} /\ ToSet(s) = {s[i] : i \in 1..n}
    BY <1>1, <1>2 DEF ToSet
  <1>4. ASSUME NEW i \in 1..n
        PROVE  (n - i) + 1 \in 1..n /\ r[(n - i) + 1] = s[i] /\ r[i] = s[(n - i) + 1]
    <2>1. (n - i) + 1 \in 1..n /\ (n - ((n - i) + 1)) + 1 = i
      BY <1>1
    <2> QED BY <1>2, <2>1
  <1> QED BY <1>3, <1>4 DEF r

\* The empty sequence has none.
LEMMA EmptySet == ToSet(<<>>) = {}
  BY DEF ToSet

\* What the node answers with, it serves, and is on a chain up to the tip.
LEMMA AnswerServed ==
  ASSUME TypeInv, FetchedInv, NEW n
  PROVE  /\ BlockAt(n) # None => BlockAt(n) \in served
         /\ BlockByHash(n) # None => BlockByHash(n) \in served
  BY DEF FetchedInv, BlockAt, BlockByHash, Chain

\* A process that goes down falls back on saved blocks, which are served.
LEMMA DownServed ==
  ASSUME FetchedInv, NEW e, Down(e)
  PROVE  FetchedInv'
  BY EmptySet DEF FetchedInv, Down, LocalsReset, chainVars, Chain

\* Inserting fetched blocks stores blocks that are served.
LEMMA InsertServed ==
  ASSUME FetchedInv, NEW bs, NEW initial, NEW next, Insert(bs, initial, next),
         ToSet(bs) \subseteq served
  PROVE  FetchedInv'
  <1>1. CASE \E e : Down(e)
    BY <1>1, DownServed
  <1>2. CASE ~ \E e : Down(e)
    BY <1>2, EmptySet DEF Insert, FetchedInv, chainVars, Chain
  <1> QED BY <1>1, <1>2

\* Each part of a cycle fetches blocks from the node.
LEMMA FetchServed ==
  ASSUME TypeInv, ShapeInv, FetchedInv, CycleStep \/ Kill \/ Restart
  PROVE  FetchedInv'
  <1>s. /\ current_branch \in Seq(Block) /\ batch \in Seq(Block)
        /\ served \subseteq Block /\ None \notin Block
    BY ChainAssumption DEF TypeInv, TypeOK, ChainTypeOK
  <1>c. UNCHANGED tip => UNCHANGED Chain(tip)
    BY DEF Chain
  <1>1. CASE UpdateEpochs \/ ReadTarget
    BY <1>1, <1>c DEF UpdateEpochs, ReadTarget, memory, chainVars, FetchedInv
  <1>2. CASE ResolveInitialBlock
    BY <1>2, <1>c, DownServed, AnswerServed
    DEF ResolveInitialBlock, memory, chainVars, FetchedInv
  <1>3. CASE ReadLatest
    <2>1. CASE number[initial_block] > FinalHeight
      BY <1>3, <1>c, <2>1 DEF ReadLatest, memory, chainVars, FetchedInv
    <2>2. CASE ~(number[initial_block] > FinalHeight)
      <3>1. initial_block \in Block
        BY <1>3 DEF ReadLatest, TypeInv, Control
      <3>2. ToSet(<<initial_block>>) \subseteq served
        BY <1>s, <3>1 DEF ToSet, FetchedInv
      <3> QED BY <1>3, <2>2, <3>2, InsertServed DEF ReadLatest
    <2> QED BY <2>1, <2>2
  <1>4. CASE FetchSafeBlock
    <2>1. ASSUME BlockAt(safe) # None PROVE ToSet(<<BlockAt(safe)>>) \subseteq served
      BY <2>1, AnswerServed DEF ToSet
    <2> QED BY <1>4, <2>1, DownServed, InsertServed DEF FetchSafeBlock
  <1>5. CASE FetchForward
    <2> DEFINE b == BlockAt(NextForward)
    <2>1. b \in served /\ b \in Block
      BY <1>5, <1>s, AnswerServed DEF FetchForward, ForwardDone
    <2>2. ToSet(batch') = ToSet(batch) \cup {b}
      BY <1>5, <1>s, <2>1, AppendSet DEF FetchForward
    <2> QED BY <1>5, <1>c, <2>1, <2>2 DEF FetchForward, memory, chainVars, FetchedInv
  <1>6. CASE InsertForward
    BY <1>6, <1>c, InsertServed
    DEF InsertForward, memory, locals, chainVars, FetchedInv
  <1>7. CASE FetchBranchHead
    <2> DEFINE b == BlockAt(max_block_height)
    <2>1. b # None => ToSet(<<b>>) \subseteq served
      BY AnswerServed DEF ToSet
    <2> QED BY <1>7, <1>c, <2>1, DownServed
        DEF FetchBranchHead, memory, locals, chainVars, FetchedInv
  <1>8. CASE FetchParent
    <2> DEFINE p == BlockByHash(parent[Last(current_branch)])
    <2>1. p # None => p \in served /\ p \in Block
      BY <1>s, AnswerServed
    <2>2. CASE p = None \/ number[p] < initial_blocknr
      BY <1>8, <2>2, DownServed DEF FetchParent
    <2>3. CASE ~(p = None \/ number[p] < initial_blocknr)
      <3>1. /\ current_branch' = Append(current_branch, p)
            /\ UNCHANGED <<chainVars, db, saved, batch, initial_block>>
        BY <1>8, <2>3 DEF FetchParent
      <3>2. ToSet(current_branch') = ToSet(current_branch) \cup {p}
        BY <1>s, <2>1, <2>3, <3>1, AppendSet
      <3> HIDE DEF p
      <3> QED BY <1>c, <2>1, <2>3, <3>1, <3>2 DEF chainVars, FetchedInv
    <2> QED BY <2>2, <2>3
  <1>9. CASE InsertBackward
    <2>1. ToSet(Reverse(current_branch)) \subseteq served
      BY <1>s, ReverseSet DEF FetchedInv
    <2> QED BY <1>9, <1>c, <2>1, InsertServed
        DEF InsertBackward, memory, locals, chainVars, FetchedInv
  <1>10. CASE RunCallback
    BY <1>10, <1>c DEF RunCallback, chainVars, FetchedInv
  <1>11. CASE Commit
    BY <1>11, <1>c, EmptySet DEF Commit, LocalsReset, memory, chainVars, FetchedInv
  <1>12. CASE Kill
    BY <1>12, DownServed DEF Kill
  <1>13. CASE Restart
    BY <1>13, <1>c DEF Restart, memory, locals, chainVars, FetchedInv
  <1> QED BY <1>1, <1>2, <1>3, <1>4, <1>5, <1>6, <1>7, <1>8, <1>9, <1>10, <1>11,
             <1>12, <1>13 DEF CycleStep

\* A new head keeps what was served before, and is at least as high.
LEMMA ImportServed ==
  ASSUME TypeInv, FetchedInv, NEW b \in Block, Import(b), UNCHANGED fetcherVars
  PROVE  FetchedInv' /\ number[tip] <= number[tip']
  <1>1. /\ number[b] \in Nat /\ number[tip] \in Nat
        /\ \A c \in Block : number[c] \in Nat
        /\ number[tip] <= number[b]
    BY ChainAssumption DEF Import, TypeInv, TypeOK, ChainTypeOK
  <1>2. \A n \in 0..number[b] : number[chainTo[b][n]] = n
    BY ChainAssumption
  <1>3. \A c \in Chain(b) : number[c] <= number[b]
    BY <1>1, <1>2 DEF Chain
  <1>4. served \subseteq Block
    BY DEF TypeInv, TypeOK, ChainTypeOK
  <1>5. \A c \in served : number[c] <= number[b]
    BY <1>1, <1>4 DEF FetchedInv
  <1>6. tip' = b /\ served' = served \cup Chain(b) /\ Chain(tip)' = Chain(b)
    BY DEF Import, Chain
  <1> QED BY <1>1, <1>3, <1>5, <1>6 DEF FetchedInv, fetcherVars, memory, locals
=============================================================================
