------------------------------- MODULE Chain -------------------------------
(***************************************************************************)
(* The blockchain node as the monitor sees it over JSON-RPC: a tree of     *)
(* blocks, the tip of the canonical chain and the blocks the node serves   *)
(* by hash.  The node is not part of the repository: it is modelled from   *)
(* the calls the monitor makes (eth.getBlock with a number, "latest" or a  *)
(* hash, and eth.blockNumber).                                             *)
(***************************************************************************)
EXTENDS Integers

CONSTANTS
  Block,        \* every block that may ever be proposed, on any fork
  None,         \* "no block": the answer None of getBlock
  number,       \* block.number
  parent,       \* block.parentHash, as the parent itself (None for genesis)
  chainTo,      \* chainTo[b][n]: the block with number n on the chain up to b
  ReorgBound,   \* blocks this deep below the tip are never replaced ...
  NodeMayReset  \* ... unless the node itself is replaced or resynchronised

\* The blocks form a forest of chains that start at number 0; chainTo is its
\* transitive form, given with it so that no definition has to recurse.
ASSUME ChainAssumption ==
  /\ None \notin Block
  /\ number \in [Block -> Nat]
  /\ parent \in [Block -> Block \cup {None}]
  /\ DOMAIN chainTo = Block
  /\ \A b \in Block :
       /\ number[b] = 0 => parent[b] = None
       /\ chainTo[b] \in [0..number[b] -> Block]
       /\ chainTo[b][number[b]] = b
       /\ \A n \in 0..number[b] :
            /\ number[chainTo[b][n]] = n
            /\ n > 0 => parent[chainTo[b][n]] = chainTo[b][n - 1]
            /\ \A m \in 0..n : chainTo[chainTo[b][n]][m] = chainTo[b][m]

ASSUME NodeAssumption == ReorgBound \in Nat /\ NodeMayReset \in BOOLEAN

VARIABLES
  tip,     \* the head of the node's canonical chain
  served   \* the blocks the node returns when asked for their hash

chainVars == <<tip, served>>

Chain(b) == {chainTo[b][n] : n \in 0..number[b]}

\* getBlock(n): the canonical block with number n, None above the tip.
BlockAt(n) == IF n \in 0..number[tip] THEN chainTo[tip][n] ELSE None

\* getBlock(hash): orphaned blocks stay available until the node is reset.
BlockByHash(b) == IF b \in served THEN b ELSE None

ChainTypeOK == tip \in Block /\ served \in SUBSET Block

ChainInit ==
  /\ tip \in {b \in Block : number[b] = 0}
  /\ served = Chain(tip)

\* A new head: the next block on the tip, or a reorganisation to a chain that
\* is at least as high and agrees with ours ReorgBound blocks below the tip.
Import(b) ==
  /\ b # tip
  /\ number[b] >= number[tip]
  /\ \A n \in 0..(number[tip] - ReorgBound) : chainTo[b][n] = chainTo[tip][n]
  /\ tip' = b
  /\ served' = served \cup Chain(b)

\* The endpoint is pointed at another node, or its database is rebuilt: any
\* head, also a lower one, and the orphaned blocks are gone.
Reset(b) ==
  /\ NodeMayReset
  /\ b # tip
  /\ tip' = b
  /\ served' = Chain(b)

ChainNext == \E b \in Block : Import(b) \/ Reset(b)
=============================================================================
