---------------------------- MODULE InitialBlock ----------------------------
(***************************************************************************)
(* The resolvers of --sync-from: which block an empty database is to be    *)
(* filled from.  One action is one JSON-RPC request, so that the chain may *)
(* move while a date is searched for.                                      *)
(***************************************************************************)
EXTENDS Chain

CONSTANTS
  timestamp,  \* block.timestamp
  Selectors   \* what the resolver may have been made from

\* Time goes on along a chain, stated for all its blocks like chainTo.
ASSUME SelectorAssumption ==
  /\ timestamp \in [Block -> Nat]
  /\ \A b \in Block : \A n \in 0..number[b] : \A m \in 0..(n - 1) :
       timestamp[chainTo[b][m]] < timestamp[chainTo[b][n]]
  /\ Selectors \in SUBSET ([by: {"latest", "genesis"}]
                             \cup [by: {"number"}, blocknr: Int]
                             \cup [by: {"date"}, timestamp: Nat])

VARIABLES
  selector,     \* the resolver
  search,       \* where its resolve_block is
  wanted,       \* blocknr, once the offset has been subtracted
  lower_block,
  upper_block,
  latest,       \* history: the upper_block that the search started from
  resolved      \* the block returned, None if there is none

resolverVars == <<search, wanted, lower_block, upper_block, latest, resolved>>

ResolverInit ==
  /\ selector \in Selectors
  /\ search = "begin" /\ wanted = 0
  /\ lower_block = None /\ upper_block = None /\ latest = None
  /\ resolved = None

\* Nothing of the search outlives it.
ForgetResolved ==
  /\ search' = "begin" /\ wanted' = 0
  /\ lower_block' = None /\ upper_block' = None /\ latest' = None
  /\ resolved' = None

Return(b) == search' = "done" /\ resolved' = b

\* ResolveLatestBlock, ResolveGenesisBlock and, for a number that is not
\* negative, ResolveBlockByNumber.
ResolveAtOnce ==
  /\ search = "begin"
  /\ \/ selector.by = "latest" /\ Return(tip)
     \/ selector.by = "genesis" /\ Return(BlockAt(0))
     \/ selector.by = "number" /\ selector.blocknr >= 0
        /\ Return(BlockAt(selector.blocknr))
  /\ UNCHANGED <<wanted, lower_block, upper_block, latest>>

\* eth.blockNumber for a negative number
ReadHeight ==
  /\ search = "begin"
  /\ selector.by = "number"
  /\ selector.blocknr < 0
  /\ wanted' = LET n == number[tip] + selector.blocknr IN IF n < 0 THEN 0 ELSE n
  /\ search' = "number"
  /\ UNCHANGED <<lower_block, upper_block, latest, resolved>>

ResolveWanted ==
  /\ search = "number"
  /\ Return(BlockAt(wanted))
  /\ UNCHANGED <<wanted, lower_block, upper_block, latest>>

\* getBlock(0) for a date
ReadLower ==
  /\ search = "begin"
  /\ selector.by = "date"
  /\ lower_block' = BlockAt(0)
  /\ search' = "upper"
  /\ UNCHANGED <<wanted, upper_block, latest, resolved>>

\* getBlock("latest")
ReadUpper ==
  /\ search = "upper"
  /\ upper_block' = tip
  /\ latest' = tip
  /\ search' = "bisect"
  /\ UNCHANGED <<wanted, lower_block, resolved>>

Gap == number[upper_block] - number[lower_block]

\* Mutant: a block right at the date counts as after it.
IsAfterDateOrAt(b) == selector.timestamp <= timestamp[b]

IsAfterDate(b) == selector.timestamp < timestamp[b]

\* One round of the binary search.
Bisect ==
  /\ search = "bisect"
  /\ Gap > 1
  /\ LET middle == BlockAt((number[lower_block] + number[upper_block]) \div 2) IN
     \/ /\ middle = None
        /\ search' = "failed"
        /\ UNCHANGED <<lower_block, upper_block>>
     \/ /\ middle # None
        /\ IF IsAfterDate(middle)
           THEN upper_block' = middle /\ UNCHANGED lower_block
           ELSE lower_block' = middle /\ UNCHANGED upper_block
        /\ UNCHANGED search
  /\ UNCHANGED <<wanted, latest, resolved>>

EndSearch ==
  /\ search = "bisect"
  /\ Gap <= 1
  /\ Return(lower_block)
  /\ UNCHANGED <<wanted, lower_block, upper_block, latest>>

ResolveStep ==
  \/ ResolveAtOnce
  \/ ReadHeight \/ ResolveWanted
  \/ ReadLower \/ ReadUpper \/ Bisect \/ EndSearch

-----------------------------------------------------------------------------
(* Properties.                                                             *)

ResolverTypeOK ==
  /\ selector \in Selectors
  /\ search \in {"begin", "number", "upper", "bisect", "done", "failed"}
  /\ wanted \in Nat
  /\ {lower_block, upper_block, latest, resolved} \subseteq Block \cup {None}

\* What the code computes, as a search through all blocks would: the last
\* block below top that is not after the date, the genesis block if they all
\* are.
IsBlockByDate(b, date, top) ==
  /\ b \in Chain(top)
  /\ number[b] = 0 \/ (timestamp[b] <= date /\ number[b] < number[top])
  /\ \A c \in Chain(top) :
       timestamp[c] <= date /\ number[c] < number[top] => number[c] <= number[b]

\* However the chain moves during the search: if the two blocks it narrowed
\* down to belong to the chain that it started with, it has found the block
\* that a search through this whole chain finds, although any of the blocks
\* it looked at in between may have been replaced.  This is about the search;
\* that it searches for another block than the documentation says is
\* DateIsFirstAfter.
DateFound ==
  search = "done" /\ selector.by = "date"
      /\ {resolved, upper_block} \subseteq Chain(latest)
    => IsBlockByDate(resolved, selector.timestamp, latest)

-----------------------------------------------------------------------------
(* A claim of the repository that the code does not live up to.            *)

IsFirstAfter(b, date, top) ==
  /\ b \in Chain(top)
  /\ date < timestamp[b]
  /\ \A c \in Chain(top) : date < timestamp[c] => number[b] <= number[c]

\* README.md:66 says that a date "selects the first block validated after that
\* date", and the docstring at blocksel.py:69 that it "resolves to the first
\* block after a given date".  This claims no more than that, where there is
\* such a block and the chain did not move away from what was found; but the
\* code returns its lower_block.
DateIsFirstAfter ==
  search = "done" /\ selector.by = "date"
      /\ {resolved, upper_block} \subseteq Chain(latest)
      /\ (\E b \in Chain(latest) : selector.timestamp < timestamp[b])
    => IsFirstAfter(resolved, selector.timestamp, latest)
=============================================================================
