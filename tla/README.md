# TLA+ development of tlbc-monitor

`tlbc-monitor` follows an Aura (authority round) blockchain through the
JSON-RPC interface of a node and reports validators that skip the steps they
are the primary of, are offline, or propose two blocks in one step.  This
directory holds TLA+ models of the monitor, the TLC configurations that check
them on small instances and theorems about them that TLAPS proves for every
instance.  Paths are relative to the repository; `main.py` and the like are in
`src/monitor/`.

## 1. Inventory

### Components, their state, their operations

| component | state | operations | modelled in |
|---|---|---|---|
| node (external) | canonical chain, blocks known by hash, validator contracts, its own synchronisation | new block, reorganisation, reset; answers `getBlock`, `blockNumber`, `getEpochStartHeights`, `getValidators`, `syncing`, `parity_chainStatus`, or does not answer | `Chain`; in `EpochFetcher`, `NodeStatus`, `App` |
| block fetcher, `block_fetcher.py` | `head`, `current_branch`, `initial_blocknr` (pickled) | `fetch_and_insert_new_blocks`: first block, forward sync, backward sync; calls the block callbacks | `BlockFetcher`; its promise is `BlockFeed` |
| block database, `db.py` | table `blocks`, pickled app state, one open session | `contains`, `is_empty`, `insert_branch`, `store_pickled`, commit or rollback | in `BlockFetcher` (`db`, `saved`), `EquivocationReporter` (the query), `App` (`stored`) |
| App, `main.py` | the open skip file, `_running`, the chain spec | `_run_cycle`: update epochs, fetch, store, flush, commit, look at the chain spec; start, load, stop | `Monitor`, `WholeMonitor`: the cycle with fetcher and reporters; `App`: the life of the process; `EpochFetcher`: the update of the epochs |
| skip reporter, `skip_reporter.py` | `latest_step`, `open_skipped_proposals` (pickled) | called with each block; calls `skip_logger` and the offline reporter with each missed proposal | `SkipReporter` |
| offline reporter, `offline_reporter.py` | `reported_validators`, intervals and offline time per validator (pickled) | called with each missed proposal; writes a report file once per validator | `OfflineReporter`, on the promise `SkipFeed` |
| equivocation reporter, `equivocation_reporter.py` | none but the database | called with each block; `equivocation_logger` asks the node for the equivocating blocks and appends to a report file | `EquivocationReporter`, in `Monitor` |
| primary oracle, `validators.py` | epochs ordered by start height, `max_height` (memory only) | `add_epoch`, `get_validators`, `get_primary` | `PrimaryOracle`; `HeightKnown` of `Monitor`, `PrimaryOf` of `OfflineReporter` |
| epoch fetchers, `validators.py` | per contract: last fetch height, earliest and latest epoch (memory only) | `fetch_new_epochs`, dropping stale fetchers | `EpochFetcher` |
| validator definition, `validators.py` | none | validates and orders the ranges of the chain spec | assumptions of `EpochFetcher` |
| initial block resolvers, `blocksel.py` | none | number, offset from the tip, genesis, latest, date | `InitialBlock`, in `App`; the constant `SyncFrom` of `BlockFetcher` |
| node status, `node_status.py` | none | asks for the synchronisation until it is complete | `NodeStatus`, in `App` |
| endless retries, `web3_retry_middleware.py` | none | repeats a request until it is answered | `Answered` of `App` |
| state upgrade, `upgrade_v1_to_v2` | none | converts the pickled state of the first version | in `App`: when it is allowed and what a crash leaves; its contents see section 7 |
| block headers, `report_validator` | none that lasts | see section 7 | no |

### How they interact

Everything runs in one thread.  `App._run_cycle` first brings the epochs up to
date (`_update_epochs`), then opens a database session and lets the fetcher
fetch at most 500 blocks up to the height the epochs are known for.  Each
inserted branch goes block by block to the skip reporter and then to the
equivocation reporter; the skip reporter in turn calls `skip_logger` and the
offline reporter for every step that is overdue.  At the end of the cycle the
state of fetcher and reporters is pickled into the same transaction, the skip
file is flushed and the session committed.  An exception anywhere ends the
process; a supervisor (in practice a container runtime) may start it again, and
the new process starts from the committed state, with a new oracle.

Before the first cycle a process waits for the node to be synchronised, reads
the chain spec, fills the oracle, loads (and, if asked to, converts) its state
and installs its signal handlers, in this order.  A first block is resolved in
the first cycle that finds an empty database.

### What is hard

* The node is the second actor.  It moves between any two requests: new
  blocks, reorganisations, a different node behind the same URL.
* The fetcher collects the canonical chain *and* orphaned forks; a piece of a
  branch is kept over cycles and restarts, when its top may be orphaned.
* The order in which blocks of several forks are delivered decides which steps
  are reported and which block height they are attributed to.
* Crash consistency: one database transaction, a buffered text file and report
  files that are written and closed at once.
* A block is stored before it is reported, and what the report needs (the other
  equivocating blocks, the validators of a skipped step) is asked for when the
  node and the cycle have gone on.
* Signals, edits of the chain spec and a node that does not answer, anywhere.
* The validators of a height are pieced together from ranges and contracts,
  incrementally, while their epochs arrive out of order.

The hazards, each at its line and with the properties that cover it, are
listed in `PROJECT.json`.

## 2. Modules

```
Chain           the node: block tree, tip, blocks served by hash    (external)
BlockFetcher    EXTENDS Chain; implements BlockFeed (ImplementsFeed)
BlockFeed       abstract: every block once, after its parent; commit, loss
SkipReporter    EXTENDS BlockFeed; with the skip file; implements SkipFeed
                (ImplementsSkipFeed)
SkipFeed        abstract: skips in order, each step once; commit, loss
OfflineReporter EXTENDS SkipFeed; with the report files
EquivocationReporter  EXTENDS Chain; with its report files
Monitor         EXTENDS BlockFetcher, EquivocationReporter; INSTANCE
                SkipReporter; implements the specifications of the fetcher
                and of the skip reporter
WholeMonitor    EXTENDS Monitor; INSTANCE OfflineReporter; implements the
                specifications of Monitor and of the offline reporter
PrimaryOracle   relevant epochs, answers
EpochFetcher    EXTENDS PrimaryOracle; implements OracleSpec (OracleImplemented)
InitialBlock    EXTENDS Chain; the resolvers of --sync-from
NodeStatus      the wait for a synchronised node
App             EXTENDS InitialBlock, NodeStatus; the life of the process
MC...           instances for TLC;   ...Proofs   theorems
```

`SkipReporter` is not put on top of `BlockFetcher` but on top of what
`BlockFetcher` is shown to implement, and `OfflineReporter` likewise on top of
what `SkipReporter` is shown to implement.  This keeps each small, and what is
proved about a reporter holds for everything with the promise it builds on.
`Monitor` and `WholeMonitor` then do put the parts together, and are proved to
implement the specifications of the fetcher, the skip reporter and the offline
reporter, so that all their theorems hold of the composition.

**Chain.**  `Block` is the set of all blocks of all forks; a block is its
identity, with `number`, `parent` and, for lookups by number without
recursion, `chainTo[b][n]`.  `Import` is a new head: the next block or a
reorganisation that replaces at most `ReorgBound` blocks and does not lower the
tip.  `Reset` (only with `NodeMayReset`) is a node that was replaced or
resynchronised: any tip, and orphaned blocks can no longer be asked for.

**BlockFetcher.**  One action is the code from one JSON-RPC answer to the next
(or one callback), `pc` says which request is due.  A cycle is

    UpdateEpochs -> [ResolveInitialBlock -> ReadLatest -> [FetchSafeBlock]]
      -> ReadTarget -> FetchForward* -> InsertForward
      -> FetchBranchHead -> FetchParent* -> InsertBackward -> Commit

with `RunCallback` once for each inserted block, and a cycle that finds a
`current_branch` goes on with `FetchParent` at once, as the code does.
`UpdateEpochs` stands for `_update_epochs` with one contract: the height it
reads limits the cycle.  `db`, `head`, `current_branch` and `initial_blocknr`
are the variables of the code and `saved` what the last commit left on disk;
`delivered` is the history of callbacks, committed with the rest because the
state of the reporters is.  `Down(e)` is any exception, with the error that is
raised; `Kill` may happen anywhere.

**SkipReporter.**  `CallSkipReporter` is `__call__` up to the loop over the
missed proposals, `ReportSkip` one iteration of it, the last one with the
update of `open_skipped_proposals` that follows the loop.  `skip_buffer` and
`skip_file` are the buffered lines and those in the file.  On a loss any prefix
of the buffered lines may be in the file: the buffer spills when it is full and
`close` in `run`'s `finally` writes all of it.  That only forks share a height,
and that steps grow along a chain, is an assumption the node checks.

**OfflineReporter.**  `HandleSkip` is one call of `__call__` with a skipped
proposal `p`: an exception ends the process (`Raised`, `LoseOffline` with the
error), or the validator is ignored (`IgnoreSkip`), or counted and possibly
reported (`CountSkip`).  `CallOfflineReporter` is that call by the feed, which
promises the order (`Follows`).  `TotalLength` adds up the lengths of
intervals by counting their turns, pairs of an interval and a number up to its
length: a sum as a cardinality, which the theorems of `FiniteSetTheorems` are
about.  A validator's list of intervals is a set here,
since the list is ordered by step, which is what `InOrder` stands for.  The
validators in force at the skip's height are any of `ValidatorLists`, so that
lengths and primaries change freely from one skip to the next.  `counted` is a
history of all intervals ever added; `reports` are the files, which no rollback
removes.  The allowed rate is a fraction.

**EquivocationReporter.**  `CallEquivocationReporter` is `__call__`: the query
of the database, in the open session, for blocks of the same proposer and
step.  If there are several, `equivocation_logger` asks the node for each by
hash, one `ReadEquivocated` each, and writes after the last one.  A report is
its set of blocks and the two whose headers make up the proof; these are the
first two rows of a query without an order, so any two.

**Monitor.**  The callbacks that `App` registers, in their order: `due` is the
block that the skip reporter has been called with and the equivocation reporter
has not, and nothing else of the cycle goes on until all three stages are done
(`Idle`).  An exception of a reporter (`ReporterFails`) takes fetcher and
reporters down together, as one of the fetcher does; commit and rollback
concern all of them, the report files none.  The primaries themselves are the
subject of `EpochFetcher`; here only whether the oracle knows the height
(`HeightKnown`).  `SkipReporter` is instantiated with the fetcher's `delivered`
and its saved value as its feed; that its guards on the feed never block a
step here is part of what `MonitorRefinesSkipReporter` and `FeedImplemented`
say.

**WholeMonitor.**  The skip reporter calls `skip_logger` and then the offline
reporter with one proposal before it goes on to the next.  `ReportSkip` of
`Monitor` is the first call; `heard` are the proposals the offline reporter was
called with, and while it is one behind (`~AllHeard`) only `CallOffline`, a
kill and the node can make a step.  `CallOffline` uses `HandleSkip`, without the
order of the feed as a guard: if the order were wrong, the assertion would end
the process here.  Its exception, its commit and its loss are those of the
whole process.  That the last `ReportSkip` removes the reported proposals from
the open ones before the last `CallOffline`, not after it, cannot be told
apart: the offline reporter does not read them, and an exception rolls both
back.

**InitialBlock.**  One action is one request.  Of the search by date,
`lower_block` and `upper_block` are the code's, and `latest` is the history of
where it began, as the chain may move during the search.  `BlockFetcher`
abstracts all of this to any number in `SyncFrom`, read off the canonical chain
in one step: a resolver returns a block that was canonical when it was read,
and nothing else of the search is used afterwards.

**NodeStatus.**  `sync` is what the node is doing.  A Parity node is asked by
two requests, `eth.syncing` and `parity_chainStatus`, between which it may go
on or fall behind.

**App.**  `phase` is where the process is, from `wait` to `loop` and the phases
of a cycle, of which only the first block, the commit and the look at the chain
spec are kept.  A step that needs the node has the guard `Answered`: the
endless retries do nothing but wait.  `Signal` ends a process without handlers and otherwise
resets `running`; `EditFile` may leave the chain spec half written or missing.
`stored` is the version of the state on disk.

**PrimaryOracle.**  `epochs` is the dictionary `_epochs` as a set;
`_ordered_start_heights` is its sorted key list and has no state of its own.
`known` is a history variable: what the oracle would know if it never dropped
an epoch, the latest for a range and start height.

**EpochFetcher.**  One action is one request of one contract's fetcher
(`ReadBlockNumber`, `ReadStartHeights`, `ReadValidators`), then `FinishFetch`
drops stale fetchers and sets the fetch height, then the epochs go to the
oracle one by one.  A fetcher keeps of its earliest and latest epoch only the
start heights, which is all the code reads.  The contracts are external:
`Mine` adds a block in which one of them may finalise a change, `Reorg` takes
away the changes of replaced blocks (a reorganisation without any is not seen
by this component and left out; the tip keeps its height).  `EarlyChanges`
says whether a contract may change its validators again before it is entered.

## 3. Runs

| run | instance | states | shows |
|---|---|---|---|
| `fetcher_bounded` | 11 blocks, forks at two heights, reorganisations up to 2 = `MAX_REORG_DEPTH`, 2 blocks per cycle, start from 0, 1, 2 or 5 | 49 401 | `TypeOK`, `FailureExplained`, `WedgedForGood`, `HeadNeverFallsBack`, `CatchesUp` |
| `fetcher_reset` | 8 blocks, depth 1, the node may be reset to any chain at any time | 201 726 | `OneTree`, `BranchResumable`, `DeliveredIsStored`, `ImplementsFeed` |
| `reorg_wedge` | as `fetcher_bounded`, from genesis | - | violation of `ShallowReorgSurvived` |
| `skip_reporter` | 7 blocks on 3 forks, skipped steps on each, grace period 1 | 107 300 | `SkipTypeOK`, `SkipsInOrder`, `OpenIsUnseen`, `StepsAccounted`, `GraceKept`, `SkipFitsAFork`, `SkipFileComplete`, `ImplementsSkipFeed` |
| `offline_reporter` | 6 steps, 2 validators, lists of length 2 and 1, window 3, allowed rate 2/3 | 81 375 | `OfflineTypeOK`, `IntervalsAreWindow`, `OfflineTimeIsSum`, `UnreportedWithinRate`, `ReportStands`, `ReportsJustified`, `NeverFails` |
| `offline_window` | one list of 2, window 4, allowed rate 1/2 | - | violation of `WindowHasItsSize` |
| `offline_zero` | window 0 | - | violation of `NeverFails` |
| `epoch_fetcher` | a list at 0, contracts from 1 and 3, heights to 4, 2 changes each, reorganisations up to 2 blocks | 287 147 | `EpochTypeOK`, `RestartHeals`, `FailsByReorgOnly`, `KeepsRelevant`, `AnswersGovern`, `OracleCatchesUp` |
| `monitor` | 6 blocks, two forks from height 1, an equivocation across them, reorganisations up to 1 = `MAX_REORG_DEPTH`, resets; one list of 2 validators, window 3, allowed rate 2/3 | 253 144 | `EquivocationsOnFile`, `ReportsProve`, `ReportersFailByResetOnly`, `ReportsBacked`, `MissesReported` |
| `start_up` | 7 blocks on two forks, all resolvers, a full Parity node that moves and is reset, one chain spec | 303 212 | `DateFound`, `SyncedWhenAccepted`, `ChangeNoticed`, `StateKept`, `StopTakesEffect` |
| `date_claim` | as `start_up`, with a date between two blocks and a chain that is never replaced | - | violation of `DateIsFirstAfter` |
| `validators_early` | as `epoch_fetcher` with `EarlyChanges`, without reorganisations | - | violation of `KnownUntilMaxHeight` |

**Why the bounds are enough to be interesting.** The tree of `fetcher_bounded`
is the smallest with a fork longer than the depth beyond it, a fork from a
fork, and enough blocks above for the forward sync to reach into the fork,
which is what `Wedged` needs; with two blocks per cycle every branch of three
or more is fetched in pieces over several cycles, and every limit is met
exactly. In `fetcher_reset` all trees of chains over 8 blocks can be swapped
for one another between any two requests. The steps in `skip_reporter` are such
that a fork's blocks fill skips of another one, also after they were reported,
and that two steps become overdue at once. The window of `offline_reporter` is
half as long as its steps, so that intervals leave it, one by one and several
at once, and it takes two or three of them, depending on the lists, to exceed
the rate. In `epoch_fetcher` both contracts can be found, go stale and change
during one update, and with the list at genesis there are three ranges.  The
epochs come to the oracle in the orders in which the fetchers find them, among
them epochs of an earlier range after those of a later one; that the oracle is
right for every order whatever, and any number of ranges, is what the theorems
of `PrimaryOracleProofs` are about (`OracleSpec`).
In `monitor` the second equivocating block comes in another cycle, or another process, or in the same branch as the first one's sibling,
and is gone from the node after a reset; two blocks of one step by different
proposers must not be reported. Two of the skipped steps are of one primary,
become overdue with the same block and only together exceed the offline rate,
so that the process can go down between the calls for the one and the other, or
with the report written and the skip file not; that the time adds up over
cycles is the subject of `offline_reporter`. A third equivocating block, and a
wedged process, are beyond what TLC can do there; the theorems in
`MonitorProofs` cover them. In `start_up` the search by date halves its
interval twice and the fork is long enough to replace one, both or neither of
its ends.

Bounds that have no counterpart in the code: the finite set `Block`,
`Height`, `MaxChanges`,
`MaxReports` (no crash while there are more report files than this) and
`MaxStale` (the history variable `stale_cycles` stops counting there, above the
value that `ChangeNoticed` allows).

`CHECK_DEADLOCK` is on everywhere: a process that is down can be started again
and one that is up can be killed, so no state is final.

**Fairness.**  `FairSpec`, `EpochFairSpec`, `WholeFairSpec` and `AppFairSpec` ask for weak
fairness of the process' own next step only: the program is a single thread that is never
waiting for anything but the node, whose answers the endless retries
(`web3_retry_middleware.py`) insist on.  Nobody has to restart it, nor does the
node have to make progress, so `CatchesUp`, `OracleCatchesUp` and
`MissesReported` are conditional on the process staying up and the chain coming
to rest.  In `App`, where the node may not answer, `StopTakesEffect` is
conditional on its answering for good from some time on.

### What the properties say about the code

* `OneTree`: pieces fetched by number or hash over any number of cycles, of
  whatever chains the node has had meanwhile, always fit together.  The only
  guard is the parent check in `_insert_branch` with its two exceptions for
  the first block.  Of the assertion at `block_fetcher.py:212`, which ends the
  process when a node that was reset no longer serves an orphaned parent,
  `OneTree` and `BranchResumable` say that what is stored and kept stays
  consistent over it, and not that it does not fail.
* `FailureExplained`: for reorganisations within the depth, these are all the
  ways a cycle can fail.  In particular the primary key never refuses a block,
  and once a cycle has been committed, the base of a piece is unknown only to a
  process that is wedged.
* `WedgedForGood`, `ShallowReorgSurvived`: see the findings.
* `ImplementsFeed`, `DeliveredIsStored`: what the reporters build on.
* `SkipsInOrder` is what `offline_reporter.py:134` asserts, `StepsAccounted`
  that no skip is lost, `GraceKept` that none is early, `SkipFitsAFork` that
  the block height by which a skip is attributed to a validator is one at which
  the skipped block would have been.
* `GraceKept` counts steps, as `skip_reporter.py:121-127` and its test
  (`tests/test_skip_reporter.py:110`: "step 3 + grace_period") do.
  `main.py:55` calls `GRACE_PERIOD` the "number of blocks that have to pass
  before a missed block is counted", which is the same only as long as every
  step has its block: after further skipped steps fewer blocks suffice.
* `UnreportedWithinRate` and `ReportsJustified` say of the code's arithmetic on
  a sliding window that it reports neither too late nor without reason;
  `ReportStands` that the report of a validator that will never be looked at
  again is there, although file and state are written at different times.
* `RestartHeals` is `KnownUntilMaxHeight` for every process that has not lived
  through a reorganisation of changes: an orphaned epoch is never removed from
  a running oracle, and hides later ones with lower start heights.  So it says
  that a restart gets rid of orphaned epochs, and nothing of the answers of a
  process that keeps them.
* `SkipFileComplete` is the safety half of the monitor's promise: whatever is
  over in the committed state has a line, or a block was delivered for it, so
  that no crash can drop a miss between the open proposals, the buffer and the
  file.
* `ReportsBacked` relates the two files a missed step goes to: the one with the
  report is closed while the cycle is open, the skip file is flushed at its
  end, and still no validator is in the committed set of reported ones whose
  steps the skip file lacks.  (A report of a cycle that was rolled back may name
  steps that are not in the skip file yet.)
* `EquivocationsOnFile` relates the committed database to the report files:
  the file is written while the cycle that completes the equivocation is still
  open, so that a crash may repeat a report but not lose one.
* `ReportersFailByResetOnly`: a skip may have been opened by an earlier process
  and belong to a height of an earlier cycle, and equivocating blocks may be
  orphaned; still the oracle covers the height and the node has the blocks,
  unless it was reset.  After a reset that took a stored equivocating block
  away, the cycle that stores its twin fails with `OrphanGone`, and so does
  each process that is started after it, until the node learns the block again.
* `MissesReported` is the point of the program: what is missed on the way to
  the settled tip gets its line in the skip file.
* `DateFound` is about the search and not about what it is for: it returns the
  last block that is not after the date, and never the tip, as the same search
  through all blocks would, whenever the two blocks it ended with are of the
  chain it began with and whatever happened to the ones in between.  That the
  documentation promises another block is `DateIsFirstAfter`, see the findings.
* `SyncedWhenAccepted` needs that `syncing` is asked for before the gap: a node
  goes from the one state to the other in this order.
* `ChangeNoticed` and `StateKept` bound what an edited chain spec or an old
  state may lead to: one more cycle, and no conversion that was not asked for
  or that a crash left half done.
* `StopTakesEffect` is stated for a signal that arrives once `run` has begun.
  One that arrives between the installation of the handlers
  (`main.py:554-556`) and the assignment at `main.py:181` is lost, which
  `EnterRun` shows.

### Findings

1. *A short reorganisation can stop the monitor for good* (`reorg_wedge`).
   The monitor commits a head; a reorganisation within `MAX_REORG_DEPTH`
   orphans it; before the next cycle the chain grows until the block after the
   head's number is deeper than `MAX_REORG_DEPTH`.  The forward sync fetches
   that block by number, its parent is not in the database, and
   `FetchingForkWithUnkownBaseError` ends the process, now and after each
   restart (`WedgedForGood`).  With the real depth of 1000 blocks this needs a
   monitor that was down, or a node that was not reachable, for well over an
   hour.  A TODO in `tests/test_fetcher.py:211` knows of it.
2. *A contract that changes again before it is entered is not followed*
   (`validators_early`).  `validators.py:318` compares start heights as the
   contract has them with one that was raised to the enter height.
3. *The offline window is one step wider than its size* (`offline_window`).
   `offline_reporter.py:156` keeps an interval at the cutoff, so that the
   window holds `offline_window_size + 1` steps, but line 165 divides by
   `offline_window_size`.  A validator that skips every second of its steps can
   be reported at an allowed rate of one half.
4. *A window of less than one step ends the process* (`offline_zero`).
   `--offline-window` accepts 0 and up (`main.py:508`); below the duration of a
   step the window is 0 steps, and the first skip divides by it.
5. *A date selects the block before it* (`date_claim`).  `README.md:66` says
   that a date "selects the first block validated after that date", and the
   docstring at `blocksel.py:69` that it "resolves to the first block after a
   given date".  The search returns its lower end (`blocksel.py:90`), the last
   block that is not after the date, whose successor is the promised one.  It
   needs no reorganisation; the run has a chain that is never replaced and a
   date that is no block's time.

## 4. Proofs

`tlapm` checks all of them; every theorem holds for all values of the constants
that satisfy the named `ASSUME`s of the modules.

| module | theorem | about |
|---|---|---|
| `BlockFetcherProofs` | `TypeCorrect`, `OneTreeHolds`, `BranchResumableHolds`, `DeliveredIsStoredHolds` | `Spec => []...` |
| | `FeedImplemented` | `Spec => ImplementsFeed` |
| `ReorgProofs` | `FailureExplainedHolds`, `WedgedForGoodHolds`, `HeadNeverFallsBackHolds` | `Spec => []...` for a node that is not reset; the first two for reorganisations no deeper than `MaxReorgDepth`, the first for one genesis block |
| `SkipReporterProofs` | `SkipTypesCorrect`, `SkipsInOrderHolds`, `OpenIsUnseenHolds`, `GraceKeptHolds`, `CommittedSkipsInFileHolds`, `SkipFileCompleteHolds`, `StepsAccountedHolds`, `SkipFitsAForkHolds` | `SkipSpec => []...` |
| | `SkipFeedImplemented` | `SkipSpec => ImplementsSkipFeed` |
| `OfflineReporterProofs` | `OfflineTypesCorrect`, `IntervalsAreWindowHolds`, `OfflineTimeIsSumHolds`, `UnreportedWithinRateHolds`, `ReportStandsHolds`, `ReportsJustifiedHolds`, `NeverFailsHolds` | `OfflineSpec => []...`; the last for a window of at least one step |
| `MonitorProofs` | `MonitorRefinesFetcher`, `MonitorRefinesSkipReporter` | `MonitorSpec => Spec`, `MonitorSpec => Skips!SkipSpec` |
| | `EquivocationsOnFileHolds`, `ReportsProveHolds`, `ReportersFailByResetOnlyHolds` | `MonitorSpec => []...` |
| | `WholeRefinesMonitor`, `WholeRefinesOffline` | `WholeSpec => MonitorSpec`, `WholeSpec => Offline!OfflineSpec` |
| | `ReportsBackedHolds`, `MonitorFileComplete`, `OfflineNeverFails` | `WholeSpec => []...`; the last for a window of at least one step |
| `AppProofs` | `DateFoundHolds`, `SyncedWhenAcceptedHolds`, `ChangeNoticedHolds`, `StateKeptHolds` | `AppSpec => []...`, the last an action property |
| `PrimaryOracleProofs` | `KeepsRelevantHolds`, `AnswersGovernHolds` | `OracleSpec => []...` |
| `EpochFetcherProofs` | `EpochTypesCorrect`, `FailsByReorgOnlyHolds`, `RestartHealsHolds` | `EpochSpec => []...`; the last for contracts that change above their enter height only |
| | `OracleImplemented` | `EpochSpec => OracleSpec` |
| | `FetchedAnswersGovern` | so the oracle's theorem holds where it is used |

The theorems of `BlockFetcherProofs` and `MonitorProofs` make no assumption on
the node: they hold with `NodeMayReset` and for every `ReorgBound`.  Those of
`ReorgProofs` are about what a well-behaved node guarantees; `Bounded` and
`OneGenesis` there are exactly these assumptions.

**The inductive invariants.**

* *BlockFetcher.*  None of the safety properties is inductive.  `OneTree`
  needs to know what was checked when a piece is inserted: that the first block
  of a piece is either the only block of an empty database, or not at the
  initial height unless its parent is known; for that the forward sync's head
  must not be below the initial block, and the number of a block in
  `current_branch` not either, which is the check in `_get_block`.
  `BranchResumable` needs that a branch under way is linked and that nothing is
  inserted while there is one.  `DeliveredIsStored` and the refinement need
  that the queue of callbacks holds exactly the inserted blocks that were not
  delivered, in an order in which each one's parent is delivered or queued
  before it, and the same facts of `saved`, since a crash makes the saved
  values current ones.  All conjuncts appear for the current and the saved
  values.
* *Reorganisations.*  `Permanent(n)` says that the canonical block at `n` cannot
  be replaced any more.  `Stuck` follows a wedged process through its cycle, up
  to the piece that it cannot insert.  For `FailureExplained`: the node serves
  the parents of what it serves and everything stored or under way
  (`ServedInv`); the head is the highest of a fetch and no lower than the saved
  one (`RankInv`); the initial block's height is permanent, what the forward
  sync collects is canonical, and a branch under way comes from the chain that
  has the canonical block at the initial height (`RecentInv`).
* *SkipReporter.*  `SkipsInOrder` needs that everything reported is below
  everything open, which in turn needs that all that is overdue is reported
  before the next block, and that newly opened steps are above the latest one;
  again for the saved values too.  `StepsAccounted` and `SkipFitsAFork` are
  about the whole history: `AccountInv` says of every step above the first
  block's whether it was seen, is open or was reported, and of every open or
  reported one which two delivered blocks it lies between.
* *Monitor.*  `EquivocationsOnFile` is about the committed database, so the
  open one has to be followed: of several stored blocks alike, their report is
  on file, or being logged, or one of them is still awaited by the equivocation
  reporter (`FiledInv`).  `ProofInv` says that what is being logged is alike.
  `ResetInv` holds while the node was not reset: all blocks fetched are served,
  and all heights of open skips and queued blocks are within the limit of the
  cycle, which never falls because the tip does not.
* *WholeMonitor.*  That the whole monitor implements `OfflineSpec` needs that
  the offline reporter is at most one proposal behind the skip logger
  (`HeardInv`), that a process which is down has no callbacks left
  (`DownIdle`), and that the proposals are possible ones in increasing order
  (`SkipsSound`).  The last is not proved again: the theorems of
  `SkipReporterProofs` are used through an `INSTANCE` of that module
  (`SP`), as those of `OfflineReporterProofs` are (`OP`), once it is shown that
  the assumptions of the two modules hold of the constants here
  (`SkipReporterAssumed`, `OfflineReporterAssumed`).  `ReportsBacked` follows
  from three facts of three modules: committed intervals come from committed
  skips, a reported validator has its file, and committed skips have their
  lines.
* *App.*  `SearchInv` is the loop invariant of the binary search, stated
  without reference to any one chain.  `StatusInv` adds what the first answer
  rules out, `WatchInv` where a process may be after a cycle under a changed
  file, `StateInv` which states a process may have got past the load with.
* *OfflineReporter.*  That the last interval counted decides is not inductive,
  because a reported validator is not counted any more; `InWindow` says of
  every interval whether some counted one has pushed it out.  It needs that
  intervals come from skips (`FromSkips`), which the feed keeps in order, and
  `HasFile` that a validator is counted no more once it is reported.  All three
  hold of the saved values too.  `OfflineSums` then follows the arithmetic:
  the time of an unreported validator is the number of turns of the intervals
  kept, so that what is taken away when intervals go is a part of it
  (`KeptTimeIsSum`) and it never falls below 0; and no interval counted for it
  ended a window above the rate.  The lemmas about `TotalLength` (of a union of
  disjoint sets, of a part, of a larger set) rest on the library's theorems
  about cardinalities.  The types come last, as that the time is a natural
  number is one of these facts.
* *PrimaryOracle.*  That neighbours suffice needs that ranges' indices do not
  decrease along the kept epochs, and `epochs = Relevant(known)` is itself
  inductive with it, and with start heights being unique.
* *EpochFetcher.*  `FailsByReorgOnly` needs that, without a reorganisation,
  the start heights in `todo` are ones the contract has, and that the epochs
  on their way to the oracle have validators.  `RestartHeals` rests on `Faith`:
  every epoch received is true; every change of a contract whose fetcher is
  still there was received or is one the next call will find, being above both
  the latest start height and the height of the last call (`Pending`, with
  `InTurn` for the order within one call); and a fetcher that was dropped was
  dropped for an epoch, received from a later range, that precedes everything
  missed of its contract (`Dropped`).  This needs that a contract's changes
  come at different heights and, but for the first, above the enter height
  (`ChangesInv`), the assumption that finding 2 is about.

**Only model-checked.**  Liveness (`CatchesUp`, `OracleCatchesUp`,
`MissesReported`, `StopTakesEffect`) is out of the prover's reach; of
`MissesReported` the safety half, `SkipFileComplete`, is proved.  All other
properties that the passing runs check are theorems.

## 5. Assumptions about what is outside

A node answers from one canonical chain at a time; `getBlock` with a number
above the tip answers `None`; without a reset it serves orphaned blocks by
hash.  Steps increase along a chain and only genesis has step 0.  SQLite's
commit is atomic and durable.  A contract's start heights are increasing, as
the code asserts (`validators.py:310`), and its answer for an unknown epoch is
empty.  Contracts do not change before they are entered, except for the first
time, where `EarlyChanges` is `FALSE`.  Timestamps increase along a chain.  A
Parity node that restores a snapshot says so in `eth.syncing`, and one that
fills in the blocks below it in the gap of `parity_chainStatus`; it does the
second after the first.

## 6. What could follow

1. What the state upgrade makes of the skips of the first version, once the
   states that version could be in are known (section 7).
2. `WholeMonitor` with the primaries of `EpochFetcher` in place of any list.
   The reporters are proved correct for any answers of the oracle, and the
   composition would add no shared state but the height limit, which
   `ReportersFailByResetOnly` is about.

## 7. Not modelled

* Block headers, signatures and the recovery of proposers (`blocks.py`), the
  decoding of contract answers, formatting of the files: pure functions of
  bytes.  Block identity, step and number are constants here.
* The sync status that the log shows (`get_sync_status`).
* The validation of the chain spec: what it guarantees is the assumption
  `DefinitionAssumption`.
* The `report-validator` tool: one-shot, without state of its own.
* The contents of the state upgrade.  The conversion itself is a few lines, but
  which states it is applied to depends on the first version of the program,
  and the order of the list that it makes of a set on the hashing of integers;
  neither is in the repository.
* Tests, images, continuous integration.
