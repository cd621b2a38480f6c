# Carmentis indexer: a TLA+ model

The Carmentis indexer polls a CometBFT node, copies each block of its chain into a SQLite
database and a set of append-only binary files, and serves both over HTTP. This directory holds
TLA+ modules for the parts of it whose correctness depends on failures and on the order of
steps, the configurations under which TLC checks them, and proofs that TLAPS checks.

Paths such as `sync.service.ts` are relative to `src/src/`.

## Inventory

| Part | State | Operations | Talks to |
|---|---|---|---|
| Microblock storage (`microblock-storage.service.ts`) | `handle`, `fileId`, `isNewFile`, `pointer`; the files `data/microblocks/NNNN.bin` | `beginUpdate`, `writeMicroblock`, `closeUpdate`, `readMicroblock` | file system |
| Block transaction (`sync.service.ts: syncBlock`, `state-commit.service.ts`) | the SQLite tables, inside one transaction per block | `commitBlock`, `beginMicroblockUpdate`, `commitMicroblock`, `closeMicroblockUpdate`, `commitBlockMicroblocksAndFees` | storage, node |
| Synchronizer (`sync.service.ts`) | `syncDelay`, the armed timer, the loop variables, `ChainEntity` | `scheduleNextSynchronization`, `synchronize`, `getSyncStatus` | node, transaction, sync state |
| Sync state (`sync-state.service.ts`, `app.controller.ts: checkApiAvaibilityOrFail`) | `dbHeight`, `chainHeight`, `initialized` | `setHeights`, `getStatus` | gates every data endpoint |
| CometBFT client (`cometbft-api.service.ts`) | `nodeUrls`, `nodeIndex` | RPC and ABCI queries, `changeNode` | up to four nodes |
| Account synchronisation (`sync.service.ts: syncModifiedAccounts`) | accounts, history, locks | paged updates until a known entry | node |
| Voting powers (`sync.service.ts: syncVotingPowers`, `query.service.ts`) | current and historical powers | difference with the validator set | node |
| State tables (`state-commit.service.ts`) | virtual blockchain heads, sections, organizations, applications, nodes, hourly statistics | upserts per microblock and signature | transaction, node status |
| Node status (`node-status.service.ts`) | cache, pending updates | refresh on demand, `updateAll` | every validator node |
| Node rewards (`node-reward.service.ts`) | none | sum over hours | powers, statistics |
| Search, lists, reads (`search.service.ts`, `app.service.ts`, `virtual-blockchain.service.ts`) | none | queries with limits and offsets | tables, storage |
| Proof endpoints (`app.service.ts: getMicroblockProof, getAccountProof`) | none | one query relayed to the node | node |
| HTTP surface, entities, DTOs | none | declarations | |

How they interact: a timer calls `synchronize()`; it asks the current node for its head, and for
each missing height runs one database transaction in which the state-commit service writes rows
and the storage service writes bytes; the transaction of a block that declares a validator node
waits for that node's status; after each transaction the sync state learns the new height. HTTP
handlers run between any two awaits of that chain, on the same SQLite connection, and so see the
rows of a transaction that may still be rolled back.

What is hard: two stores (SQLite and files) that only agree if the file is durable before the
COMMIT; exceptions at any await, with state outside the transaction that no rollback undoes;
process and machine crashes; nodes that stop, lag, prune or follow another chain; account states
fetched for the head of the chain while an older block is being stored; counters and differences
that a second run of a block must not count twice; updates shared by concurrent requests; a gate
whose state is only in memory. `PROJECT.json` lists the hazards at their lines.

What makes each part correct: a committed microblock can be read back (storage, transaction);
the block table is one chain without gaps that only grows (synchronizer); the API serves only
when it is close to the head (sync state); the indexer never stops for good (synchronizer);
account history has every entry and fits the balances (accounts); a validator's power is the one
of the last set, and its history holds the changes (voting powers); heads, references and totals
fit the rows they summarise (state tables); a cached status is as recent as its timestamp says,
and nobody waits long for it (node status); answers fit together, page after page and hour after
hour (reads, rewards).

## Modules

| Module | What it models |
|---|---|
| `MicroblockStorage` | `MicroblockStorageService`, and the files: directory entry, page cache, disk |
| `BlockStore` | one block's transaction over `MicroblockStorage`, with its faults and its readers |
| `BlockArchive` | what `BlockStore` promises: an archive that grows by whole blocks |
| `BlockStore_proofs` | their theorems: durability, file bookkeeping, refinement |
| `CometbftApi` | `CometbftApiService` (choice of the node) and the nodes |
| `Synchronizer` | the timer chain, the loop over heights, failover, the gate |
| `ChainIndex` | what `Synchronizer` promises: an index of one chain, appended in order |
| `Synchronizer_proofs` | their theorems |
| `AccountSync` | the rounds of account updates in the transaction of a block |
| `AccountLedger` | what `AccountSync` promises: ledgers that are only extended |
| `AccountSync_proofs` | their theorems |
| `StateCommit` | the other tables, step by step, and the voting powers |
| `StateCommit_proofs` | its theorems: types, references, heads, the voting power history |
| `StateTotals_proofs` | its theorems: totals, statistics and voting powers |
| `Sums` | what the sums of `Functions` compute for a finite set |
| `ApiReads` | what HTTP handlers answer from the tables of `StateCommit`, between its steps |
| `ApiReads_proofs` | its theorems |
| `NodeStatus` | the status service, its callers and time |
| `NodeStatus_proofs` | its theorems: the updates; what their answers are worth |
| `MCBlockStore`, `MCSynchronizer`, `MCAccountSync`, `MCStateCommit`, `MCApiReads`, `MCNodeStatus` | instances for TLC |

The transaction of a block appears in three modules, each with the tables that depend on one
another: `BlockStore` (microblocks and files), `AccountSync` (accounts, history, locks) and
`StateCommit` (everything else, where `syncModifiedAccounts()` is one step). `Synchronizer` takes
it as one step.

Operators marked as mutants change one definition the way a bug would. No specification uses
them: `PROJECT.json` names, for each checked property, the mutant that breaks it.

### MicroblockStorage and BlockStore

A file is a row of cells; a microblock of size n fills n cells `<<m, 1>> .. <<m, n>>`, so the
bytes of two microblocks, or of two halves of one, are told apart. Each file has a directory
`entry` (absent, cached, durable), a `content` and `length` that reads see, and a `disk` and
`diskLength` that are known to be on disk. A power loss keeps any subset of the unsynced cells,
any length between the synced and the current one, and any subset of the cached entries.

`FsyncPersistsEntry` says whether an fsync of a new file also persists its directory entry (ext4
and most journaling file systems do; POSIX does not promise it). `DirSyncMayFail` is the caught
and logged failure of the directory's fsync.

`pc` is the point the transaction has reached; each action takes it over one await of
`syncBlock()`: `StartBlock` (`commitBlock`), `BeginMicroblockUpdate`, `SaveMicroblock` and
`StoreBytes` (`commitMicroblock`: the row first, then the bytes), `SyncUpdate` and `CloseUpdate`
(`closeMicroblockUpdate`), `CommitBlockMicroblocks`, `Commit`. `db` is the committed database and
`tx` what the transaction sees. `CallFails` is an exception at a point in `FaultPoints`; it rolls
the database back and leaves the storage service as it is, because no code resets it.

`NothingToSync` is the poll that finds no new block; it keeps an idle indexer from looking like a
deadlock. `MaySkip` abstracts a node without data for a height (`Synchronizer` has the reason),
`MayReset` the operator who deletes the database, as the mismatch message asks, but keeps the
files.

SQLite is taken as atomic and durable (the default rollback journal with full synchronisation; the
code sets neither). The directory `data/microblocks` itself, created by `mkdir`, is taken as
durable.

### CometbftApi and Synchronizer

A node stores a block, then executes it: `/status` reports the stored height while the ABCI
queries answer for executed ones (`StatusAhead` lets the second trail by one). `Base` is the
lowest height its application answers for and `CommitBase` the lowest commit its block store
keeps; `ChainOf` and `EarliestHash` say which chain it follows.

One poll is `TimerFires`, then `GetSyncStatus` or `SyncStatusFails`, then for each height
`CommitBlock`, `SkipBlock`, `BlockFails` or `TransactionThrows`, then `EndLoop`. A transaction is
one step here: its inside is `BlockStore`, and the one thing of it that outlives a rollback, the
open file, is `storageOpen`. A poll that ends, well or not, first arms the timer with the delay in
force and then changes the delay, as the `finally` block and the handlers do. `height` and `latest`
go back to 0 outside the loop, so that equal states are equal.

`dbHeight`, `chainHeight` and `initialized` are `SyncStateService`; `Synchronized` is the condition
under which `checkApiAvaibilityOrFail()` lets a request through. `onModuleInit()` also refreshes the
node statuses, which changes nothing modelled here; `NodeStatus` has it as `BootUpdate`.

### AccountSync and AccountLedger

`syncModifiedAccounts()` asks the node which accounts the block modified, then fetches updates in
rounds. What a node answers is its state now (`asOf`), not the state after the block. The history
hash after the k-th entry of an account stands as k, so that "the entry before this one" is k - 1
and the null hash is 0.

`Begin` opens the transaction and requests the modified accounts with their last known entry;
`FetchUpdates` is a response: updates for some of the requested accounts, each with at most
`PageSize` entries, newest first; `BeginUpdate` takes one of them, and stores the account row and
its locks if it is the first for this account; `CommitEntry` stores one entry and derives the
balance before it; `FinishUpdate` drops the request when the last known entry is met and otherwise
asks for the rest. `Commit`, `Fail` (rollback, then another node) and `NodeAdvances` complete it.
After a failover to a node that lags, the last known entry is not on the way and the rounds go down
to the first entry again: `Stop` says so.

`AccountLedger` has one ledger per account: entries with balances. A step extends ledgers and moves
the index by one block; no entry is ever changed, and no ledger is behind the last indexed block.

### StateCommit

`db` is the record of tables as the transaction and the HTTP handlers see them, `saved` the
committed one; `at` is the step the transaction has reached. The steps are the awaited calls of
`syncBlock()` in their order: `CommitBlock` (with `ValidatorStats` for proposer and signers),
`SyncModifiedAccounts`, and per microblock `CommitRow`, `SaveCustomSections`, `SaveObject`,
`UpdateMicroblockStats`, `UpdateVirtualBlockchain`; then `CommitBlockMicroblocksAndFees`,
`SyncVotingPowers` and `Commit`. `Fail` rolls back, either because the next step must throw
(`Throws`: a column without a value, an organization whose account has no row, a previous
microblock that is not stored) or because of a counted fault.

Section kinds with the same effect share a name: `ORG_DESCRIPTION` stands for the columns of an
organization's description, `VN_COMETBFT_PUBLIC_KEY_DECLARATION` for key, key type and address.

The chain is external data with four assumptions, all of the nodes; the indexer checks none of them.

- `ChainAssumption`: it is well formed; microblocks and the sections of each are finitely many.
- `ValidatorAssumption`: CometBFT lists a validator, and so its address, once in the set of a block
  and with one signature in its commit.
- `VirtualBlockchainAssumption`: a microblock is in one block, extends one of its type at the height
  below, and is extended by one at most.
- `TimeAssumption`: the time of the blocks does not go back.

### ApiReads

Handlers change no table, so an answer is a function of `db` and of a query, a record with the
parameters given. Modelled are the filters of each list, the aggregates over heights and hours,
sections with their certificates, the accrued reward, search by type, and lists page by page. A
client's walk over blocks is a process: `StartWalk`, `FetchPage`, then `ReadSignatures` once for each
block of the page, each between any two steps of the transaction.

`QueryAssumption` types the caps and the parameters; `"__cert__"`, the tag of the sections with
certificates, is not the null tag. `GenesisDeclares` says that the first microblock of an organization,
a node or an application declares it, as the nodes demand; one theorem takes it as a hypothesis, and
`MCApiReads` evaluates it for its chain.

### NodeStatus

Time is counted in ticks and kept as ages, capped where older makes no difference. A call of
`updateNodeStatus()` is `ReadRow`, then `StatusArrives`, `MempoolArrives` or `FetchThrows` for its
two fetches, each of which has its own deadline: `Tick` does not pass it. `Request` is
`getNodeStatus()` when the answer is not immediate: it starts an update or joins the pending one.
`BootUpdate` is `updateAll()`, one node after the other before the server listens. `SaveNode`,
`AskStatus` and `EndTransaction` are `saveValidatorNode()` inside a block's transaction, which ends
with a commit or a rollback. `QueryFails` and `ProcessEnds` are the faults.

The cached object is changed in place while other requests may answer it: `object` is that object,
and `StampHonest` is about every state of it.

## Runs

| Run | Shows |
|---|---|
| `store_crash` | `TypeOK`, `CommittedReadable`, `VisibleReadable`, `NeverShorterThanExpected`, `FileHeightsCover`, `FullFilesClosed` and `ImplementsArchive` (refinement of `BlockArchive`) under every fault, when fsync persists entries |
| `store_lost` | when it does not: `NeverWrongBytes`, a lost file gives errors, never other bytes; `IndexedUnlessLost`, when exceptions stay outside the window in which the file is open |
| `store_wedged` | violation: one exception inside that window stops the indexer until a restart |
| `store_adopted` | violation: a file adopted after a crash is committed to without a directory sync |
| `sync` | `TypeOK`, `GateSound`, `ImplementsChainIndex` (refinement of `ChainIndex`), `CatchesUp`, `HeadRefreshed`, `CadenceSettles` |
| `sync_gap` | violation: a block the node has no data for is skipped for good |
| `sync_gate` | violation: after a restart with nothing to fetch the API stays closed |
| `accounts` | `TypeOK`, `HistoryComplete`, `AccountsCurrent`, `EntriesRight`, `ImplementsLedger` (refinement of `AccountLedger`), `AllIndexed` |
| `tables` | tables: `TypeOK`, `ReferencesResolve`, `HeadsMatch`, `TotalsAddUp`, `BlocksCounted`, `PowersFollowSet`, `PowersAreChanges`; answers: `WalkExact`, `AnswersOrdered`, `AnswersLink`, `CertificatesServed`, `RewardMatchesHours` |
| `powers_dropped` | violation: a node that declares a new key loses its power although the set still has the former one |
| `reward_end` | violation: the accrued reward counts hours after `end_time` |
| `node_status` | `TypeOK`, `PendingIsRunning`, `WaitsBounded`, `StampHonest`, `EndpointFollowed`, `FetchesSpaced`, `AllAnswered` |

The violations are findings, described in `PROJECT.json` with the lines they are about.

What some of the properties say, exactly:

- `GateSound` is relative to the head the API itself reports, which is as old as the poll that stored
  the last block. `HeadRefreshed` says that it does not stay old: once faults stop it is the chain's.
- `IndexedUnlessLost` supposes that no file stays shorter than the database says. Such a file lost
  committed bytes, and an update that would append to it is refused for ever.
- `TotalsAddUp` and `BlocksCounted` speak of every hour on its own. A block counts for the node that
  alone had declared the key before it; a key of several nodes counts for none of them, as
  `updateValidatorStats()` wants exactly one record.
- `PowersFollowSet`: a key that several nodes declare has its power at exactly one of them, whichever
  `findOne()` returns, and the others have none. It takes the key a node declares now: a node whose new
  key is not in the set yet has power 0 by it, which is what `DroppedLeftSet` objects to, and fails.
- `RewardMatchesHours` counts time from the hour of `start_time`, rounded down as
  `roundTimestampToHour()` does, to `end_time` or the last change of the node's power, whichever is
  later. `RewardEndsAtEndTime`, which fails, wants `end_time` in any case.
- `StampHonest` is about the status and its age. The other fields of the status object are data the
  model leaves out: an answer may mix those of two fetches, and no property says otherwise.

### Bounds

- `MCBlockStore`: three microblocks of one and two cells, three blocks, files that are full at three
  cells in `store_crash`, at two in the other runs. One chain fills a file (exactly, in
  `store_crash`), has an empty block and needs a second file; the other appends a block to a file in
  use, which then exceeds the maximum, and whose new microblock extends one of an earlier block.
  Three faults: enough to crash during an update, crash during its retry, and lose power after the
  commit.
- `MCSynchronizer`: four slots of which the second is empty, so that failover wraps and skips; two
  chains; the first node has pruned the commit of block 2; heights up to 2, which with
  `MaxDifference = 1` (5 in the code) gives a gate that is closed, open below the head and open at
  it; three faults. About 390,000 states, two to three minutes. `sync_gap` has heights up to
  3, for a block after a hole.
- `MCAccountSync`: two accounts, three blocks, up to five entries with two per response, so that a
  history needs several rounds; a lock without an entry and a lock removed; two nodes at different
  heights; two faults. About 20,000 states.
- `MCApiReads` over `MCStateCommit`: eight blocks of an account, an organization with certificates,
  an application and two nodes; a validator leaves the set and comes back, a node changes its key,
  both nodes declare the same key, and block 8 creates an organization the database refuses. Walks
  with a limit of 2 that start from block 6 on and an offset cap of 6, so that a walk reaches the
  cap; hours of two ticks; one rollback besides block 8's. About 16,000 states.
- `MCNodeStatus`: one node, because the service keeps nothing in common between nodes but the order
  of `updateAll()`; two endpoints, one request besides the synchronizer (a third caller joins an
  update as the second does), a refresh delay of one tick and a timeout of two, so that a status may
  be refreshed before, during and after a slow update; one fault. About 150,000 states.

### Fairness

- `BlockStore`: weak fairness of the service's steps and of the restart of the process: the timer
  chain never ends, every await returns or throws, and a supervisor restarts the process.
- `Synchronizer`: the same, and a node that stays up stores and executes blocks. Nothing is assumed
  of a node that is down; `CatchesUp` and `CadenceSettles` say under which behaviour of the nodes
  they hold.
- `AccountSync`: weak fairness of the service's steps, and nodes that advance to the end of the
  chain.
- `NodeStatus`: time passes, the database answers, a fetch returns or throws (its signal aborts it),
  and `updateAll()` goes on.

Faults are bounded, so they stop. `accounts`, `tables` and the violation runs on its instance do not
check deadlock: when every block of the bounded chain is stored, nothing is left to do.

## Proofs

Every safety and action property of the passing runs is proved, as are the three refinements.
Everything here holds for any microblocks, sizes, chains, nodes, bounds and faults.

`BlockStore_proofs`:

- `TypeCorrect`: `Spec => []TypeOK`.
- `Durability`: `Spec => []CommittedReadable`, `NoPanic`: `Spec => []NeverShorterThanExpected`, and
  `ReadersSafe`: `Spec => []VisibleReadable`, from `EntriesSurvive`: either fsync persists entries,
  or no process ends without the machine and no directory sync fails. `store_adopted` shows that the
  assumption is needed.

`CommittedReadable` is not inductive: it says nothing of the disk, from which a power loss restores
the files, nor of the uncommitted tail, which a later update overwrites. `DurabilityInv` adds: the
rows of `db` lie below the recorded size of their file; below that size cache and disk agree, the
disk is long enough and the entry durable; the rows of `tx` that are not in `db` lie between the
recorded size and the pointer; the file being written is the last one; once synced, the disk has
everything below the pointer. Writes only happen at or above the recorded size, so they keep the
committed prefix, and a commit moves the recorded size only after the sync.

Also in `BlockStore_proofs`, without any assumption on the file system:

- `FileHeights`: `Spec => []FileHeightsCover`. `HeightsInv`: the heights recorded for a file are
  blocks', the file in use is the newest, and a row is covered by its file's heights unless it belongs
  to the block being stored.
- `FullFiles`: `Spec => []FullFilesClosed`. `FullInv`: the transaction sees the committed files until
  it chooses one, which is then a new one or not full, and the file is closed by the time its new size
  is committed. An exception may leave a file open, but never one that was full.
- `BytesOrError`: `Spec => []NeverWrongBytes`. `LossInv`: a file is empty, because a
  power loss took it, or has the bytes of its rows in the cache and on the disk. Each step keeps
  that: an update writes from the recorded size on, and `beginUpdate()` refuses a file shorter than
  that, so a file that lost its rows is not written again.

Also in `BlockStore_proofs`:

- `Refinement`: `Spec => ImplementsArchive` from `EntriesSurvive` and `NoMicroblockTwice` (no two
  blocks share a microblock). `ArchiveInv` relates rows to blocks: each row is one of a
  stored block and of its microblocks, and the transaction adds one block above the stored ones, with
  the rows it has come to.

`Synchronizer_proofs`:

- `TypeCorrect`: `Spec => []TypeOK`, which includes that the node in use has a URL.
- `Gapless`: `Spec => []NoGaps`; `Gate`: `Spec => []GateSound`; `Refinement`:
  `Spec => ImplementsChainIndex`; from `EveryBlockServed`: each node answers for its blocks from the
  first one. `sync_gap` shows that the assumption is needed.

The invariant `TableInv` relates the loop to the table: in the loop the current node's hash is the
recorded one, `latest` is at most what the node stores, every stored height is below `height`, and
the block before `height` is stored unless the loop is over. A skipped height can only be `latest`
(`OnlyHeadIsSkipped`), because execution trails storage by one block; so a skip ends the loop and
the next poll starts at the same height again.

`AccountSync_proofs`:

- `Types`, `Complete` (`HistoryComplete`), `Current` (`AccountsCurrent`), `ReadEntries`
  (`EntriesRight`) and `Refinement` (`ImplementsLedger`).

The committed tables alone are not inductive, since a commit takes over what the rounds left.
`IInv` says where the rounds are: for an account that is requested, the entries from the row's last
one down to the next to fetch are stored with their balances, and the balance carried is the one
before them (`Between`); an account whose request is done has everything (`Reached`); one that no
update has reached is as committed (`Fresh`); and nothing committed is missing from the
transaction's tables (`Extended`).

`StateCommit_proofs`, from the assumptions on the chain:

- `TypeCorrect` (`TypeOK`), `References` (`ReferencesResolve`), `HeadsAreLast` (`HeadsMatch`) and
  `HistoryOfChanges` (`PowersAreChanges`).

`IInv` has each part for `db` and for `saved`, to which a rollback returns. `Resolve` is about the
references; `RowsInv` says which microblocks have a row at each step, and that the rows of a virtual
blockchain, but for the microblock in process, have the heights 1 to that of its head; `PowersInv`
that a node has one power per height, that adjacent ones differ, and that none is of a later block.

`StateTotals_proofs`:

- `TotalsAreRows` (`TotalsAddUp`), `CountedOnce` (`BlocksCounted`) and `PowersOfLastSet`
  (`PowersFollowSet`).

`TInv` relates each total to the rows it counts at every step, also of the block in process: the
committed rows are those up to the last block and the transaction adds only rows of its own
(`ChainRows`); the fees so far are those of the rows so far, plus the microblock in process
(`BlockTotals`); each bucket of the hourly statistics lacks at most that microblock (`MbTotals`).
`BlocksCounted` speaks of keys in former blocks, the code of a column now, so `Keys` says that the
column is the key declared last, and `ValTotals` that the statistics credit the only user of a key
before the block. `PowersFollow` ties the column to the last history row, and after the commit to
the validator set: for each of its keys, to the one node the loop found for it (`SetFollowed`).

`Sums` has the lemmas on sums these proofs need: a sum does not depend on the order in which its
elements are taken, splits over a disjoint union, follows a change of one summand, counts a set by its
parts. Each is an induction over a finite set without an induction theorem: the sets of
counterexamples have a smallest one, since strict inclusion of finite sets is well founded.

`ApiReads_proofs`, for `SpecReads`, where requests come between any two steps of the transaction:

- `LinksLead`: `GenesisDeclares => (SpecReads => []AnswersLink)`.
- `CountsDifferByOne` (`AnswersOrdered`) and `CertificatesAreServed` (`CertificatesServed`).
- `WalksAreExact` (`WalkExact`), for any limits and any cap of the offset.
- `RewardsMatchHours` (`RewardMatchesHours`), for any `HourTicks`, start and end, changes of power
  before the start and after the end included.

`RInv` adds to the invariants of the tables that block rows and signatures are those of the chain
(`BlocksWhole`), that a virtual blockchain's rows have the type of its first microblock and its object
a row (`TypesFollow`), and that stored microblocks have their custom sections (`SectionsFollow`).

`WInv` is about the walk: in ascending order what the client has, with the page in its hands, is
1 .. n, and the offset is n. Descending, the offset counts from a top that moves: as long as nothing
is rolled back, a height that is less than the offset below the top has come (`Passed`); a new block
raises the top and so only delays. `InOrder` ranks rows by how many come before; that it lists each
once, in order, is `Ordered`.

The accrued reward is a recursion over the changes of the power. Its value after the i-th change has
a closed form, what is due hour by hour up to that change (`Accrued`), which satisfies the
recursive equation (`AccruedStep`); the equation has one solution (`AccrualUnique`, on the least index
at which two would differ). That a period has one power in all its hours needs the history in the
order of the hours: `PowersDated`, with `TimeAssumption`; a block without a commit, the genesis block,
dates its rows with time 0 (`PowersHour`). When the last change lies after the end, the last period is
empty and the sum goes up to that change (`LastCounted`).

`NodeStatus_proofs`:

- `Types` (`TypeOK`), `SharedUpdates` (`PendingIsRunning`), `BoundedWait` (`WaitsBounded`).

A wait is bounded although it may join an update late or be joined: `IInv` bounds the age of a
wait by what the update has spent, one timeout per fetch.

Also in `NodeStatus_proofs`:

- `HonestStamps` (`StampHonest`), `DeclaredEndpoint` (`EndpointFollowed`), `SpacedFetches`
  (`FetchesSpaced`).

The three speak of finished updates, while the object is filled by running ones. `AnswersInv` adds
what a running update has: it began because the status was old; the endpoint it asks is the declared
one unless that changed since; the answer it has is as old as its second fetch. That a node has one
update at a time (`OneUpdate`, from `IInv`) keeps all of it while other callers take steps.

Only model-checked: the liveness properties (`IndexedUnlessLost`, `CatchesUp`, `HeadRefreshed`,
`CadenceSettles`, `AllIndexed`, `AllAnswered`), which need fairness, and with it ENABLED. The
violations are TLC's counterexamples; nothing is proved of them.

## Observations

What the modelling showed besides the findings, each at its line; the model has it by construction, or
it needs no model to be seen.

- `latestBlockHeight` is read once per poll (`sync.service.ts:79`): during a first synchronisation the
  API opens within `MAX_HEIGHT_DIFFERENCE` of the head of the time the poll began, however far the chain
  has grown since (`README.md:40`: "until the indexer has caught up with the chain head").
- A search without a type searches nothing, although `dto/query.dto.ts:101` documents the default
  "all": `search()` compares the parameter as it came (`app.service.ts:190`).
- A poll arms the timer before it chooses the delay, so the cadence follows the outcome one poll
  late (`sync.service.ts:82`); it settles (`CadenceSettles`).
- An account's row may go back to an earlier state after a failover to a node that lags; it is never
  behind the last indexed block (`AccountsCurrent`). Its locks are replaced one by one while
  `getAccounts()` may read them.
- Validators beyond the page `getValidators()` reads have power 0.
- An update that finds no row stamps the former status again, and a status fetched by `updateAll()`
  has no timestamp, so the first request repeats the fetch.
- A list walked in descending order repeats blocks that new ones have pushed down, and may miss one
  after a rollback; above the largest offset every page is the same one with `hasMore` true.
- The accrued reward counts the whole hour of `start_time` (`node-reward.service.ts:56`), which
  `dto/query.dto.ts:693` documents in milliseconds; the statistics it rests on are hourly.
- Until a fetch ends, the cached status object of a node has some fields of that fetch and some of the
  former one (`node-status.service.ts:66`), and requests may answer it.
- Block timestamps are documented in seconds (`dto/query.dto.ts:149`) and compared with milliseconds.
- `plannedUnlock` and `plannedSlashing` of the balance availability are swapped
  (`app.service.ts:443`).
- The README of the repository describes one variable `NODE_URL` with a default; the code reads
  `NODE1_URL` to `NODE4_URL` without one and throws when all are empty (`cometbft-api.service.ts:61`).
  The model assumes at least one is set.

## Not modelled

- Proof endpoints: one query to the node and an encoding of its answer, no state.
- The paid reward (a sum over history rows chosen by a text pattern) and the balance availability,
  which the SDK computes from the locks.
- Limits inside a search: what `take(0)` returns is TypeORM's.
- Routing, validation pipes, Swagger, entities and DTOs beyond the columns and parameters the
  properties tell apart; vendored CometBFT types; dates.
- A node whose chain is reset, or that prunes, while the indexer runs: the nodes' chains and hashes
  are constants. No code of the indexer reacts to either.
- SQLite is taken as atomic and durable.

## Plan

1. Done: `MicroblockStorage`, `BlockStore`, `Synchronizer` with their abstract specifications and
   proofs, the refinement of `BlockArchive` included.
2. Done: `AccountSync` with `AccountLedger`; `StateCommit` with the voting powers; `ApiReads`;
   `NodeStatus`; the proofs of their invariants, of the sums and of the answers.
3. Left: `Indexer`, the composition of `Synchronizer` with `BlockStore` as its transaction; nodes
   that prune or are reset.
