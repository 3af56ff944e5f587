# A verification of koinos-token-tracker

koinos-token-tracker follows a Koinos node and keeps, in one SQLite file, the
balances, the transfer history, the addresses and the blocks of KOIN, VHP and
any token registered with `--track-token`. This directory holds TLA+ models of
it, the TLC configurations that check them, and theorems checked by TLAPS.

Everything is translated from the Go source; paths below are relative to `src/`.

## 1. The system

| Part | Source | State | Operations |
|---|---|---|---|
| indexer | `internal/indexer` | none | `ProcessBlock`: a block to addresses, balance changes, transfers |
| store | `internal/store` | the database, the open transaction, a mutex | one SQL statement each, `BeginBatch` / `CommitBatch` / `RollbackBatch` |
| sync | `internal/sync` | locals of one call | `SyncToHead`, batches of 1000 blocks up to the LIB |
| backfill | `internal/backfill` | locals of one call, the progress record | `Run`: a token's account history, page by page, up to its cutoff |
| main | `cmd/koinos-token-tracker` | phase of the process, `cfg.ExtraTokens` | register, load, import, catch up, live loop |
| reconcile | `internal/reconcile` | channels and goroutines | `Run` (overwrites KOIN and VHP balances), `CheckToken` (compares only) |
| api | `internal/api` | HTTP server | read handlers on the same store, start and drain |
| config | `internal/config` | contract ids, migration height | `Load`, `SetExtraTokens` |
| others | `web/`, `cmd/debug-addr`, `openapi.go`, `explorer.go`, `Dockerfile` | none | static pages, a debugging command, build |

How they interact. `main` runs everything that writes in one goroutine, one
after the other: registration, import, startup sync, optional reconciliation,
live loop. All of them write through the same store; a batch is one SQLite
transaction. API handlers read the same store at the same time. Two services
feed the process: the node (AMQP: `GetHeadInfo`, `GetBlocksByHeight`) and the
account history of a REST node, a separate indexer that lags behind the chain.

What is hard:

* **failure inside a batch**: a block is a dozen statements and a batch many
  blocks; errors and crashes come between any two of them;
* **power loss**: `synchronous=NORMAL` with a write-ahead log keeps the database
  consistent but may lose the last commits, so sync height, balances, history
  and import cursors have to go back together;
* **finality**: the node forks above the LIB; head, LIB and target are read once
  and used for a whole catch-up;
* **boundaries**: the migration block inside a batch, the last batch, a page
  boundary inside a block, a cutoff equal to the indexer's height;
* **order**: balances clamp at zero, so a spend applied before its funding is
  lost, hence import before sync;
* **a racing indexer**: an exhausted history proves nothing until the history
  indexer is known to have passed the cutoff;
* **restarts**: with other flags, between registration and import, in the
  middle of either;
* **one connection**: `SetMaxOpenConns(1)` makes writers and API requests wait
  for each other, and `exec()` chooses between transaction and database without
  the mutex that guards the choice;
* **goroutines**: the reconciliation's feeder, workers and writer over bounded
  channels, and the server's drain racing its timeout, the signal and the
  closing of the database;
* **a chain under the caches**: the import keeps what it learnt about blocks
  while the node reorganises.

What makes each part correct: the sync commits exactly a prefix of the
irreversible chain, with the balances and rows that prefix implies (§3.1); the
import commits exactly what its progress record claims and does not report ready
early (§3.2); together they count every event of a registered token once (§3.3).
A batch is atomic and one at a time, an API answer never shows the older half of
one, a reconciliation settles every address or reports an error, and a shutdown
answers or cuts every request before the database is closed (§3.4). An entry of
an account history is placed by its canonical block, both event decoders count
the same move, and a verification records what it has seen (§3.5).
`PROJECT.json` lists each hazard at its line with the properties that guard it.

## 2. Modules

```
TokenEvents   internal/indexer, pure            ChainView   abstract promise of the sync
     |                                               |
TokenStore    internal/store: tables, statements     |
     |-------------------------.                     |
BlockSync  <- refines ---------|---------------------'
     |                    HistoryBackfill
     |         INSTANCE        |        INSTANCE
     '-------->  Tracker  <----'

StoreBatch       internal/store: batches, mutex, connection, requests
TransferQueries  internal/store, internal/api: GET /transfers
ExplorerQueries  internal/store, internal/api: /holders, /producers, /blocks
Reconcile        internal/reconcile: Run and its goroutines
ApiServer        internal/api, main(), runAPIOnly(): serving and shutdown
EntryResolution  internal/backfill: blockOf and its caches
EventDecoding    internal/indexer, internal/backfill: both event decoders
Verification     internal/reconcile, main(): CheckToken and its callers

<Module>Proofs   theorems about BlockSync, HistoryBackfill, Tracker, StoreBatch,
                 Reconcile
ServingProofs    theorems about ApiServer, TransferQueries and ExplorerQueries
ImportDataProofs theorems about EntryResolution, EventDecoding and Verification
TokenStoreProofs lemmas about the statements and about sums over finite sets, for
                 BlockSync and HistoryBackfill
MCBlockSync, MCHistoryBackfill, MCTracker     instances for TLC
MCServing        StoreBatch, TransferQueries, ExplorerQueries, Reconcile and
                 ApiServer side by side
MCImportData     EntryResolution, EventDecoding and Verification side by side
```

**TokenEvents.** Contracts and addresses are model values. A decoded event has a
source, a kind, two addresses, a value, the addresses it impacts, and the
`reverted` flag of its transaction. `Recorded` is what `processEvent` keeps,
`ChangesBalance` adds `affectsBalance`, `BlockAddresses` is the address set of
`ProcessBlock`. An event is what decoding yields (see EventDecoding). Amounts above `MaxSafeValue` stand for those above `math.MaxInt64`.

**TokenStore.** `Database` is one record, a field per table; each SQL statement
is an operator from databases to databases. `UpsertAddresses` keeps the first
height (`DO NOTHING`), `LowerFirstSeen` the lower one. `AdjustBalance` is the
get, add, clamp, set that sync and import both do. Timestamps, symbols, decimals
and transaction ids are left out. The primary-key upserts of the schema become
function updates, `transfers` a set of rows told apart by `id`.

**BlockSync.** `db` is the committed database, `tx` what the writer sees (equal
to `db` when no batch is open), `durable` what a power loss would leave. `pc`
walks through one call of `SyncToHead`:

| Action | Code |
|---|---|
| `StartSync` | `GetSyncState`, `GetHeadInfo`, target, early return |
| `ReceiveBlocks` | loop test, count, `GetBlocksByHeight`, `BeginBatch` |
| `EmptyAnswer` | the `len(items) == 0` branch, with the refresh and the loop's post statement |
| `BeginBlock` | double-processing guard, VHP reset, addresses |
| `ApplyChange` | one event's debit and credit |
| `ClearHistory`, `WriteTransfer` | delete at the height, one insert |
| `FinishBlock` | `InsertBlock`, `SetSyncState` |
| `Commit`, `LoopDone` | `CommitBatch`, the post statement, the end of the loop |
| `RpcError`, `WriteError` | error returns, with `RollbackBatch` |
| `Crash`, `PowerLoss` | the process or the machine dies |

`ApplyChange` and `WriteTransfer` step through the events one at a time, so an
error or a crash comes between any two events; statements of one event, and the
address upserts of one block, are one step, since nothing else reads the
transaction and an interruption discards it whole. The node holds the chain that
becomes final, its head and LIB; above the LIB known at the last `GetHeadInfo`
an answer may contain any block (`Answers`), below it only the final one.

**HistoryBackfill.** `stage` walks through `runBackfills` and `Run`:
`ListPending`, `TakeToken`, `CollectPage` (fetch, stop before the first entry
above the cutoff, refuse unusable values), `CheckCoverage` (`HistoryHeight`
against the cutoff), `ApplyOp` per event, `CommitPage` (page and progress record
in one transaction, then the error of a lagging indexer, the end or the next
page), `Verify`, `AllDone`. Errors lead to `paused`, from where `main` calls
again. The history service is external: it serves the entries up to the height
it has reached, ascending; entry *i* has sequence number *i* - 1.

**Tracker.** `main`: `Start` with any flags, `RegisterToken`,
`LoadExtraTokens`, then the actions of `HistoryBackfill` until it is ready, then
those of `BlockSync`. It instantiates both modules on one store. Its history is
derived from the chain (`HistoryOn`), so import and sync see the same events, and
the history indexer lags behind the LIB by any distance. `Crash` also stands for a signal
and for `os.Exit` after a failed registration or startup sync.

**ChainView.** The abstract specification of the sync: two chains, of which the
indexed one is always a prefix of the irreversible one; it grows by publishing
(any number of blocks at once) and shrinks only by a loss. `BlockSync!View`
maps `indexed` to the block table up to the sync height.

**StoreBatch.** A table is known by the number of the batch that wrote it last.
A writer goes through `Lock` (`s.mu.Lock()`), `Begin` or `BeginFails`, one
`Statement` after the other, `StartCommit` / `StatementFails`, `FinishCommit` /
`FinishRollback`, `ClearTx` and `Unlock`: `BeginBatch` to `CommitBatch` or
`RollbackBatch`, split wherever another goroutine can see the difference. A
handler is the sequence of its queries (`Plan`); each query is `Exec` (reads
`s.tx`, once and unlocked), `Query` (in that transaction, or on the connection
when it is free) or `QueryFails` (the transaction ended in between), and
`CloseRows`. `Begin` takes the connection with the mutex held, so a request with
open rows holds up a batch and a batch holds up requests. `SideReaders` are
requests to an `--api-only` process with a connection of its own.

**TransferQueries.** The `transfers` table as a sequence (ids are positions), the
sync appending, an import inserting old transfers, batches rolled back. The three
forms of `GET /transfers` are operators; a client that turns the pages of an
address is a variable.

**ExplorerQueries.** A chain with missing and unsigned blocks and balances that
change, in batches that are committed (`CommitBlocks`) or rolled back
(`UndoBlocks`); a request of the same process sees the open batch. Holders are
ranked by the comparison of SQLite on decimal texts (`LENGTH(balance) DESC, balance
DESC`), written out over digits, and `HoldersPage` limits and clamps as
`handleHolders` does. A call of `GetProducers` is the variable `report`, one action
per query: `ReadHead`, `ReadCounts`, `ReadHolders`, then for each entry `ReadLast`
and `ReadTime`.

**Reconcile.** `Run` (the feeder), its workers, its writer, the two bounded
channels with their closing, the page read that may fall inside the writer's
transaction, failed flushes and the drain after one, and the chain: the node
answers at its head, the store stands at the LIB, and after `Run` has returned
the live sync goes on. `Fetch` is `fetchBalance`: the REST service answers a failed
call with the same HTTP 400 as an empty balance, and "0" is sent on; `zeroed`
remembers for the properties which of the stored balances came from such an answer.

**ApiServer.** `Start` with its shutdown goroutine, the two programs that call it
(`apiOnly`), connections and handlers as `net/http` treats them (a handler runs on
after its connection is cut), the signal, the phases of `main`, the closing of the
database and the exit code.

**EntryResolution.** `blockOf` with `Client.blocks` and `Client.canon`, the
fallback node and `Collect`'s use of the height, on a node that follows one of two
branches until the LIB passes their fork. A transaction may also be in blocks of
forks nobody follows. A failed `Run` is called again with empty caches, from any
page that was committed.

**EventDecoding.** A payload arrives field by field at `parse...Event` and at
`decodeRawTokenEvent`: repeated, unknown, malformed fields, groups. `Counted` is
what the live processor makes of it, `Replayed` what the import does.

**Verification.** `CheckToken` and `BalanceOf` with their retries, as
`verifyBackfill` uses them after an import and `runBackfillDryRun` on a replay in
memory (`mode`), while the chain moves, records are lost and the process stops.

Definitions commented `Mutant:` are not part of the model. Each is a plausible
bug next to the definition it would replace; the property that catches it is
named in `PROJECT.json`.

## 3. What the runs check

### 3.1 Block sync

`block_sync` (passes). Four blocks, batches of two, migration at block 3, so the
reset falls at the start of one batch or, after an interruption, of a shorter
one; two holders, an extra token tracked or not, two alternative final chains
and a fork block; any two faults among RPC error, SQL error, crash, power loss,
and an empty or short answer for the last range of a sync (`TailSpec` of
MCBlockSync: there the next sync asks again; for an earlier range see
`block_sync_gap`). The blocks have legacy and current contracts, a mint that is spent
in the same block, a reverted transaction, a self-transfer, a zero value and an
unknown kind. Two things these data do not show. The debit and credit of a
self-transfer commute unless it overdraws, which no token contract allows. And the
guard at `internal/sync/sync.go:268`, part of `BeginBlock`, never fires: every
request starts above the height that the open batch or an earlier one has written.

* `IndexedIsFinal`: no indexed block is one of a fork.
* `NoGap`: blocks are indexed exactly up to the sync height.
* `BalancesExact`, `VhpSinceMigration`: balances are the sum over the indexed
  events, defined from the chain without reference to the code's steps; VHP
  counts from the migration block once that block is indexed.
* `HistoryExact`: one row per event, in chain order by id.
* `FirstSeenExact`: first-seen is the lowest indexed mention.
* `ImplementsChainView`: the refinement of the abstract specification.
* `CatchesUp`: every irreversible block is reached in the end.

Four runs show a statement of the repository refuted by the code:

* `block_sync_gap`: after an empty answer the code logs "retry" and moves on to
  the next range; a later batch commits a sync height above the hole, which is
  never fetched again. A short answer has the same effect.
* `block_sync_fork`: with LIB 0 the target is the head, and a block of a fork is
  indexed, though the README promises fork-safe data.
* `block_sync_old_vhp`: below the migration height legacy VHP events do change
  balances; the README says they are kept for history only.
* `block_sync_oversize`: an event of more than int64 leaves no row, though the
  API reports the token's transfers as complete.

### 3.2 History import

`history_backfill` (passes). Two tokens, pages of two, up to five entries with
two in one block across a page boundary, an entry of nothing but ignored events,
an empty history; every cutoff from 0 to 3, every position of the indexer, every
set of registered tokens, two faults.

* `ReplayedOnce`, `RowsMatchProgress`: what is committed is exactly what the
  progress record claims, balances and rows.
* `FirstSeenLowered`: first-seen heights only move back, and far enough.
* `ReadyMeansComplete`: when the sync is let go, every registered history is
  imported up to the sync height, what the indexer served late included.
* `EventuallyReady`: the import ends once errors stop, including with a cutoff
  equal to the highest block the indexer ever reaches.

No history of the runs holds an entry of a reverted transaction; see §6.

### 3.3 The whole process

`tracker` (passes). A chain of three blocks with the LIB starting at the second
(so cutoffs fall at 0, 2 and 3), one token with an event in each and
one with a single event; any flags at each start, two faults.

* `SyncWaitsForImport`: no block above the cutoff while an import is open.
* `WholeHistoryOnce`, `WholeTransfersOnce`: a token marked as indexed has exactly
  the balances and rows of all its events up to the sync height: import and live
  sync meet at the cutoff, whenever the token was registered and however often
  the process was restarted with other flags.

`tracker_live` (passes): `CatchesUp`, every irreversible block is indexed and
every registered import finishes, with one fault of kind RPC error, empty or
short answer, or crash. Reached is the sync height: a hole that an empty answer
leaves below it (`block_sync_gap`) does not count against this property.

### 3.4 Requests, reconciliation, shutdown

The parts around the sync share no variable, so `MCServing` puts them side by side
and one run checks them all: `part` says which of them moves in a behaviour, the
others stay in one initial state.

`serving` (passes), with these parts:

* *api beside writers*, *other process* (StoreBatch): two batches, one of them
  possibly of the reconciliation, beside a request that makes two queries or fewer
  in this process; or one of up to five in another process, beside restarts; one
  SQL error or crash.
  `OneBatch`: one batch at a time, in the hands of who holds mutex and connection.
  `CommittedWhole`: the database holds whole batches only.
  `AnswersAgree`: once an answer has shown rows of a batch, its later queries do
  not show an older state of another table of that batch, unless the batch was
  still open then (dirty reads through `exec()`), or rolled back.
  `TokensHaveRecords`: `/tokens` never lists a registered token without its import
  record, which would call an unfinished import indexed.
* *transfers*, *walk* (TransferQueries): up to four blocks and three rows, two
  tokens, pages and offsets up to two, counts capped at two.
  `HistoryAnswersRight`: the merge of two limited queries is the page of the whole
  (`PageOfWhole`); totals are exact or flagged (`CountsExact`); an imported old
  transfer does not look recent (`RecentByChain`); the filtered feed shows the
  newest wanted rows of the window in chain order and leaves none of them out for an
  older one, also on a chain shorter than the window (`FilteredIsRecent`).
  `WalkComplete`: a client that turns the pages while rows come in above and below
  misses none that was there when it began.
* *explorer*, *producers* (ExplorerQueries): any chain of four heights, three
  addresses, balances of one and two digits; and one call of `GetProducers` beside
  batches of up to three heights. `ExplorerAnswersRight`:
  comparing texts ranks by value, and the pages of `/holders` before the offset is
  clamped join to the first holders, richest first, and to all of them if the largest
  offset reaches (`RankedByValue`); whatever is stored, committed or rolled back
  between the queries of `/producers`, its total exceeds the window by no more than
  the blocks stored between the first two, and unless something it saw was rolled
  back, counts and last blocks agree and no query fails (`ProducersAddUp`); block
  ranges join without a gap, also when the height was read earlier (`BlocksCovered`).
* *reconcile* (Reconcile): three addresses, pages and flushes of two, channels of
  one, two workers, two failures of any kind, calls answered like empty balances
  among them.
  `EveryAddressSettled`: unless `Run` reports an error of the store, every address
  was written or counted as failed; and when it leaves its goroutines behind after
  a failed listing, what they hold is counted as neither, and nothing that was fed
  has disappeared.
  `NoSendAfterClose`: nobody sends on a closed channel (a panic).
  `QuietIsRight`: a balance the node answered for is right, however far the sync
  goes on, if no block between store and head touches it; one zeroed for a failed
  call stays short by the least the address has held since.
* *server* (ApiServer): three requests of two queries, in both programs.
  `OrderlyShutdown`: the database is closed after the port, and after each request
  was answered or, at the timeout, cut (`DrainedBeforeClose`); a handler meets a
  closed database only after a forced close (`LateOnlyIfForced`); a shutdown
  without an error has answered everything (`CleanMeansAnswered`); exit code 0 of
  `--api-only` follows a signal, not a failed bind (`ExitCodeTellsFailure`).
  `main()` does not wait for `Start`, so the first two hold for `--api-only` only.

`reconcile_failed_call` shows `AuthoritativeValues` refuted: `Run` "updates the store
with authoritative values" (`internal/reconcile/reconcile.go:36`), but a failed call
is indistinguishable from an empty balance, and the balance is overwritten with zero
in a run that reports success.

`serving_live` (passes): `NobodyWaitsForEver` (batches and requests on mutex,
connection and open rows), `RunReturns` (channels, failed flush and drain),
`SignalEnds` (the process ends after a signal, whatever `main` is doing).

### 3.5 What an import reads

`import_data` (passes), with `MCImportData` putting three modules side by side:

* EntryResolution: two transactions anywhere on a trunk of two blocks and two
  branches above it, or on dead forks too; one of them unknown to the primary
  node; every cutoff up to the LIB; one failed or partial answer.
  `ReplayExact`: each entry has the height of its block on the final chain
  (`PlacedRight`), only an entry above the cutoff ends the replay
  (`StopIsAboveCutoff`), and then none below is missing (`NothingLeftOut`).
  `EveryEntryPlaced`: each is placed in the end, caches and failures
  notwithstanding.
* EventDecoding: payloads of any length. `SameMove`: an event named as the
  standards name it, whose payload neither or both decoders had to give up,
  is counted alike by both or refused by the import.
* Verification: two holders, two moves of the chain, two stops or lost records.
  `RecordIsTrue`: a record accounts for every holder without a match, and says
  `verified` on a quiet chain only if everything that was to be checked is right.

### 3.6 Bounds

`MaxHeight` (3 or 4 blocks), `MaxSeq` (longest history), `BatchSize` and
`PageSize` (1 or 2 in place of 1000 and the page size of the code),
`EmptyRetryLimit` (1 in place of 5), `MaxSafeValue` (3 in place of 2^63 - 1),
`MaxFaults`. Four blocks with batches of two give a first, a middle and a cut-off
last batch and a migration at a batch start and in a batch resumed elsewhere.
Two faults suffice for a failure during the retry of a failure. Two holders
suffice because events move value between at most two. `MaxFaults` is also what
makes liveness meaningful: faults stop in the end.

A database starts empty, or (in `HistoryBackfill`) as `registerTrackedTokens`
leaves it at some sync height. `CHECK_DEADLOCK` is off because the bounded chain
ends: a synced tracker then only waits, and the programs of `serving` and
`import_data` come to their end.

In `serving`, workers and requests are interchangeable (`SYMMETRY Alike`; the run checks
invariants only), and a behaviour with a request beside the writers or with a walk ends
when the request has failed, the walk is over or a rollback has disturbed it: from there on the
properties ask nothing more of it, and the rest is what other behaviours do without it.
Two batches are enough for a reader to meet the state before,
between and after them, and for a second writer to wait; channels of one with
flushes of two make every send block somewhere; a cap, a page and an offset of two
against three rows put each boundary inside the table. In `import_data` two
transactions give a cached block that is and one that is not a candidate of the
next entry, and one failed answer with the retry empties the caches in between.
Two digits in radix 3 stand for decimal texts of different lengths; with pages of
two and a largest offset of one (`MaxHolders`, `MaxHolderOffset` for 1000 and 100000)
the third holder is out of reach. A window of two heights is passed by a head of three,
also between the first two queries of `GetProducers`; one signer with and one
without VHP, and one unsigned block, give an entry of each kind.

### 3.7 Fairness

* `BlockSync`: weak fairness of the disjunction of the sync steps. One goroutine
  executes them, the ticker calls `SyncToHead` every ten seconds, and an answer
  or an error arrives for each request.
* `HistoryBackfill`: the same for its steps (the retry loop of `main` calls again
  after a minute), and of `AdvanceIndexer`: the history indexer keeps following
  the chain. Without that the code waits, by design.
* `Tracker`: weak fairness of `MainStep` (a supervisor restarts the process) and
  of `Environment`.

* `StoreBatch`: strong fairness of each writer and each request. A released mutex
  or connection is handed to a waiting goroutine (Go's mutex starves nobody, and
  `database/sql` serves waiters in turn), so none is passed over for ever.
* `Reconcile`: weak fairness of feeder, writer and each worker; not of the chain.
* `ApiServer`: weak fairness of `Start`, its drain goroutine (whose timeout comes in
  the end) and the caller; none of clients and handlers, which may hang. A backfill
  or a sync need not end by itself; a reconciliation does (`RunReturns`).
* `EntryResolution`: the LIB advances, and `main` calls `Run` again after an error.

Faults have no fairness and are bounded. The liveness runs hold no unusable
value: one below a cutoff would stop the import, and with it the sync, for good.

## 4. What is proved

All of it for every value of the constants, resting only on the named assumptions
on constants, which TLC evaluates in the runs.

| Module | Theorem | Statement | Assumes |
|---|---|---|---|
| BlockSyncProofs | `TypeCorrect` | `Spec => []TypeOK` | - |
| | `ForkSafe` | `Spec => []IndexedIsFinal` | a LIB |
| | `Contiguous` | `Spec => []NoGap` | full answers |
| | `Refinement` | `Spec => ImplementsChainView` | both |
| | `SeenFromFirstMention` | `Spec => []FirstSeenExact` | both |
| | `HistoryInOrder` | `Spec => []HistoryExact` | both |
| | `BalancesAddUp` | `Spec /\ Covered => []BalancesExact` | both |
| | `VhpStartsAnew` | `Spec /\ Covered => []VhpSinceMigration` | both |
| HistoryBackfillProofs | `ImportTypes` | `Spec => []TypeOK` | - |
| | `HistoryFollowsProgress` | `Spec => []RowsMatchProgress` | - |
| | `BalancesFollowProgress` | `Spec /\ Covered => []ReplayedOnce` | - |
| | `SeenFromFirstActivity` | `Spec => []FirstSeenLowered` | - |
| | `ReadyOnlyWhenComplete` | `Spec => []ReadyMeansComplete` | - |
| TrackerProofs | `TrackerTypes` | `Spec => []TypeOK` | - |
| | `ImportBeforeSync` | `Spec => []SyncWaitsForImport` | - |
| | `TransfersImportedOnce` | `Spec /\ PlainEvents => []WholeTransfersOnce` | both |
| | `HistoryImportedOnce` | `Spec /\ PlainEvents /\ Covered => []WholeHistoryOnce` | both |
| StoreBatchProofs | `TypeCorrect` | `StoreSpec => []StoreTypeOK` | - |
| | `MutualExclusion` | `StoreSpec => []OneBatch` | - |
| | `Atomicity` | `StoreSpec => []CommittedWhole` | - |
| | `Consistency` | `StoreSpec => []AnswersAgree` | - |
| | `RecordsListed` | `StoreSpec => []TokensHaveRecords` | - |
| ReconcileProofs | `ChannelsBounded` | `ReconcileSpec => []ReconcileTypeOK` | - |
| | `SafeClosing` | `ReconcileSpec => []NoSendAfterClose` | - |
| | `AllSettled` | `ReconcileSpec => []EveryAddressSettled` | - |
| | `QuietBalances` | `ReconcileSpec => []QuietIsRight` | - |
| ServingProofs | `ServerTyped` | `ServerSpec => []ServerTypeOK` | - |
| | `ShutdownInOrder` | `ServerSpec => []OrderlyShutdown` | - |
| | `FeedTypesHold` | `TransfersSpec => []TransfersTypeOK` | - |
| | `HistoryIsAnswered` | `TransfersSpec => []HistoryAnswersRight` | - |
| | `WalksAreComplete` | `TransfersSpec => []WalkComplete` | - |
| | `ExplorerTyped` | `ExplorerSpec => []ExplorerTypeOK` | - |
| | `ExplorerRight` | `ExplorerSpec => []ExplorerAnswersRight` | - |
| ImportDataProofs | `ResolutionTyped` | `ResolutionSpec => []ResolutionTypeOK` | the cutoff is irreversible |
| | `ReplayRight` | `ResolutionSpec => []ReplayExact` | the cutoff is irreversible |
| | `DecodersTyped` | `DecodingSpec => []DecodingTypeOK` | - |
| | `DecodersAgree` | `DecodingSpec => []SameMove` | - |
| | `VerificationTyped` | `VerificationSpec => []VerificationTypeOK` | - |
| | `RecordsAreTrue` | `VerificationSpec => RecordIsTrue` | - |

*A LIB* is `GenesisLib >= 1`, *full answers* is `Faults \cap {"empty", "short"} = {}`:
what the violating runs of §3.1 show to be needed.

*Covered.* The code cuts a balance off at zero. A balance is a sum of moves only if
no event debits more than the events before it have left, and that is for the token
contracts to see to. `Covered` (one definition for each of `BlockSync`,
`HistoryBackfill` and `Tracker`) says it
of the chain, or of the histories, of a behaviour. It is a condition on what is
read, not on what the code does with it: batches, pages, faults and restarts stay
arbitrary. Its only use is the one step that debits.

*Plain events.* `PlainEvents` says that an event of a registered token that has a
value belongs to a transaction that was not reverted, and names a party. The live
processor drops reverted events and the import does not (§6); without the condition the
two halves of a token's history may count different events. The chains of `Tracker.cfg` satisfy it, and
`Covered`.

### 4.1 BlockSync

*Type invariant.* `TypeOK` is not inductive: that an item's height is within the
chain needs how `cur`, `pos`, `items` and `target` hang together while a batch is
open. `Progress` says that, and `TypeInv == TypeOK /\ Progress` is inductive. One
lemma per statement of the store shows that it maps databases to databases; the
clamp of `AdjustBalance` is what keeps balances natural numbers.

*Fork safety.* `ForkInv` strengthens `IndexedIsFinal` to all three databases (a
power loss brings `durable` back, a commit makes `tx` visible) and adds that
`target` and `safe` never exceed the LIB while a call is running, and that the
blocks received are those of the final chain.

*No gaps.* `GapInv` says the block table and the height agree in all three
databases, and that at the head of the loop the next range starts right above the
committed height, while inside a batch the writer's height is that of the last
finished item. Full answers are what makes `cur + BatchSize` the next height,
except after the last batch, where the loop ends.

*Refinement.* With both invariants the table is, in each of the three databases,
the irreversible chain up to its height (`TablesArePrefix`), so a `Commit` is a
`Publish`, a `PowerLoss` a `Lose`, a `Finalize` a `Finalize` and everything else
a stutter.

*Balances, history, first-seen heights.* `DataInv` says of any copy of the tables
how far along the chain it is, as a position <<block, event>>, and that it shows
exactly the events before that position. The committed and the durable copy are at
the end of their height; the open batch is at event `k` of the block under work:
for balances while `pc` is `changes`, for rows while it is `history`. Each statement
then moves one of the two by one event. `ClearHistory` has nothing to delete, since
rows of the block under work exist only after a batch that was rolled back, and the
rollback took them along. Rows correspond to events one to one (`RowsOfShow`), and
`InPlace` compares the number of rows with a lower id to the number of events
further down the chain, so that a row inserted later never gets between. `Since`
makes VHP count from the migration block on from the moment `BeginBlock` has reset
it, in the open batch only, until the commit. Balances are sums, `Net` in the
property and `SumOver` in the proof: the lemmas on sums in `TokenStoreProofs` define the sum
over a finite set by choosing an element and show that any order gives the same.
The induction they need takes a least counterexample in the naturals, as the
library's induction theorems have an operator for a parameter.

### 4.2 The other modules

*Tracker.* The theorems of the two components are used again, not repeated:
`TrackerProofs` instantiates their proof modules on the variables of `Tracker` (`SP`,
`IP`), and `StepKinds` sorts the steps of the process into a move of the sync, a move
of the import, a registration, a step that leaves the store alone and a stop.
`SyncKeepsImport` and `ImportKeepsSync` say that neither leaves the other's type
invariant, which gives `TrackerTypes`.

`SyncWaitsForImport` is about the committed database; what keeps it is spread over
`main`, the import and the sync. `WaitInv` says: it also holds for the
database a power loss would bring back; during the import every pending token is
among those still to be taken or is the one being replayed, so that `ready` means
that none is pending; and the block sync runs only when none is, and writes no
progress record. The proof follows the actions of both instances through the
store with one lemma per statement (`...Keeps`); it needs no types.

`WholeTransfersOnce` and `WholeHistoryOnce` join the two halves of a token's history.
`ProcessInv` has these parts. `Control`: `WaitInv`, and where the process stands: no
sync outside its phases, no import in them, the configured tokens are those with a
record. `Placed`: the invariants of the components about heights and cursors
(`ForkInv`, `GapInv`, `ReplayInv`), which hold of the shared store since each side
leaves the other's tables alone. `DataInv`: every copy of the tables shows, for each
token, the moves it claims (`Claim`): none if the token is not registered; those of
the entries before the cursor while its import is open; those of all blocks up to the
sync height once it is done. All three are given as moves of the chain before a
position (`Upto`), and `Reach` gives the position a cursor stands for, so a step of
the import and a step of the sync extend the same kind of set, by one event each
(`Imported`, `Live` for an open batch). The claim changes its form in one step only,
the commit of the last page: there the cursor is past every entry up to the cutoff,
and the cutoff is the sync height by `WaitInv`, so that both forms are one set. From
then on the claim follows the height, and no block above the cutoff was indexed before.

*HistoryBackfill.* `TypeOK` is not inductive: that a cursor stays within the longest
history, and an entry under work exists, needs `CursorInv`: the cursors of the
committed and of the durable database, and the page from the cursor on, lie within
what the service has already served, which only grows (`VisibleGrows`). `PlaceInv`
places the page under work: it starts at the committed cursor, holds no entry above
the cutoff, and an outcome of `last` means that nothing at or below the cutoff lies
behind it (its part `ReplayInv` also holds while blocks are indexed between two
imports, and serves `Tracker`); here the second read after `CheckCoverage` is needed, and that a history
is ascending. `DataInv` says for each copy of the tables which positions of which
entries its rows, balances and first-seen heights show: those claimed by its own
records, and for the open batch those of the token under work before event `k` of
entry `at`. `CommitPage` advances record and tables together, so the claims fit
again; `ListPending` leaves only records that are done, so that `ready` means that
the claims of all are whole.

*StoreBatch.* `OneBatch` alone is not inductive: a writer past `db.Begin()` could
meet another's `s.tx`. `Ownership` ties the phase of each writer to the mutex,
`s.tx`, the connection and the state of the newest batch; each action touches one
of them in a phase that fixes the others. For atomicity `OpenIsPartial` says what
the open transaction shows: the committed tables, and the writer's own number in
those its finished statements have written. At `FinishCommit` all statements are
done, so the committed tables become those of one whole batch, newer than all
others that wrote them. `AnswersAgree` and `TokensHaveRecords` need what a request
has seen: a batch it met writes the table it asked for, and is committed, or the
query ran in its transaction after the statement on that table (`SeenRight`). The
lemmas then compare what the next query finds with each answer before it
(`Agrees`); for `/tokens`, that only registrations write the tokens, together
with their records.

*Reconcile.* `Closing`: a closed update channel means that every worker has
returned, and the writer's last flush comes after the close with the channel empty.
For `EveryAddressSettled`, `Places` puts each address that was fed and is neither
written nor failed into one place: the work channel, a worker, the update channel or
the writer's buffer, and `Stages` says which of those are empty at which stage of
the way out. For a failed listing the same `Places` is enough until the flush fails:
the writer then drops what it holds. For `QuietIsRight`, `Carried` follows a value
from the fetch through channel and buffer with the head it was fetched at and the
kind of answer, and `StoredRight` says of a written one that only the live sync has
moved it since: by as much as the chain if the node answered for it, and if it was
zeroed, up to the clamp, so that it lags by the least balance since (`Short`).

*ApiServer.* `Draining` relates port, drain, timeout and connections; `Handling`
relates connections to handlers; `Awaiting` is the order in which `runAPIOnly`
waits for the signal, for `Start` and closes the database. The last two hold for
`apiOnly` only, and that never changes. The types are inductive
as they stand, in three parts.

*TransferQueries.* `Place(i, ids)` counts the rows of `ids` that come before row `i`
in the feed. The chain order (`height DESC, id DESC`) is a strict total order, so
places are unique, and by counting, none is empty (`PlaceTaken`): the k-th row of a
feed exists and is the one at place `k - 1`, and a page is the rows of an interval of
places (`PageHolds`, `PageSet`). `MergeKeepsTop`: the first n rows of the two sides
of an address determine the first n of the whole. For `WalkComplete`, `Walking` says
that of the rows there were when the client began, those above its offset have been
seen. A new row, above or below, only moves others down (`PlaceGrows`), which keeps
it; a page extends it by `limit` places; and a short page reaches the last place.

*EntryResolution.* A cached block is `Trusted`: it is the block at its height on a
branch, and on the one that is followed now if its height is within the cutoff or
the cutoff is above the fork. Reorganisations keep that, as the LIB is at or above
the cutoff. `TrustedIsHome`: a trusted block that contains a transaction of the
history is at that transaction's height, or both are above the cutoff. For
`NothingLeftOut`, `SeqInv` says that the replay has handed over exactly the entries
numbered below `seq`; that numbers follow the order of the chain, and keep while
the history grows, is shown with cardinalities of the sets of earlier entries.

*EventDecoding.* `InStep`: as long as neither decoder has given up, the live
variables are the fields of the replay that its kind reads.

*Verification.* The chain may move while holders are looked up, so the balances
compared are of different states of it. `Path` holds the states from `final` to `head`
by the pending changes, each with its balances in range; together with a bound on what
the store holds that keeps the types. `CheckInv` says of a
check under way that the holders already looked up and not `missed` match as long as
no move is pending, and that mismatches and failures add up to the number of the
`missed`; a retry, a stop or a record that is lost starts from nothing again.

*ExplorerQueries.* `Text`, the digits of a number, is a recursive function. That the
function exists and what its values are is shown by joining the unique functions on
initial segments (`TextFacts`), and `TextOrder`, that two numbers compare as length
and text do, by a least counterexample and the last digits. The rest is counting:
`Rank` is unique and every rank is taken, so `Ranked` lists each holder once, richest
first; the pages of a walk (`WalkExists`, `WalkUnique`) and the sum over producers
(`SignedSum`) are recursive definitions in the property itself, and for each an
explicit solution is given and shown to be the only one. `FirstRanked` says what a
beginning of the ranking is, which is all that a clamped offset leaves of it.
For `/producers`, a property of several queries with other steps between them,
`Reporting` is the inductive invariant: `Ordered` fixes what each query can have set so
far, `Bounded` keeps the total within the window and the blocks stored between
the first two queries, rollbacks or not, and `Agreeing`, until one of them undoes
something the call saw, says that the counts are those of the signed blocks of the
range and that each last block was one of its signer's (`LastRight`). New
blocks keep the latter because they are above `upto`.

### 4.3 Only model-checked

Every safety invariant and action property of a component that a run checks is also
a theorem, some under the conditions of the table. What TLC checks and no theorem
states as such: the type invariants of `MCServing` and `MCImportData`, which are
conjunctions of type invariants each proved for its own module; and all liveness
properties, as liveness under fairness and `ENABLED` are beyond the prover.

## 5. Assumptions about the outside

* The node answers for the head of its last `GetHeadInfo`; at and below the LIB
  it never changes its mind.
* The account history is ascending by height, serves whole blocks, and holds
  entries for irreversible blocks only (`irreversible=true` is asked for).
* The KOIN contract has an entry in every block, so `HistoryHeight` is the
  indexer's height. This is what the comment at that function relies on.
* SQLite rolls an open transaction back when the process dies, and after a power
  loss shows a state as of an earlier commit. `durable` is the last one known to
  be on disk: the model loses all commits since then or none.
* A commit that SQLite reports as failed leaves the database as it was before the
  batch. Queries that run in a transaction are cancelled when it ends, as
  `database/sql` does.
* `exec()` reads `s.tx` twice, for the test and for the return; the model reads it
  once. A batch that ends between the two reads would hand a request a nil
  transaction, which is not modelled. The data race itself is taken to yield the old
  or the new pointer. The API sends every query through `exec()`.
* Answers of more than one query that `TransferQueries` and `ExplorerQueries` take in
  one state, as if nothing were committed in between: the two counts and the page of
  `GetTransfersByAddress`, the two queries of the filtered feed, and the count and the
  page of `GetTopHolders`. With a commit in between a total is as old as its query. The
  calls followed query by query are those of `StoreBatch`, `GetProducers`, the height
  that `handleBlocks` reads first, and a client's pages.
* `net/http`: `Shutdown` closes the listener and returns when no connection is
  active; `Close` closes connections and stops no handler; a closed database
  answers a query with an error.
* The address table does not change while `Run` lists it, and is listed in a fixed
  order. The retries inside `getJSONFrom` are one call that fails or does not.
* The events of an account history are complete, and a name does not contain two
  of `transfer_event`, `mint_event`, `burn_event`.

## 6. Where code and comments differ

Five disagreements have a run of their own (§3.1, §3.4) and are listed as findings.
Modelling the rest of the system showed more. They have no run; the properties
above are stated so that they say what does hold.

* `exec()` may hand a request a transaction that ends before the query reaches it.
  The request fails with an error (500), the feeder of a reconciliation returns
  with one. In `StoreBatch` this is `QueryFails`, in `Reconcile` `ListFails`.
* A request of the indexing process reads through the open transaction, so
  `/tokens` may answer `Indexed` from the record of a last page that is then rolled
  back (`internal/store/sqlite.go:82`, `internal/api/handlers.go:410`).
* Reconciled values are of the node's head and are written under the LIB height;
  blocks in between are then applied again (`internal/reconcile/reconcile.go:85`
  against the "authoritative values" of line 36). `QuietIsRight` is about balances
  that no such block touches.
* The import replays an entry of a reverted transaction, while the package comment
  says that balances are derived "exactly like the live block processor does"
  (`internal/backfill/backfill.go:459` against lines 7 and 8). Whether the account
  history lists such entries is outside this repository.
* The total of `GET /producers` is said to be "the total block count in the window"
  (`internal/store/sqlite.go:718`), but blocks stored between its first two queries
  (`:723`, `:740`) are counted on top. After a rollback between two of them a producer may
  show blocks and no last one, or the request fails (`:796`).
* Beyond an offset of 100000 every page of `GET /holders` is the page at 100000
  (`internal/api/handlers.go:224`), so a client that turns pages until a short one
  comes does not end on a token with more holders. The answer repeats the offset it used.
* A listing that fails makes `Run` return with workers and writer still running
  (`internal/reconcile/reconcile.go:165`); a flush may then overwrite what the live
  sync has written. `EveryAddressSettled` says that nothing is lost or counted twice
  then; `QuietIsRight` is about the other returns.
* After the drain's timeout `server.Close` does not wait for running handlers, so
  `--api-only` closes the database under them (`internal/api/server.go:65`);
  `main()` does not wait for `Start` at all (`main.go:183`).
* A capped total counts a transfer to oneself twice, so it may exceed the number of
  rows it is a lower bound of (`internal/store/sqlite.go:512`). `CountsExact` is
  about addresses without one.
* A REST node whose LIB is below the cutoff may have its blocks reorganised while
  `Client.canon` keeps them (`internal/backfill/backfill.go:301`). With
  `StartLibs = {1, 2}` and `Cutoffs = {4}` in `ImportData.cfg`, `ReplayExact` fails.
* The import wants event names that end in `transfer_event` and the like, the live
  processor names that contain it (`internal/backfill/backfill.go:353`,
  `internal/indexer/indexer.go:195`). `SameMove` is about names that end so.
* `CheckToken` looks up only the holders the store has; one whom the replay left at
  zero is not compared (`internal/reconcile/check.go:43`,
  `internal/store/store.go:100`).

## 7. Not modelled, and what could follow

Left out for good: wording, logging, JSON output, path and query parsing, CORS;
the static pages, `openapi.go`, `explorer.go`, `cmd/debug-addr` and the build, which
keep no state; `ProcessAndStore` and `GetTransfersByToken`, which nothing calls; the
YAML defaults of `config`; the parsing of flags and `--reset`, which removes the file
before anything else runs.

Not modelled yet: the rewriting of hexadecimal transaction ids at start
(`ConvertHexTxIDs`), the conversion of decimal balances to satoshis in
`internal/reconcile`, and the single-row lookups of `/address`.

What could follow: an abstract specification of a tracked token (not registered,
importing, indexed up to a height), refined by `Tracker`; the Claim of §4.2 is most of
its mapping.
