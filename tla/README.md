# Hood Sentry: specifications

Hood Sentry follows one EVM chain (Robinhood Chain), keeps its blocks, logs and
protocol facts in PostgreSQL, derives tokens, transfers, prices, risk scans and
alerts from them through a Redis queue, and serves the result over an HTTP API.
What the platform shows is only as good as the tables the indexer and the worker
agree on, while the chain reorganises, processes die and jobs come twice. These
modules model the indexer with its repair modes, the RPC client beneath it, the queue,
the worker's transfers, alerts and risk scans, and what of the API keeps state between
requests: sign-in, trading intents and entitlements. TLC checks small instances, and
TLAPS proves the invariants that matter most for every value of the constants.

Paths below are relative to the repository root.

## 1. The system

### Indexer (`apps/indexer`)

| part | state | operations | hard behaviour | what makes it correct |
|---|---|---|---|---|
| live mode (`block-indexer.ts` `runLiveMode`, `drainFinalizedBacklog`; `block-fetcher.ts`, `block-persister.ts`, `reorg-detector.ts`) | `currentBlock`, `lastBlockHash`; tables `blocks`, `transactions`, `logs`, protocol facts, `reorg_events` | drain a finalized window, tail one block, detect and handle a reorg, publish derived jobs | the chain changes between any two awaits; an await throws; the process dies between two writes; orphaning in seven stages of updates, without a transaction | canonical rows are the chain at rest; the checkpoint covers what it passed; no job before its rows; a resolved reorg leaves nothing canonical behind |
| lease and checkpoint (`checkpoint-manager.ts`) | `indexer_leases`, `indexer_checkpoints` | acquire, renew, take over, release; overwrite the checkpoint | several processes, expiry, slow statements, `stop()` under a running iteration | one indexer of a stream at a time; the checkpoint does not go back |
| repair modes (historical, gap-repair, reconciliation, contract-replay; `gap-scanner.ts`) | the same tables, leases of their own streams | index a range, fill gaps, re-run unresolved reorgs, replay logs | they run beside the live mode | they must not undo what the live mode established |
| discovery, backfill, retention, handlers | tokens, pools, protocol facts | decode logs, enqueue jobs, prune | failures are logged and swallowed | what is upserted has its block's canonical flag, and a failure loses nothing but its own block's facts and jobs |

### Worker (`apps/worker`) and queue (`packages/queue`)

| part | state | operations | hard behaviour | what makes it correct |
|---|---|---|---|---|
| derived job queue (`publisher.ts`, `consumer.ts`) | jobs by idempotency key, dead letters | enqueue, deliver, retry, dead-letter | at-least-once delivery, key collisions with failed jobs | every published job is done or dead-lettered |
| token transfers and balances (`token-transfer.ts`, `token-balance-projection.ts`) | `token_transfers`, `token_balances` | insert a transfer, recompute its holders' balances | four jobs at a time at READ COMMITTED, the indexer orphaning the same rows | a transfer counts iff its block is canonical; the balance is their sum |
| prices, markets, wallets, discovery | projections with a `canonical` flag | as above | written long after publication | as above |
| risk scans (`jobs/risk-scan.ts`, `risk-repository.ts`) | `risk_scan_runs` | claim, run rules, complete, fail | a dead worker leaves the run claimed | one run per key, which ends |
| alerts (`alert-evaluation.ts`, `alert-delivery.ts`) | deliveries and their claims | evaluate, claim, send, retry | crash between claim and send | each alert is sent, and once |
| cache (`cache.ts`) | values and locks in Redis | compute under a lock | a lock outlived by its computation | one computation at a time |

### Chain client (`packages/chain`)

Providers behind a circuit breaker, a rate limiter, a health tracker and a lag
monitor (`rpc/`); adapters and registries that decode logs. The hard part is
what the first four do together: whether some provider is always tried in the end.

### Everything else

`packages/db` holds the schema, repositories and `core/` (job leases, idempotency
keys, transactions, pagination). `apps/api` serves requests, with sessions
(`packages/auth`), trading intents (`packages/trading`), entitlements and feature
flags: requests that run side by side, each reading and writing in several statements
(a nonce is consumed once, a wallet has one user, an intent one transaction, a
tier follows its balance). `packages/risk-engine`, `market-engine`, `discovery-engine`,
`portfolio-engine` and `alert-engine` are functions of their inputs.
`apps/web`, `apps/admin`, `apps/telegram-bot`, `ui`, `providers`, `ai`,
`reports`, `projects`, `launchpad`, `observability`, `config` and `contracts`
present, fetch or configure.

### How they interact

The indexer and the worker share PostgreSQL and the queue, and nothing else: the
indexer writes block rows, publishes a block's jobs once they are committed, and on a
reorg updates tables both of them write. The worker asks
`blocks` whether the job's block is still canonical. Indexer processes share
the lease table. The indexer and the API reach the chain through the RPC client; the API
reads what the worker projected. `PROJECT.json` lists each hazard at its line.

## 2. Modules

| module | models | its instances and proofs |
|---|---|---|
| `ChainFacts` | a chain as a sequence of block hashes, the rows kept of it, and the statements on them: inserts that do nothing on a conflict, upserts, range updates | |
| `LiveIndexer` | one indexer process in live mode against a chain that grows and reorganises | `MCLiveIndexer`, `LiveIndexerProofs` |
| `IndexerLease` | any number of indexer processes on one stream: the lease, the checkpoint, the loop's shape | `MCIndexerLease`, `IndexerLeaseProofs` |
| `IndexRepair` | backfill, gap repair, reconciliation and contract replay beside one another, over `ChainFacts` | `MCIndexRepair`; proved in `LiveIndexerProofs` |
| `RpcFailover` | calls of the RPC client, circuit breakers and the health check | `MCRpcFailover`, `RpcFailoverProofs` |
| `TransferProjection` | concurrent transfer jobs against the orphaning indexer | `MCTransferProjection`, `TransferProjectionProofs` |
| `ClaimedWork` | the abstract promise of a claim in a row: one worker at a time, nobody once it is finished | |
| `AlertDelivery` | jobs that raise alerts and deliver them; implements `ClaimedWork` | `MCAlertDelivery`, `AlertDeliveryProofs` |
| `JobQueue` | the queue of derived jobs: ids, retries, stalls, dead letters | |
| `RiskScan` | risk-analysis jobs, composed with `JobQueue`; implements `ClaimedWork` | `MCRiskScan`, `RiskScanProofs` |
| `TokenEntitlements` | tiers by token balance, from the chain over the projection to the request | `MCTokenEntitlements` |
| `SignIn` | nonces, users, wallets and sessions | `MCSignIn`, `SignInProofs` |
| `TradeIntents` | quotes, prepared transactions, and what the user reports of them | `MCTradeIntents`, `TradeIntentsProofs` |

A name in an action is a name in the code where one exists. Operators that begin
with the comment "Bug:" are what the code could have been; nothing but mutation
testing of the properties uses them. Everywhere a step is an await (a statement, a
request to a provider), and anything may happen between two of them.

### `LiveIndexer`

`pc` is the await the process is at. The tail goes `top` → `fetch` → (`ancestor` →
`orphan`… → `resolve`) or `finality` → `persist` → `save` → `route` → `publish` →
`top`; the drain `top` → `drain` → `persistWindow` → `routeWindow` →
`publishWindow` → `saveWindow` → `top`. Note the two orders: a window is published
before the checkpoint moves, a tailed block after.

* World: `chain`. `Extend` adds a block, `Reorg` replaces up to `MaxReorgDepth`
  blocks by a fork at least as long, at any moment.
* Rows: `blockRow`, `txRow`, `logRow`, `protocolRow`. A block row is `unfinal`
  (`pending`, `soft_confirmed`, `safe`), `finalized` or `orphaned`. `txRow` is keyed
  by transaction hash, like the table; the others by block.
* `published` are the blocks whose discovery jobs were enqueued, `protocolJobs` those whose
  protocol events' jobs were.
* `HandleProtocolEvents` is what `ProtocolEventsHandler.handle` does to each block of the batch: the
  facts are upserted and their jobs enqueued, or one of the two fails and is caught and logged
  (`protocol-events.ts:38`, `:84`). The iteration goes on either way. `swallowed` is a history
  variable: the blocks such a failure was swallowed for.
* `OrphanTable` is one stage of `handleReorg`. It has seven; three are of
  tables only the worker writes and change nothing here (`TransferProjection` models
  the transfers). A stage is one UPDATE, except the wallet projections' (three) and the protocol
  facts' (eleven, of a table each), which are one step here: a failure in the middle of one
  leaves a part of the protocol facts marked, where the model marks all or none.
* `Fail` is an await that throws, a block without an answer or an empty window.
  `ProbeUnanswered` is a provider gap within `findCommonAncestor`. `Crash` loses
  everything but the tables and the queue.

Abstracted: `FetchWindow` reads its window from one state of the chain (the fetches run
concurrently); lease renewal (see `IndexerLease`); `pause()`; pruning of raw logs;
`logWindowEnabled`, under which no transactions are stored; the contents of jobs: a block's discovery
jobs are one, and so are those of its protocol events.

### `IndexerLease`

A worker is one incarnation of the process: `main.ts` makes `workerId` of pid and
start time. Each statement of `acquireLease` is a step, with the `now` it captured at
its start in `at`. The indexing of a block is `IndexBlock` (persist) then `Save`
(checkpoint); every other way through the iteration is `Idle`. `stop()` deletes the
lease while the iteration goes on, as in `block-indexer.ts:209`. `timely` records
that no worker has outlasted its own lease within a step, `contested` that two workers had found
the same lease expired when one of them deleted it. `renewLease` reads the
clock and updates in one step. All processes share a clock.

### `TransferProjection`

A worker's transaction is `InsertTransfer`, `Select`, `Upsert`, `Commit`. The last three
are one statement and the commit: the statement's sum is taken from the snapshot at its
start, then it waits for the holder's row, then it overwrites
(`excluded.balance_raw`). What a transaction inserted is in `own` until it commits.
The indexer is reduced to `IndexBlock`, `OrphanBlocks` (blocks) and
`OrphanTransfers` (transfers), two updates of `handleReorg` between which workers run.
The sum is kept as how often each transfer counts, so every amount is distinguishable.

Abstracted: one transfer per block and one holder, so the deadlock two projections of
two holders could run into is not modelled; a failed job comes back while it has
attempts left (`MaxAborts` stays below them), so dead letters are not either.

### `IndexRepair`

The range is settled: the chain no longer changes in it. The live mode died inside
`handleReorg`, so an event is unresolved, the first of the tables are marked and the rest
are not; heights are missing, and protocol facts of blocks that are there (a swallowed
failure). Each mode has a stream of its own (`getStreamName`), so it runs once at a time
and beside the others. The modes are started by hand (the `mode` argument, `main.ts:70`):
at any moment, in any order, at most `MaxRuns` times, or never (`Starts`), and no property
assumes that they are. A batch is the set of its blocks (`queue`), indexed from the lowest
on (`First`). `Fetched` leaves out blocks without an answer, `Route` hands a block to the
handler that swallows what it catches (`HandleEvents`, as in `LiveIndexer`), `RetryBatch`
is the historical loop's catch (the other modes have none: `Die`). A replay reads the
canonical logs of some contracts once, `targetContracts`, so any subset of them
(`StartReplay`). History variables: `unanswered`, the blocks a fetch was ever left without
an answer for; `swallowed`, as in `LiveIndexer`; `early`, the modes that were started
while the event was unresolved.

Abstracted: transactions go with logs, as one table of the range update; a gap is fetched in one
step where the code goes by batches; all events in one; whatever a stop or a
pause cuts short is a death.

### `RpcFailover`

`Enter` is `executeOnProvider` up to the request: the breaker is asked and, open, refuses.
`Select` takes any of the candidates, since lag, latency and error rate may order them
in any way; `Chosen` falls back when the best was tried before. One fallback is tried per attempt
(`fallback`), whatever the error was; `RetryLater` goes on only after a retryable one.
`cooled` stands for `resetTimeoutMs` having passed. The breaker's state and the tracker's copy of
it (`cached`) are separate, as in the code. A `pinned` call is of a method that wants
historical state: with an archive configured, only a provider that is known to keep history is a
candidate for its first request, and that is most methods (`provider-selector.ts:186`).

Abstracted: waiting for the rate limiter is part of the await of the request;
websockets are not modelled.

### `AlertDelivery` and `RiskScan`

Both are jobs at least once, with rows that are claimed. In `AlertDelivery` a job goes
through `rules` and the channels (`todo`) of each one's owner, then the endpoints; a row is claimed by an
UPDATE that asks for its status, the number of claims and the age of a claim
(`stale`), and what cannot be claimed is passed over. `deliver` throws at the end of a
rule's deliveries when one failed, and the job starts over. In `RiskScan`
a job goes through its targets: validate the block, claim, scan, findings, score,
status, alerts. Its queue is `JobQueue`: a failed job is kept, and blocks jobs of its id
(`removeOnFail: false`); the dead letter is written beside the worker and may be lost; a
second stall fails a job with attempts left, without a letter.

A claim grows stale only when its run no longer waits for an answer: providers time out in
seconds (`http-client.ts:162`, `pinned-https.ts:93`), the claim after five minutes. A
worker that stalls is dead. What a rule says is any outcome, again at every attempt: one
of its `Verdicts`, "unknown", or "unavailable", which the orchestrator says for it.
`Fingerprint` is what the unique index knows of a finding: all a rule says itself has one
seed, whatever the verdict (`fingerprint.ts:5`), and the orchestrator's has another. An
insert drops the findings whose fingerprint is there (`Fresh`, `risk-repository.ts:624`),
so a retry that comes to another verdict keeps the old finding and overwrites the score.

Abstracted: changing a rule's condition or channels, disabling an endpoint, enabling a
rule again; cancellation (nobody calls `requestScanCancellation`) and `RiskReorgJob`
(nothing starts it); the comparison with an earlier score, which raises an alert or not.

### `TokenEntitlements`

A block has the wallet's balance and whether a transfer moved it; its height is its time.
`Index` and `Rollback` are what the indexer does to the blocks, and with them to the
transfers recorded; `Project` is the worker's transaction, which records a transfer and
projects the balance, at a time of its own and in any order. `reconcile` is `ReadBalance`,
`ReadBlock`, `ReadChain` and a transaction: `Commit` when the row exists, since `FOR
UPDATE` then holds it, and else `FindNoRow` and `CommitFirst`, between which another
request may insert it. The checks of the token's bytecode and identity succeed: one token,
configured rightly. Indexing begins above block 0, so a balance as of block 0 has no block
row. What a worker's snapshot may miss of a reorg or of another worker is the matter of
`TransferProjection`.

### `SignIn` and `TradeIntents`

`Validate` reads the nonce and checks the message; signatures that do not verify change
nothing and are left out. `provisionUserForWallet` looks for an owner twice and inserts;
`LoseInsert` is its catch, and what it does depends on whether the driver wraps the error
(`Conflicts`): both forms are checked. In `TradeIntents` `cache` is a map in the process's
memory (`Crash`), the wallet sends any of its transactions at any time, and a request
reports any of them. `GetTransaction` compares what the provider answers with the intent.
A reorg returns a transaction to the pool, to be mined with another outcome.

Abstracted: who asks (session checks and ownership), routes and amounts, token identity, several
calls of the same quote in flight at the adapter.

## 3. Runs

| run | bounds | shows |
|---|---|---|
| `live_fork` | heights 0–5, two forks, one reorg of up to 2, two transactions of which both forks carry one, one swallowed handler failure, no other failure and no drain (`FinalityConfirmations` 9 exceeds the height), `FairSpec` | `RecordedChainIsTheChain`, `FactsFollowTheChain`, `OneCanonicalPerHeight` through a reorg at every await, and that the indexer catches up and orphans the abandoned blocks |
| `live_crash` | heights 0–4, three forks, drain of windows of 2, a reorg, a crash, a failure and a swallowed one | `CheckpointCovered`, `JobsOnlyForDurableBlocks`, `DrainedBlocksStayOnChain`, `JobsForEveryHeight`, `ReorgResolvedClean`, `CheckpointBackOnlyAfterReorg` |
| `lease` | three processes, lease of 1 tick, time up to 4, one block, one stop, one failed insert, any crashes | `MutualExclusion`, `CheckpointNeverBack` undisturbed; `AtMostOneLateWrite` always |
| `repair` | heights 0–2, a fork of one block, batches of 2, one missing height or block without facts, three runs of any modes, one death, two failures | `AbandonedForkIsGone` once the event is resolved; `GapsAreFilled`: a gap repair leaves no height missing that the provider answered for; `JobsForRecordedBlocks`: while no run dies, what is recorded has its jobs, will get them, or was once left without an answer |
| `transfer` | three blocks, two workers, one reorg, one redelivery, one failed transaction, `FairSpec` | `CanonicalTransfersKept`, `CountedOnce`, `EventuallyRecorded` |
| `rpc` | primary, secondary and archive, one call of two attempts, a threshold of 1, two half-open tests, one change of a provider, one revert, the call pinned to history or not, `FairSpec` | `OfferedIsExecutable`, `SentOnce`, `NobodyLeftUnasked`, `RecoveredIsOfferedAgain`, `CallsEnd` |
| `alerts` | two jobs, two rules, a channel and an endpoint, two attempts, two claims, one trouble (crash, failing statement, edit), a reorg, `FairSpec` | `DeliveriesAreClaimedWork`, `NobodyForgotten`, `JobsEnd` |
| `risk` | two jobs that share a target, one rule with a verdict, "unknown" and "unavailable", two attempts, published twice, one trouble, a reorg, `FairSpec` | `ScansAreClaimedWork`, `ScoresAreExplained`, `NoScanIsForgotten`, `JobsEnd` |
| `tiers` | two requests, three blocks, balances 0 and 2, two tiers, one reorg, no holding duration, `FairSpec` | `TiersFollowBalances` |
| `tiers_waiting` | as `tiers`, a holding duration of one block | violates `WaitingIsRewarded`, see below |
| `sign_in` | three requests, three nonces, two wallets, three user ids, one expiry | `NonceSignsInOnce`, `OneUserPerWallet` |
| `trade` | two requests, two quotes in a cache of one, two intents, two transactions of the same call, one lapse, one reorg | `BindsOneTransaction`, `StatusHasEvidence` |

The bounds are the smallest where the interesting cases happen: a reorg of more
than one block with a block below and above it, a window and a tail, fork `c` whose
ancestor the search never reaches, a takeover and a second takeover, two
transactions for one key, a gap and an abandoned fork side by side, a fallback and a
fallback's fallback, a claim taken over, a scan another job died of, a quote evicted. Where
deadlock is not checked, the system may stop: all jobs are done, all processes gone,
all nonces used or the chain at its height.

`tiers_waiting` violates what a test of the repository describes. The candidate for an upgrade
waits for `MINIMUM_HOLDING` between two observations, an observation has the time of
`token_balances.as_of_block`, and that is the block of the wallet's last transfer. While the balance
rests no time passes; a transfer lets time pass but starts the wait anew. With the default of a
day no upgrade is ever granted.

### Fairness

`LiveIndexer!FairSpec` is weak fairness of the process: its loop retries after every
error, and a supervisor restarts it. The chain owes no blocks; failures, crashes and
unanswered probes are bounded. `TransferProjection!FairSpec` is weak fairness of
`OrphanTransfers` (`handleReorg` goes on to its next update) and of a worker's own steps,
and strong fairness of the two steps that wait for another transaction's lock, since
PostgreSQL queues the waiters. `IndexRepair` has none: nothing but an operator starts a
mode, and its properties are invariants. `RpcFailover!FairSpec`: requests are answered or
time out, `setInterval` goes on and time passes. `AlertDelivery` and `RiskScan`: a worker
goes on with the jobs of its queue. `TokenEntitlements`: indexer and worker go on, and the
user asks again and again. Nowhere are blocks, reorgs, edits, redeliveries or failures
fair.

## 4. Proofs

Each theorem holds for all constants that satisfy the named assumptions of the modules
(`BlockAssumption`, `ChainAssumption`, `ConfigAssumption`, `RepairAssumption`, `LeaseAssumption`,
`TransferAssumption`, `RpcAssumption`, `AlertAssumption`, `QueueAssumption`, `ScanAssumption`,
`SignInAssumption`, `TradeAssumption`); none bounds the number of forks, processes, jobs, providers or
requests.

* `LiveIndexerProofs`: `IInv` is inductive. It adds to `TypeOK` what each property alone
  does not say: the position in memory is never beyond the checkpoint (`PositionInv`), the
  head that was read is still within the chain (`HeadInv`), the batch is a run of blocks
  from the position and has its rows once persisted (`BatchInv`), and a reorg's ancestor
  is a recorded block below the position (`AncestorInv`), which is why going back keeps
  the checkpoint covered. It gives `TypeCorrect`, `CheckpointIsCovered` and
  `JobsFindTheirBlocks`. `ResolvedReorgsAreClean` adds `MarkedInv`, that the tables
  `handleReorg` has passed are clean: nothing inserts while a reorg is being handled.
  Beside `IInv` stand invariants of one property each. `JobsInv` (a batch that was routed
  has its protocol events' jobs or a swallowed failure, and one that was published leaves
  no height behind) gives `JobsBeforeTheNextHeight`; `RewindInv` (a position below the
  checkpoint lies in the range of a resolved reorg) `CheckpointBackAfterReorg`;
  `HeightInv` (a canonical block lies below the position or is the block being written)
  `OneBlockOfAHeight`, for `Uninterrupted` iterations; `WindowInv` (a window being written
  was cut from the chain, deep enough) `DrainedBlocksStay`, if `MaxReorgDepth <=
  FinalityConfirmations`.
* `RecordsTheChain` and `FactsRecordTheChain`, the properties at rest, through any number
  of reorgs, failures, crashes and restarts. The inductive invariant is `Follow`.
  `LinkedInv` says that the canonical rows are a chain of their own: one of each height
  from the first on, each the parent of the next. `KnownInv` says that what was recorded
  was read of some chain and what was orphaned is not on the present one. `ResumeInv` is
  about the two positions the indexer may resume from, the one in memory (after a failure)
  and the checkpoint (after a crash). Each follows a recorded block (`FollowsRow`); if
  that block is orphaned the search for an ancestor ends at a row; and while a position is
  `Unsettled` (no hash to compare, an orphaned hash, or rows of an earlier attempt ahead
  of it) all canonical rows are the chain's (`Anchored`), so that what is indexed again is
  what is there. `SearchInv` says that the search passes over no row of the chain, and
  `ReadInv` that what is about to be recorded has its row or follows the last one. A
  tailed block continues the rows because its parent hash was compared; a window does
  because it and the row below it are on the chain, so deep that no reorg reaches them
  (`WindowInv`, `BelowWindow`). At rest the last hashes agree, and rows are the chain's
  below any row that is (`DownFrom`, by least elements, `LeastNat`, since the library's
  induction takes an operator).
* `RowsAgree` is the invariant of the facts: a table holds the canonical blocks' facts and
  no others, except the orphaned range that `handleReorg` has still to mark, in this
  attempt or the next (`Torn`), and the protocol facts of blocks at or above the position
  or with a swallowed failure (`Unrouted`). Of the transactions `TxRowsAgree` says that a
  row names a recorded block that carries it and is canonical with that block, whichever
  fork it was first read from. It is inductive while `crashes = 0`: after a crash between
  saving the checkpoint and routing nobody returns to the block (section 5).
* The hypotheses of both are the limits of section 5, and TLC finds a counterexample when
  one of them is dropped. `MaxReorgDepth <= FinalityConfirmations` is what
  `drainFinalizedBacklog` takes for granted. `OrderlyDrains`: a drain, which looks at no
  parent hash, begins where the last block is still on the chain. `ForksAboveStart`: the
  search for an ancestor ends in one. `OrderlyReorgs`: no reorg while the indexer is
  `Recovering` from the last one or from a failure, and none to blocks it has rows of.
  `OrderlyFailures`: what is cut short after recording had recorded blocks of the chain,
  since the retry, which compares with the hash below, does not see its own row of an
  abandoned block; and a provider that does not answer during the search had no match to
  report, since the search goes past it. They restrict when the chain changes and when
  things fail, not how often: between two reorgs any number of blocks, windows, failures
  and restarts may pass, at any step of an iteration and of `handleReorg`.
* The repair modes have their theorems in `LiveIndexerProofs` too, over an instance of
  `IndexRepair` with a chain that has settled. `RepairInv` says that the rows are of the
  range, and of the chain unless the live mode published them (`RowsInv`), that a mode at
  work holds blocks of the chain (`QueueInv`), and that each block of the backfill's batch
  is published, queued or unanswered, and what is queued will be fetched again when the
  batch is retried (`BackfillInv`); `DiscoveryJobs` is what the property says of the
  discovery jobs. It gives `RepairTypes` and, with `HandledInv` (what was routed has its
  protocol events' jobs or a swallowed failure), `RepairedBlocksHaveJobs`. `ForkInv`
  follows `handleReorg` through its tables: what it has passed of the fork is canonical no
  more, and only a replay that was started before can bring a fact back, since a mode that
  indexes holds blocks of the chain. It gives `AbandonedForkStaysGone`. `FillInv`, for a
  range that nothing indexed while the event was unresolved, says that the chain has no
  rows above the ancestor until then, so that nothing good is orphaned, and that what gap
  repair has inserted, or found, stays canonical; with it, that the scan's ranges cover
  every missing height (`RangesCover`), `GapsAreRepaired`.
* `IndexerLeaseProofs`: `LateInv` says that past a successful renewal there was no late
  write, so a second one needs a renewal in between; it gives `TypeCorrect` and `LateWritesBounded`.
  `ExclusionInv` says that whoever is past `acquireLease` holds the lease, that a lease lasts while
  its holder lives, so a takeover is from the dead, and that the holder's position is the checkpoint.
  It gives `IndexersExclude` and `CheckpointKeeps`, for processes `Undisturbed`: in time, not stopped, and
  taking over one at a time (`~contested`).
* `TransferProjectionProofs`: `TransferInv` says that no published transfer is lost
  (`PendingInv`) and that an orphaned one belongs to a block that is not canonical
  (`OrphanedInv`, which needs that the range being orphaned holds no canonical
  block between the two updates). It gives `TypeCorrect` and `TransfersKept`. `CountInv` adds that a
  sum under way counts only transfers recorded or its own; it gives `NoDoubleCounting`.
* `RpcFailoverProofs`: `BreakerInv` says that the copy equals the breaker's state and that a half-open
  breaker has tests left. Reading the breaker may half open it under a copy that says open, but
  then the copy only refuses more than it must; and a circuit closes at its last test, so no
  offered half-open provider refuses. `CallInv` says that whom a call was sent to it has tried;
  since tried providers are neither chosen nor fallen back to, `SentOnce`. `AskedInv` counts: a call has tried a
  provider for each attempt, and one more after a fallback. It gives `NobodyIsLeftUnasked` for
  `FewProviders`, at most one provider more than attempts. It covers historical calls, whose fallback is any
  provider left; only a call without a candidate to begin with is excepted (section 5).
* `AlertDeliveryProofs`: `ClaimInv` says that who sends holds the only fresh claim, which is what the
  refinement to `ClaimedWork` needs: a claim that can be taken over is held by nobody.
  `DutyInv` says that each delivery a job came upon is settled or owed by a job that has
  it before it or will run again; it gives `NobodyForgotten`.
* `RiskScanProofs`: `HoldInv` says that a job at work on a scan is the only one and the
  scan is running, `ResultInv` what each stage has written already: the findings of the
  score exactly, or, when the scan was begun over findings of a failed attempt (`again`),
  one of each fingerprint. They give `ScoresAreExplained`, and the refinement to
  `ClaimedWork`, whose steps are mapped one by one (`StepWork`). `JobInv` ties the queue's
  view of a job to its run and gives, with what a job has passed over,
  `NoScanIsForgotten`.
* `SignInProofs`: of the requests that validated a nonce, the one that consumed it is the only one past
  `consumed`, and no session has it yet; a user is inserted only while its wallet has none.
* `TradeIntentsProofs`: `RequestInv` says what remains true while a request waits: a transaction is never
  unknown again, a bound intent keeps its hash, a receipt that was read once existed. It gives
  both the invariant and the action property.

Only model-checked: the liveness properties (`EventuallyCaughtUp`,
`AbandonedForkIsOrphaned`, `EventuallyRecorded`, `RecoveredIsOfferedAgain`, `CallsEnd`,
`JobsEnd`, `TiersFollowBalances`: liveness is out of the prover's reach). Every invariant
and action property of the passing runs has its theorem, some under hypotheses the run
satisfies by its bounds; the type invariants of `LiveIndexer` and `IndexRepair` are proved
and not run. `TokenEntitlements` and `JobQueue` have no proof module; what
`RiskScanProofs` needs of the queue it proves itself.

## 5. Known limits of the code

What the passing properties hold within; each was seen in a counterexample of a larger
instance or of a stronger property.

Indexer, so that `RecordedChainIsTheChain` holds with drains that begin on the chain and without returning
forks, reorgs and failures in the middle of a recovery; `FactsFollowTheChain` also without crashes; and
`MutualExclusion` for processes that renew in time, are not stopped and take over one at a time:

* The last tailed block is replaced, the head moves on, and the drain takes over without looking at
  a parent hash (`block-indexer.ts:386`): the abandoned block stays canonical.
* A transaction in both forks keeps the row of the abandoned block, orphaned (`block-persister.ts:189`):
  `FactsFollowTheChain` says so, and no more.
* A protocol handler's failure is logged (`protocol-events.ts:38`): the block counts as
  indexed, without its protocol facts or the jobs of them. The live mode does not come
  back to it. A replay does, if an operator knows the contract.
* Persist, crash, reorg, restart: two canonical blocks of one height (`block-indexer.ts:329`). The same happens
  when the reorg comes before the crash, or when the iteration fails instead.
* Save the checkpoint, crash, restart: the tailed block's protocol events are never routed
  (`block-indexer.ts:350`).
* During the search for an ancestor the provider does not answer for a block that matches
  (`reorg-detector.ts:83`): the search ends lower down and good blocks are orphaned, whose
  rows the retry does not restore.
* A second reorg between the handling of one and the next block: that block has no hash to be compared
  with, and the abandoned block below it stays canonical (`block-indexer.ts:320`).
* The chain returns to blocks whose rows are orphaned: no canonical row of the height
  (`block-persister.ts:216`).
* Three processes, of which two find a lease expired: the second deletes the first one's new lease
  (`checkpoint-manager.ts:113`). `stop()` releases the lease under an iteration in flight
  (`block-indexer.ts:214`); `MutualExclusionWhenStopping` says what it would have to keep.

RPC client:

* With more providers than attempts and one, a call may give up on a healthy provider it never asked: an API
  with `RPC_MAX_RETRIES` of 0 has one attempt, which may go to the primary and fall back to the
  archive, and the secondary is left out (`rpc-client.ts:576`).
* A historical method, with an archive configured and no healthy provider known to keep history, fails at once
  though others are up (`provider-selector.ts:107`).

Repair modes:

* Nothing orders the modes. A replay started while an event is unresolved may write the
  abandoned fork's protocol facts after the reconciliation has marked them: it reads its
  logs once, and a fact it upserts is canonical again for good. A backfill or gap repair
  started then inserts good blocks in the event's range, which the reconciliation orphans.
  Both are the exceptions (`early`) of `AbandonedForkIsGone` and `GapsAreFilled`.
* The backfill records a block, publishing its jobs fails, and the batch is fetched again
  with a hole: the batch is indexed without the block (`block-fetcher.ts:189`), the
  position passes it (`block-indexer.ts:499`), and gap repair, which looks for missing
  rows, never comes back to it. `JobsForRecordedBlocks` excepts `unanswered` blocks.
* A restarted live mode may supersede an unresolved event and index the range anew. Reconciling the
  event then orphans the good blocks, and inserts that do nothing on a conflict do not bring
  them back. The model starts after the live mode and does not contain this.

Worker:

* A transfer's insert sees its block canonical and commits after the reorg has marked the
  transfers (`token-transfer.ts:48`): it goes on counting (`AbandonedTransfersStopCounting`).
* Two snapshots of one holder miss each other's transfer, and the later upsert wins
  (`token-balance-projection.ts:57`; `BalanceIsTheSum`).
* An alert whose sender died is recorded as `sent`, and a job delivered again within five minutes passes it over
  and completes: `Settled` counts a claim as settled. Recording an accepted message may fail, and the
  message is then sent again.
* A scan whose worker died stays `running` and is never claimed again; findings are those
  of all attempts, and of one fingerprint the first attempt's, while the score is the last
  one's (`risk-repository.ts:624`), so that a stored finding may say "pass" where the
  score counted a failure; alerts are lost when delivering them failed after the scan was
  finished, since the retry passes over the scan.
* A dead letter may be lost (`consumer.ts:68`), and a job that stalled twice has none.

API:

* A reorg that takes away the block of the indexed balance leaves a wallet without a tier that can be
  reconciled until its next transfer (`reorg-detector.ts:177`): `IndexIsStale` is the exception in
  `TiersFollowBalances`. A late request may commit an older observation over a newer one, until the next.
* A nonce is consumed though a later step fails, so the user signs again. When the driver wraps
  errors, a first sign-in that loses the race is answered with an error (`auth-repository.ts:274`).
* The request that loses the race to bind an intent is answered "broadcast" with its own hash,
  and leaves an event (`trading-service.ts:375`). A confirmed intent becomes `failed` when a reorg changes the
  receipt between two requests (`trading-service.ts:417`). One hash may bind two intents of the same calldata.

## 6. Not modelled

* Decoding, scoring rules, prices, markets, wallet projections, cost basis, discovery: functions of their
  inputs followed by an upsert by key. They are the largest part of the code (adapters,
  rules, repositories), and their results are arithmetic and layout of data rather than behaviour over time.
* Repositories that are queries; of the others, the statements that matter appear in the module of
  the component that issues them.
* The Redis cache (a lost lock costs a second computation), retention and pool backfill (range
  statements of one process), API keys, product CRUD, the WebSocket manager, account abstraction.
* Presentation (`apps/web`, `apps/admin`, `ui`), the Telegram bot, configuration, observability,
  contracts and deployment.

Composition stops where components meet only in rows: the worker's modules see a reorg as a
flag of the block, the indexer's see the worker not at all. `RiskScan` is composed with
`JobQueue`; `AlertDelivery` has a simpler queue of its own, without replays and dead letters.
