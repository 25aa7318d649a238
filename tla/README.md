# Verification of goodmoneying

TLA+ models of the parts of goodmoneying where several processes, transactions
or asynchronous tasks share state, the TLC runs that check them on small
instances, and TLAPS proofs of what matters most for instances of any size.

    tlc -workers 2 -config BacktestQueue.cfg MCBacktestQueue     # a run
    tlapm BacktestProofs.tla                                     # the proofs

`PROJECT.json` lists the components, the runs, the mutants that show each
property can fail, the source lines behind every definition, the findings, the
hazards and the theorems.

## 1. The system

goodmoneying collects Upbit market data, derives candles, indicators and
microstructure from it, freezes it into dataset versions, backtests published
strategies on them, and runs trading bots on paper, with a guarded path towards
live orders. Processes share one PostgreSQL database and hardly ever call each
other: a worker polls a table, claims a row under a lease and writes its results
back. Transactions are READ COMMITTED, so correctness rests on row locks,
`SKIP LOCKED`, advisory locks, lease generations, unique indexes and a few
triggers. The exception is the Upbit gateway, one process per profile whose state
is in memory: asyncio tasks on its WebSocket side, threads on its REST side.

| Component | State | Operations | What is hard | What must hold |
|---|---|---|---|---|
| Backtest queue (`backtest_store.py`, `backtest_worker.py`) | `backtest_runs`, results | claim with sweep, complete, fail | expired leases, workers that die, a stale worker completing, a completion that fails half way | results come from the last lease only; at most `max_attempts` executions; terminal rows are sealed; no run is out of reach of every claim |
| Backtest engine and submission (`backtest_engine.py`, `backtest_store.py`) | `backtest_runs`, trades, the replay's book | create_run, persist_completed_run, list, replay | idempotency and uniqueness rules in several places; candles known late | answers match requests; a trade depends on nothing known later; the equity adds up |
| Strategies (`strategy_graph.py`, `strategy_store.py`) | definitions, versions, graphs | create, validate, publish, list | concurrent publications; cycles behind acyclic parts | only runnable graphs; versions numbered in order |
| Paper execution, risk, kill switches (`portfolio_bot_store.py`, `paper_execution_worker.py`) | `order_intents`, `paper_execution_jobs`, `order_fills`, `position_projections`, `kill_switches`, `bot_instances` | evaluate, claim, complete, defer, fail, arm and release, change stage | a switch armed while an evaluation, a claim or a fill is under way; two fills on one position; refunds of attempts | one fill per intent; nothing passes an armed switch; positions are exactly their fills and never short; the budget balances |
| Reconciliation (`portfolio_bot_store.py`, `upbit_rest_reconciliation.py`, `upbit_live_reconciliation.py`) | `exchange_orders`, `order_fills`, `reconciliation_runs`, live applications | convert a snapshot, reconcile under a run key, apply to a live order | one key or order from two callers, an order that still trades, fee shares, rollback in the middle | the ledger is what was observed and what the exchange executed; a live run commits exactly with its application |
| Gateway session (`websocket_session.py`, `main.py`) | upstream, reader task, generation, subscriptions, labels | connect, subscribe, pause, unsubscribe, reconnect, list, read, reconnect by itself, close | every `await` is an interleaving point; cancellation; retries; the browser leaving | labels are true; no wanted stream is dropped; a closed session ends |
| Gateway REST (`executor.py`, `rate_limit.py`, `main.py`) | call windows, pauses | execute, acquire, observe, defer | threads waking together at the edge of a window; pauses of several answers | the exchange's limits and pauses are kept; every call is answered |
| Data foundation (`data_foundation_repository.py`, `postgres_repository.py`, `collector.py`) | markets, specs, coverage, `backfill_jobs` | sync, policy commands, plan, approve, control, claim, store, fail | leases without a generation, operators and workers at once | success means answered; one open job per market; no minute forgotten |
| Candle rollups (`postgres_repository.py`, `aggregation*.py`, `coverage_transition.py`) | revisions, projections, recompute jobs, rollups | upsert, classify, invalidate, aggregate, recompute | ids that commit out of order; coverage read twice | a settled rollup is that of the stored candles |
| Dataset builds (`dataset_version_store.py`) | `dataset_builds`, versions | create, freeze, claim, renew, publish, fail, list | a heartbeat beside the publication; ids that commit late | nothing but what rows within the frontier say; same content, same version; leases fenced |
| Indicators (`indicator_store.py`) | invalidations, checkpoints, materialisations | invalidate, claim a batch, fence, replay in chunks, read in pages | order of writes, frontiers that do not hold each other, checkpoints that predate a write | no value looks ahead of its frontier; impacts are recomputed; pages agree |
| Realtime stream (`realtime_stream_worker.py`, `postgres_repository.py`) | buffer, sessions, receipts, trades, verdicts | plan, connect, subscribe, apply, flush, fail, close | verdicts written before frames; desires that change while connecting; flushes tried again | an available minute has its frames; applied is subscribed |
| Microstructure (`microstructure_store.py`) | invalidations, points | trigger, claim, fence, materialise, fail | trades arriving while a bucket is computed | no trade is lost to the queue; the queue drains |
| API, console, repositories, live boundary, deployment | none of their own | | | |

## 2. Modules

| Module | Models | Composes |
|---|---|---|
| `LeaseQueue` | what a durable queue promises, without tables, locks or clock | |
| `FiniteSums` | lemmas on sums over a finite set, and on sets brought into order, used by the proofs | |
| `BacktestQueue` | the backtest queue and its workers | implements `LeaseQueue` |
| `PaperExecution`, `PaperExecutionProofs` | intents, risk, kill switches, paper jobs, fills, positions | implements `LeaseQueue` |
| `RestSnapshot` | the exchange's answer about an order as numbered fills | |
| `Reconciliation`, `ReconciliationProofs` | reconciliation runs and live applications | extends `RestSnapshot`; the exchange and paper fills are its environment |
| `GatewaySession` | one WebSocket session with its tasks | |
| `GatewayRest` | REST requests, windows and pauses | |
| `Backfill` | plans, approvals, jobs, targets and their workers | |
| `DataFoundation`, `DataFoundationProofs` | market catalog and policies | extends `Backfill` |
| `Rollups` | stored candles, invalidations, rollups | |
| `DatasetBuilds`, `DatasetBuildsProofs` | builds, leases, versions, listings | implements `LeaseQueue` |
| `IndicatorQueue` | the indicator queue and paged readings | |
| `RealtimeStream` | the realtime worker and what it stores | |
| `MicrostructureQueue` | the queue its triggers feed | extends `RealtimeStream` |
| `StrategyGraph` | graph rules, canonical form, reference definitions | |
| `StrategyVersions` | creation, publication, listing of strategies | extends `StrategyGraph` |
| `BacktestEngine` | the replay of candles and signals | |
| `BacktestSubmission` | create_run, listings, replay of a run | extends `StrategyVersions`, `BacktestEngine` |
| `BacktestProofs` | | proofs about `BacktestQueue`, `BacktestSubmission` and what the latter extends |
| `SeriesProofs` | | proofs about `Rollups` and `IndicatorQueue` |
| `MarketDataProofs` | | proofs about `GatewayRest`, `RealtimeStream`, `MicrostructureQueue` and `GatewaySession` |
| `MC...` | values of the constants for TLC | |

Common conventions. A transaction that only touches rows in one statement, or
whose locks keep others out from its first read on, is one action. One that
another can see between two statements is several actions, its process's `pc`
says where it is, and its writes appear with the action that commits. A crash, or
an exception, rolls back: locks go, writes do not appear, ids taken from a
sequence stay taken. A row that gets its id before it becomes visible is inserted
by one action and committed by another, so ids commit out of order. The clock is
facts per row ("the lease has lapsed", "the retry is due") that become true at any
moment; where durations matter (`GatewayRest`, `RealtimeStream`) it is a number.
A hash is the content it is a hash of. A definition whose comment starts with
*Mutant* is a plausible mistake in the definition that follows it, used to show
that a property would notice.

### BacktestQueue

`status`, `owner`, `gen`, `attempts`, `leaseDue`, `retryDue` are the columns of
`backtest_runs`, `results` the generations whose children were committed,
`rowLock` the row locks and `worker` the memory of each process in `run_once`.
`Sweep` and `Claim` are the two statements of `claim_next_run`; `BeginComplete`,
`CompleteRaises` and `Complete` are `complete_claimed_run`; `Fail` is
`fail_claimed_run`; `Crash` is the death of the process anywhere.

### PaperExecution

The kill switch protocol is modelled lock by lock. Evaluations, claims and fills
take `LOCK TABLE kill_switches IN SHARE MODE`, which conflicts with an
operator's uncommitted INSERT (`inserted`) and not with itself: `ShareLockFree`
and `HoldsShare`. `PickIntent`, `Decide` and the commit of an evaluation are
`evaluate_next_order_intent_risk`; `BeginClaim` and `CommitClaim` the claim;
`BeginComplete`, `ClearSwitch`, `LockPosition` and `CommitFill` the completion;
`Defer` is a job given back, with its attempt refunded, because a switch was
armed when the completion looked again; a bot that has left the paper stage is a
lost lease there, and the worker gives up. Amounts are small integers; notionals are
compared as the code compares them. What an executor returns is any quantity of
`FillQuantities`, or an exception.

### RestSnapshot and Reconciliation

`RestSnapshot` keeps the fields of a payload the conversion depends on.
`Parses`, `ObservedStatus`, the sorting and numbering of trades and the division
of the fee into shares are those of `upbit_rest_reconciliation.py`; a share is
computed with more digits than the table stores, and `Scale` says how many.

In `Reconciliation` the exchange trades and ends orders (`Trade`, `Finish`) and
a caller hands any answer it may give, complete or not, to an adapter
(`ApplySnapshot`, `ObserveSnapshot`) or calls the store itself (`Begin`,
`Answer`). The transaction takes the run key's advisory lock, locks the order
row and decides (`LockOrder`), locks the position and inserts the new fills one
by one in sequence order (`LockPosition`, `Project`) and commits run, order,
intent, fills, position and the live application at once (`Commit`), unless the
application's own keys refuse it (`RefuseApplication`). `Raise` and `Rollback`
end it anywhere else. The deferred trigger that requires an application for a
live run is part of `Commit`. `PaperFill` is what paper execution does to the
same position meanwhile.

### GatewaySession

An action is what an asyncio task does between two awaits. The tasks are the
relay and one reader per connection; `task[t].pc` is the await the task is at.
`Dispose` is `_dispose_upstream` with its cancellation, `Replace`, `OpenUpstream`,
`Resubscribe` are `_replace_upstream`, `Announce`, `Wake`, `Failed`, `GiveUp` are
`_auto_reconnect`. The exchange may end a connection and the browser may leave
at any moment. Frames are their labels: which connection they came from and
what the session wrote on them.

### GatewayRest

`calls` and `blocked` are the limiter's two dictionaries; `pc`, `req`, `wake`
and `answer` are each thread's place. `Request` runs the contract's rules
(unknown endpoint, token, types, sizes, exclusive and forbidden selectors, date
ranges) and refuses or goes on; `Acquire` is one look under the lock, which
grants the call or sends the thread to sleep until `wake`; `Observe` and `Settle`
are what an answer's headers and its 418 or 429 do to the group. `grants` and
`owed` are histories: every grant, and the end of the longest pause asked for.

### Backfill and DataFoundation

`jobs` are `backfill_jobs` with their targets, `market` the catalog, the specs
and the desires, `candles` and `coverage` what is stored per minute. A worker
goes through `ClaimNextJob`, `TakeTarget`, `FindRanges`, `CheckRange`,
`StorePage`, `RangeDone`, `MarkSucceeded` or `MarkFailed`, each one transaction.
`control_backfill_job` is `ReadControl` and `CommitControl`, since it reads
without a lock. `SyncMarketCatalog` and `SetMarketTargetState` are whole
transactions, with all they do to jobs (open, pause, resume, exclude, cancel) and
the progress refresh at the end. `answered` is a history of the minutes some
stored response answered.

### Rollups

A collector's transaction is `UpsertCandles`, which takes revision ids and row
locks, and `Propagate`, which takes the market's advisory lock, raises the
quality event and the invalidations with their jobs, and commits. `Classify` is a
coverage verdict without rows, over one of the intervals `Spans`. `ClaimNextJob`, `RunJob`, `FailJob` are the
recompute queue, `Schedule`, `ClaimAggregation`, `Materialize` the full
aggregation, which reads coverage twice. A rollup is the revisions and the
coverage it was computed from, with the frontier it is labelled with.

### DatasetBuilds

`BeginCreate`, `ReturnExisting`, `CreateBuild`, `CreateRaced` are
`create_build` under its idempotency key and the freezing of the ceilings.
`Claim`, `SweepOnly`, `Stage`, `InsertVersion`, `Publish`, `MarkFailed`,
`ScheduleRetry`, `LeaseLost` are `publish_next_build`; `Lapse` is a heartbeat
that does not come in time. `Insert`, `Commit` and `Judge` are the writers of
the tables a build reads. `FirstPage` and `NextPage` are the listing under its
ceiling. A row has an id and a value. Ceilings and the order of a slot's rows go
by ids and ranks (`Candidates`, `Preferred`, with the columns each ORDER BY
names); what is staged and hashed is the value and the quality, with the coverage
and without surrogate ids (`Member`, `ContentOf`). So builds of different
ceilings share a version when what they found says the same.

### IndicatorQueue

What is written of one series is a `plan`: source candles and quality events, or
the rollups of recomputations with the row that completes one, whose trigger
enqueues too (`Insert`, `Commit`). A frontier has three parts, what was known, the
source revisions and the quality events, and they are compared one by one
(`Visible`, `Within`), so that of two frontiers neither may hold the other. A
value is the set of candles folded into it, each with the event that gives it its
quality, so that a stale value differs from a current one whatever the formula
is. `Claim` takes a batch of one frontier, `Lock` and `Fence` the session's
advisory lock and the check that nothing older is open, `Read` the checkpoint and
the candles of a chunk, `Complete` writes the chunk and moves or ends the batch,
`Fail` and `Handle` are the error path. A reading takes its pages under one
ceiling.

### RealtimeStream and MicrostructureQueue

`w` is the worker: its place in the loop, the plan it read and its buffer.
Sessions, verdicts, receipts and trades are the tables. A flush inserts verdicts,
receipts and trades in one transaction, which may fail and be tried again in
`finally`. In `MicrostructureQueue` the same step adds the invalidations the
triggers insert (`Triggered`); `WriteFact` and `CommitFact` are the candle
writer; `Claim`, `EnterFence`, `Materialize`, `FenceFails` are
`run_next_microstructure_invalidation`.

### StrategyGraph, StrategyVersions, BacktestEngine, BacktestSubmission

`StrategyGraph` has the rules of `validate_strategy_graph`, with Kahn's count
as the code has it, beside `Runnable`, which says what a graph needs to run: its
nodes and edges have no error, and no set of nodes feeds itself
(`FeedsItself`). In
`StrategyVersions` an API thread goes through advisory locks, number, insert and
commit, and its connection may break anywhere. `BacktestEngine` has the replay,
one signal at a time: which candle a signal is filled on, slippage, participation,
fees, cash, position, equity, in exact integers. `BacktestSubmission` joins them:
`RunKey`, `RunInput`, `CommitRun` are `create_run`, `PersistRun` and `CommitRun`
are `persist_completed_run`, `StartReplay`, `ReplaySignal`, `FinishReplay` the
engine on the run's candles. `Clashes` stands for the two UNIQUE rules of
`backtest_runs` and `Taken` for those of `strategy_versions`: an insertion waits
for another transaction's clashing row and is refused when that one commits, and
its identity value is used up. `OneFillEach` is the UNIQUE (run_id, occurred_at)
of the equity points. A run's trades come with its row: `create_run` hashes its
input without signals, and `complete_claimed_run` takes only a result with the
run's `input_hash`, so what a worker adds to a queued run has no trades; a run
that has some was stored whole by `persist_completed_run`.

## 3. Runs

| Run | Instance | Shows |
|---|---|---|
| `backtest_queue` | 2 workers, 3 runs, 2 attempts, 2 crashes | fencing, refinement of `LeaseQueue`, no run out of reach of every claim |
| `paper_execution` | 2 workers, 1 evaluator, 2 buys on one position, 2 attempts, 2 switch rows, 1 stage change, 2 crashes | one fill, exact budget, exact position, the kill switch barrier, only a lost last lease strands a job |
| `reconciliation` | 2 callers, a paper and a live order on one position, 2 run keys, 2 of 3 market trades, orders done or prevented, a stranger's payload, a key another order has used, 1 paper fill, fair | the ledger is explained, equals the exchange's, loses no update; snapshots agree; every request ends |
| `gateway_session` | 2 connections and 2 controls with both visibilities, or 3 and 1 with one; 2 streams, 1 retry, every control, fair | true labels, no stream dropped, a leaving client ends the session |
| `gateway_rest` | 3 calls in 2 groups, limits 2 and 1, windows of 2 and 3 ticks, eight kinds of answer, fair | the window's limit, pauses kept, every call answered |
| `rollups` | 2 collectors, 1 worker, 3 minutes in buckets of 2, 2 responses, 1 full aggregation, 1 fault or verdict (over one minute or all) | settled rollups have a current frontier and, without a race, the current value |
| `data_foundation` | 2 markets, 2 workers, 2 instants, 3 commands or faults | success is answered, one open job per market, off is quiet, no minute forgotten |
| `dataset_builds` | 2 clients, 2 workers, 2 slots, 3 requests under 2 keys (one that fails on missing data), 3 rows, verdicts or faults: two rollups of one bucket that say the same, one that found it missing, two verdicts about it | members, missing-data policy, identities, refinement of `LeaseQueue` |
| `indicator_queue` | 2 workers, 3 slots, chunks of 1, batches of 3, 2 faults or readings, 4 plans of up to 3 writes committed in any order: a recomputation with its completion, candles with a quality event, frontiers that do not hold each other, a frontier without an event; fair | no look-ahead, impacts recomputed, the series newest where frontiers come in order, pages agree, every invalidation ends |
| `realtime` | 5 settings: stream alone with two sessions, or with two types; one session with two workers and a fault, with two trades of one minute, with two facts about it; fair | verdicts behind frames, applied is subscribed, no trade forgotten, the queue drains |
| `realtime_gap` | 3 sessions, the first failing | *violated*: minutes held by a clean session reported as a gap |
| `backtest_submission` | 3 threads, 1 broken connection; every graph of three nodes; publications, submissions and stored results that meet on keys, strategies, inputs and seeds; every tape of three candles with two signals | the validation is right, answers are true, trades are causal, the equity adds up |

Why the bounds are enough. Every hazard in a queue is between two holders of one
row, so two workers and two or three rows give a stale holder, a new one and a
bystander; two attempts give a first, a last and the move between them. In
`PaperExecution` a switch must be armed and released once each, and a position
needs two buyers; for sales, shadow orders and more rows the proofs hold for
all constants. Reconciliation needs two callers on one key, one order and one
position, with a snapshot before and after a trade. The gateway needs a connection
and its replacement, and a competing replacement, hence three with one control.
A window needs its limit and one call more. Rollups need a response that spans
a bucket boundary and a second that overlaps it; indicators three slots, so that a
checkpoint lies strictly between the change and the end, and plans rather than all
writes: the four are the shapes in which frontiers can meet. Datasets need two rows
of one slot that say the same, so that a version is shared by builds of different
ceilings, and one that is preferred and unusable. Two markets show that work for
one does not disturb the other, and two instants a sync after work has begun.
Faults (lapses, errors, crashes, operator commands) share one budget per run: the
hazards listed need at most that many, in any combination and order. A cycle among
three nodes can avoid an acyclic part or pass through it; three candles let one
be skipped, late or missing.

Symmetry is used for collectors (`rollups`), workers (`backtest_queue`,
`data_foundation`) and clients and workers (`dataset_builds`), in runs that check no liveness.

`CHECK_DEADLOCK FALSE` is set where the system may stop: a closed gateway
session has nothing left to do, and in `rollups`, `data_foundation`,
`dataset_builds`, `indicator_queue` and `realtime` the bounded inputs run out and
the queues are empty. The liveness properties of those with fairness say that
this is how they stop. Elsewhere deadlock is checked.

Fairness. The aggregation worker, which serves the indicator, microstructure and
dataset queues, and the realtime worker poll in endless loops; transactions end,
leases that nobody renews run out and retries come due: weak fairness of a worker's
steps, of lapses and of the commit of an open transaction. An exception ends these
processes (`aggregation_collection_worker.py` re-raises), so that a worker's next
step comes rests on the deployment: `restart: unless-stopped` in
`deploy/profiles/prod-home/target/app/compose.yml`. The worker's queues have an
order of priority (`aggregation_worker.py:76`: recomputations, aggregations,
indicators, microstructure, datasets); the liveness of the later ones is that of a
worker whom the earlier ones leave time, which they do when their bounded inputs
are done. Nothing in the repository polls `BacktestWorker.run_once` or
`PaperExecutionWorker.run_once`, so `BacktestQueue` and `PaperExecution` assume no
fairness and claim no liveness: `NoRunStranded` and `OnlyLostLeasesStrand` say what
a state must allow for a poll, whenever one comes, to take the work further.
Nothing is assumed of an executor's success, of operators, of writers that have not
begun, or of crashes, which are bounded. Reconciliation adds strong fairness for its two
lock waits because PostgreSQL queues waiters, so a waiter cannot be overtaken
for ever. The gateway session assumes that the event loop runs every task that can
go on and that a close, a connection attempt, a send or a delay ends, in success
or failure (`close_timeout`, `ping_timeout` and asyncio's own timers); nothing
makes the exchange accept a connection or the browser send or leave. The REST
side assumes that a runnable thread runs, that a call ends, by its timeout at
the latest, and that time passes.

## 4. Proofs

Assumptions: the named ASSUMEs of each module (positive numbers of rows and
attempts, `None` is no worker, the shape of orders and scopes; for `Rollups`, whole
buckets of minutes, pages and verdicts about those minutes, and no verdict that says
`available`, which only stored rows do; the `Nothing` of a slot without a candle is
no candle; for `DatasetBuilds`, `IndicatorQueue` and `BacktestSubmission`, the shape
of the requests, rows, events and plans they are given). Nothing bounds
workers, callers, rows, scopes, positions, trades, markets, minutes, calls or
crashes.

The proofs are laid out alike: the initial states satisfy the inductive
invariant `IInv`; one lemma per action, resting on frame lemmas for the rows and
processes the action leaves alone; the theorem by cases on `Next`; then each
property from `IInv`.

**BacktestQueue.** `IInv` is `TypeOK` with the four safety invariants, and two
strengthenings they need. `LeaseColumns`: the lease columns agree with the
status (the CHECK constraints). `WorkerMemory`: a worker past its claim knows a
generation that was granted, not above the row's, and an open claim transaction
holds exactly the exhausted rows it swept. Without the second the lease check
of a completion proves nothing about who else could pass it. From `IInv`:
`TypeCorrect`, `Fencing`, `Budget`, `NeverStranded`, `DistinctClaims`, `Sealed`,
`LeaseRespected` and `Refinement` (`Spec => Abstract!QSpec`).

**BacktestSubmission** (in `BacktestProofs`, with the modules it extends). The
invariant has four parts. `StoreInv`: advisory locks exclude each other
(`Exclusive`), a table has one row of a key (`TableOK`), and a thread past its
checks has the lock of a key that nobody has used (`Reserved`) and, from its
number on, the lock of its strategy's sequence, under which that number is the
next one (`PendingVersion`); so a commit cannot meet another row of its key or its
number. `ReplayInv`: cash and position are those of the trades so far
(`Balanced`). `RunsInv`: no two runs, the inserted ones included, have one id, and a
run has its trades from the start. `ListingInv`: a listing has what there was
above or below its cursor. From it: `ClientsAreToldTheTruth` and `EquityIsAccounted`. Statements such as
ORDER BY are written as functions that bring a set or a sequence into order
(`Descending`, `Ascending`, `Sorted`), so that their results can be reasoned
about.

**StrategyGraph.** Kahn's count is a loop over a queue of nodes. `KahnInv` says
what holds after each turn: the nodes visited so far have a rank, every edge
into one comes from a lower rank, a node's indegree left counts the
predecessors not yet visited, and a node waits in the queue exactly when that is
zero. When the queue is empty and nodes are left, each of these has a
predecessor among them, so the set feeds itself; when none is left, the ranks
rule that out. Hence `HasCycle` is `FeedsItself` on graphs of any finite size,
and `GraphsAreJudgedRightly` follows with what a thread remembers of the graph it
checked (`Judged`).

**IndicatorQueue.** `ReadingInv` says that a reading has got, up to its cursor,
the best point of each slot among those up to its ceiling. Points are only added behind the others, so nothing a reading stands on
changes (`ReaderUndisturbed`). `ReadingsAgree` is the result. The lemmas about a
chunk (`BySlotLists`) are what a step of a worker needs.

**Rollups** (in `SeriesProofs`). A bucket's frontier is a pair of a revision and a
quality event, and it is *claimed* by a row of the bucket or by a job over it that
has yet to succeed. `SettledFrontier` speaks of drained queues only; `FrontierInv`
says of every state that some claim on a bucket with a revision is as new as all its
revisions and events, and that no claim is newer (`Topped`). When the queue is
drained, that claim is a row, and the one served. A step disturbs this in three ways. A
job that runs becomes the rows it computes: its bucket has one because a frontier
that covers the bucket lets its revisions through (`RowsOfJobAre`). A full
aggregation writes rows that are behind what there is (`Behind`): what it read was
committed, and it takes the quality ceiling as it writes. A change is the hard
one. Under a changed coverage the new quality job names the newest
revision and the newest event and tops every other claim (`ChangedBucketTopped`).
Without one, the source job names the newest of the transaction's own revisions and
the bucket's newest event; revisions that took a higher id and committed earlier
have claims of their own, and the newer of the two frontiers tops the bucket: its
coverage is as it was, so both name its newest event (`UnchangedBucketTopped`). The jobs of one change are a set of
ranges brought into order, and the rows of one computation a set of buckets:
`ListedByNumber` says what such a listing has. The rest of the invariant is what the
two cases need: an available slot and a stored candle have a revision
(`StoreOK`), and once written every slot of a page has one, committed or the
transaction's own (`TxOK`).

The value follows from the frontier. `ValueInv` holds while nothing has raced: one
collector at a time has written (`OneWriter`), the highest numbered revision of a slot
is also its newest and has the content of its candle (`Holding`), and a job or a row
whose frontier covers its bucket has the value that the store gives it, the job
because the coverage it froze is the current one (`JobCurrent`, `RowCurrent`). A step of the
queue writes what a job froze and the revisions up to its frontier, which are those of
the bucket (`JobRowsCurrent`); a full aggregation writes what it read, still current as no change was committed
meanwhile (`ReadRowsCurrent`). A change leaves a claim covering only where it made no
revision and changed no coverage (`CoversSpared`), and there the candles hold what
they held: a slot of the page without a new revision had the page's content already
(`KnownContent`, `SparedStore`). So the row served once the queue is drained, which
covers its bucket (`ServedCovers`), is the current aggregate: `SettledRollupIsCurrent`.

**PaperExecution.** `IInv` adds to `TypeOK`, `OneFillPerIntent`,
`BudgetAccounting`, `LocksAreOpen` and `NoShortPosition`: `Barrier` (a process
past its share lock has no uncommitted switch beside it and, unless it rejects,
no armed scope), `IntentStages` (which intent and job statuses go together),
`EvaluatorMemory` and `WorkerMemory` (what was read under a lock is still so).
`Barrier` is what turns two reads of a table into the promise to the operator:
`SwitchBarrier` follows because every commit that approves, leases or fills
happens while it holds. From `IInv`: `TypeCorrect`, `FilledOnce`, `Budget`,
`NeverShort`, `OpenLocks`, `OnlyLapsesStrand`, `SwitchBarrier`, `LeaseRespected`, `ProjectionExact`
and `Refinement`. `PositionIsSum` carries the step form to the whole history: a
position is what it was at the start plus the signed sum of all its fills.

**FiniteSums.** Sums over finite sets are folds, and what a fold computes is an
induction over data. The library's induction theorems take an operator and cannot
be used, so the module argues by the least number: the sizes for which a sum
does not behave are a set of naturals, and its least element is refuted by
removing one member. It yields the lemmas the position and fee proofs cite: the sum
of an extended set, of two functions that agree, of an image, of terms each
within a bound of another's.

**Reconciliation.** `IInv` is `TypeOK` with what a caller's locks guarantee at each
place (`HoldsKey`: no run is recorded under its key; `HoldsRow`: what it decided
about the order still stands, and the fills it has inserted and has still to
insert are the unrecorded ones; `HoldsPosition`: its quantity is the position
moved by what it inserted), with `LedgerRows` (a sequence number is recorded once,
as its column stores it) and the two ledger properties. From it: `TypeCorrect`, `FillsRecordedOnce`, `LedgerIsExplained` and
`PositionIsSumOfFills`. About the conversion of an answer: `TradesSorted` (the
numbering rearranges the trades in the order of their keys) and `FeesAddUp` (the
shares add up to the fee exactly, because the last one takes the rest).

`Reasoned` adds the exchange. `Sourced`: behind every success there is an answer
of the order that may be applied. Such an answer says that the order has ended,
so no later answer of it differs but in the order its trades are listed in; and
the sort key tells trades apart, so any two answers make the same fills
(`SameFills`). Hence the rows add up to the executed volume exactly, and to the fee
within half a unit per row (`LedgerIsExchange`), and an answer is a mismatch only if
a share of it does not fit the column (`AnswersAgree`). Both have two hypotheses,
which `MCReconciliation` states as an ASSUME for TLC to evaluate:
`DistinctTrades` (trades differ in their sort key: the exchange gives each its
uuid) and `OnlyAnswers` (the exchange's orders are live ones, a direct caller of
the store brings no application, a payload that names the order is the
exchange's). Without the second nothing ties the ledger to the exchange: the
store records what it is told.

**GatewayRest.** `IInv` is `Threads` (a thread's place goes with a request of a
limited group and with an answer the exchange may give), `Windows` (the deque of
a group is a suffix of its grants, in the order of time, which holds every grant
that still counts and no more than the limit) and `Pauses` (`blocked` is not
before the longest pause asked for). `LimitHeld`: a grant and the one `Limit`
places later are a window apart, because the later one found the earlier cut
off. `PenaltyKept` is the action property on pauses.

**DatasetBuilds.** `IInv` follows the data: `Store` and `Builds` (the frozen coverage
covers every slot and knows its buckets), `Client` (every build was some
client's, and one key has one build), `Worker` (what is staged may be published,
`Good`: each member is what some row within the ceilings and `as_of` says, and no row
that was there at acceptance is preferred to it; every slot the accepted rows can
fill is filled; under the policy `fail` nothing blocks it), `Version` (an inserted
version that is not yet visible is the only one with its content and its id),
`Published` (the version that a succeeded build names is `Good` for that build) and
`Reader` (what a listing has yet to show is below the last id it has shown). `Good`
speaks of what the members say and never of row ids, as the content hash does: a
version that another build published is found by its content, and is good for the
build that shares it because its own staged members were.
`WithinFrontier`, `FailPolicy` and `Identities` follow. `Refinement` shows the build
queue to implement `LeaseQueue`, action by action.

**Backfill and DataFoundation.** Commands, syncs, refreshes and workers change a job
in a few ways, so the proof is about those: a step of a job is `Changed` (it
keeps its range and markets, opens no target and, but for the markets that are
resumed, makes none ready) and `Earned` (a target succeeds only if its minutes
were answered). `Follows` says the same of the whole table and composes;
`SyncsTo` is the recursion over markets of a catalog sync, shown to be such a
step one market at a time. `Memory` is what a worker without a lease generation
may still rely on: its job keeps its range, and the minutes it has passed were
answered. `Inductive`, `Answered`, `OneOpenJob` and `OffQuiet` are the results.

**RealtimeStream and MicrostructureQueue** (in `MarketDataProofs`). The code loops over
frames, verdicts and the rows a trigger inserts, which the model writes as folds.
What a fold computes is out of reach in general, but that it stays within a set
its step stays in is not: `FoldExists` and `FoldWithin` show it by the least
number, and `IndexInduction` the same for what holds of every index passed. That
is all these proofs need of a loop.

`StreamInv` has three parts. `Tables`: every verdict is `Fine`, that is, one that
says `available` is about past minutes and every frame its session received and
did not store is of a later minute. `WorkerMemory`: until it gives its buffer
up, the worker has every received frame of its connection that is not stored;
this is what makes the verdicts of a flush fine, and why a frame dropped by a
crash does no harm. `Desires`: a generation belongs to one mind about a
channel, so a plan that has the current generation has the current wish. From it:
`AvailableHasItsFrames` and `AppliedIsAsDesired`.

`QueueInv` adds that no row reaches beyond the trades there are and that a worker
inside the fence holds a running row, alone, whose point has every trade the row
reaches (`Fences`). A trade stored meanwhile lies beyond the row, and its trigger
never widens a running one (`Carries`), so when the row ends nothing it
reaches is lost. The lease plays no part in this: a lapsed row is claimed again
only outside the fence. `TradesRemembered` is the result; it needs finite sets of
markets and data types, which the catalog and the schema have.

**GatewaySession** (in `MarketDataProofs`). `SessionInv` says of the labels that
the session's id is its upstream's and that the frames of that id are numbered up
to `sequence` (`LabelOK`); and of each task (`TaskOK`) that its generation is not
newer than the session's, that the connection a task of the newest generation
opens or reads has the session's visibility, and that a control's request
leaves out no stream that its connection has and the client wants. The last
holds because only the relay sends and handles one control at a time, so the
streams wanted change while nothing waits for the limiter. `FramesAreLabelled`
and `NoStreamIsDropped` are action properties that follow for every step.

Which theorems state a property that a run checks is in `PROJECT.json`; the others
(types, locks, distinct claims, sealing, leases, positions never short, the
refinement of the paper queue, sorting and fee shares, fills recorded once, the
inductive invariants) rest on the proof alone.

Only model-checked:

- liveness, in all modules: the prover has no support for fairness;
- what recursive definitions and folds over sequences compute (beyond what every
  step of them keeps): the replay of the engine on a part of its tape, hence
  `TradesAreCausal`; the fold of an indicator, hence `SeriesIsPointInTime`;
- `NoSlotForgotten`, an action property that relates a sync to every page stored
  since the policy's start.

## 5. Finding

**A failed session poisons every later reconnection** (`postgres_repository.py:292`,
run `realtime_gap`). `open_realtime_connection_session` looks for the previous
session among the failed and disconnected ones only. Sessions that closed cleanly
since do not end the search, so each reconnection reports everything since the old
failure as missing, and the later verdict hides the `available` one. The history
of the microstructure work (`docs/History/2026-07-17-P2-4-불변-1분-미시구조.md:14`)
promises immutable evidence of fully connected intervals.

## 6. Observations

Met while modelling. They are in the models as the code has them; the properties
except exactly these cases, or speak of something else.

- *Paper.* A job whose last lease expires is never dead-lettered: the claim
  selects it and its UPDATE refuses it, ahead of every later job
  (`portfolio_bot_store.py:226`, `:267`). `OnlyLostLeasesStrand` says that nothing
  else strands a job: it names this case, and does not show it harmless.
- *Reconciliation.* The application's idempotency key and request id derive from
  the run key alone and are unique in the table, so a second live order under the
  same key is refused (`upbit_live_reconciliation.py:103`). A fee share with 28
  digits against `NUMERIC(38,18)` makes an observation of the same snapshot under
  a new key a mismatch; `SnapshotsAgree` excepts it. A late "missing" observation
  under a new key sets a reconciled order back to `outcome_unknown`
  (`portfolio_bot_store.py:521`). A "prevented" snapshot without trades succeeds
  with no fills (`upbit_rest_reconciliation.py:142`). The plain adapter does not
  compare the order's uuid, and nothing compares `executed_volume` with the
  trades' volume.
- *Gateway session.* A reader that is replacing its upstream is no longer
  `_reader_task`: a close meanwhile leaves the connection it opens
  (`websocket_session.py:320`), and a control that replaces the upstream meanwhile
  leaves two readers, the orphan's frames carrying the other's id (`:388`).
  `FrameLabels` therefore speaks of the frames of the session's upstream. A client
  that connects to the other visibility while a reader's reconnection is at the
  connector gets, once that answers, an upstream of the old visibility whose frames
  say the new one, until its own replacement comes: nothing compares the
  generation after the connector's answer (`:319`). `FrameLabels` asks for the
  visibility only while the upstream's reader serves the session. A
  resubscription that fails in a reconnect control leaves an upstream without
  a reader (`:325`).
- *Gateway REST.* The time of the grant is limited, not the time of sending. Between
  `observe` and `defer` another thread may be granted. A 429 whose body is not
  JSON imposes no pause, although `docs/02_Architecture/upbit-api-gateway.md:67`
  cools the group down until the next second. Waiters have no order among them. A
  selector with a blank
  value is still sent.
- *Backfill.* `control_backfill_job` reads without a lock and updates by id alone
  (`postgres_repository.py:3633`): a job that succeeded in between becomes paused
  or stopped and, resumed, is claimed with nothing to do until it is dead-lettered.
  The same gap can leave two open jobs for one market. A pause reads a job; the
  job is dead-lettered meanwhile, with a target the halt of its market had
  paused; the market trades again and gets a new default job; then the late
  pause reopens the old one, whose target is still paused. The proof of
  `OneOpenJobPerMarket` found this: it did not go through until the model marked
  as `forced` every ended job that a late command puts back, by a pause as
  well as by a resumption.
- *Rollups.* A response equal to the highest revision is suppressed although an
  older one is current (`postgres_repository.py:5984`): `SettledRollupIsCurrent`
  excepts behaviours in which two transactions met. A failed target leaves an
  aggregation job running, and the schedule opens no other
  (`aggregation_worker.py:118`).
- *Datasets.* A row with a smaller id committed after the acceptance enters the
  version (`dataset_version_store.py:1500`), although
  `docs/ADR/ADR-0021-불변-데이터셋-빌드와-내용-주소-버전.md` (`:15`, `:17`, `:38`) fixes the frontier
  when the request is accepted. `PublishedWithinFrontier` therefore promises no
  more than a row at least as good as the accepted ones. Two builds whose
  members say the same share one version, whatever rows they read it from: the rows it
  names may lie past the second build's ceilings.
- *Indicators.* A dead-lettered invalidation leaves stale checkpoints behind it, and
  a write that commits after a younger one was computed may leave stale progress. The
  three parts of a frontier are compared one by one (`indicator_store.py:532`,
  `:592`): a checkpoint with a newer quality event and an older revision is neither
  a parent nor replaced, and a series of such frontiers can stay stale with
  every invalidation done. `SeriesIsPointInTime` promises that no value looks ahead in
  all of these cases, and an up-to-date series outside them. An invalidation
  without a quality ceiling reads rollups of any event (`candle_rollups`), while the
  choice of parents and of the next rollup counts the missing ceiling as 0
  (`:930`): a rollup that names an event is then not recomputed by it, and a checkpoint
  that saw it may be resumed under an earlier event. The property excepts a NULL
  ceiling that shows such a rollup. It also needs a batch to hold every
  invalidation of one frontier, or a chunk every candle behind it, as the code's 512
  do unless one write corrects more rollups than that: with batches and chunks of
  one and three invalidations of one frontier TLC finds that batches take turns
  chunk by chunk, and that one goes on from a state another has made stale
  (`indicator_store.py:115`, `:341`). It can therefore not be proved for every size.
  Claims of both
  invalidation queues have no attempt budget for workers that die.
- *Realtime.* `connected_at` is taken before the socket connects. A crash leaves no
  evidence of the gap. The trade ceiling of the verdict that completes a minute
  misses the trades of the same flush.
- *Backtests and strategies.* A second run that differs in cash or execution model
  only, and a second publication of the same graph, meet a UNIQUE index and end in
  an uncaught error. Without the lock of the sequence two publications would count
  the same next version, and UNIQUE(strategy_id, version) would refuse one of them.
  Duplicate node ids are not rejected. The engine lets cash
  become negative. Two signals filled on one candle, or on two markets' candles of one
  minute, yield two equity points of one time: UNIQUE(run_id, occurred_at) refuses
  such a result, so its run cannot be stored. `persist_completed_run` stores a result
  that the engine calls failed with the status succeeded. `complete_claimed_run` can only
  store a result without signals, hence without trades: a queued run's `input_hash` is
  that of no signals (`backtest_store.py:207`, `:400`).

## 7. Not modelled

- Numbers: decimal arithmetic of the indicators, the statistics and the rollups'
  prices, the performance artifacts of a backtest.
- Contents: parsing, redaction, hashing, formatting; JWT and HTTP; order books.
- Reads without state of their own: the API's and the console's queries.
- SQL isolation beyond READ COMMITTED row locks, `SKIP LOCKED`, table and
  advisory locks.
- `sqlite_repository.py`, the single-user store of tests and demos;
  `claim_backfill_job`, which only tests call; in `DatasetBuilds` the coverage
  events that commit late under a smaller id; the
  purge of old frames; the refresh of the legacy candidate universe; the intervals
  behind the coverage of a minute.
- The live boundary (P6): validators of single values without a caller in the
  running system.
- `record_upbit_live_reconciliation_application` called alone: the deferred
  trigger makes every live run commit with its application, so it never finds a
  run to insert for.

## 8. Plan

1. The browser's stream: cursors of the server-sent events and the recovery in
   `useRealtimeAnalysis.ts`.
2. Coverage intervals: splitting and reclassifying, against the status per minute
   that `Rollups` and `Backfill` use.
3. The live boundary, once something in the running system calls it.
