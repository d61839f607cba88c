# stock--center in TLA+

`stock--center` collects Chinese A-share market data, computes factors, runs
trading strategies on paper and serves the results. The back end is one asyncio
process (FastAPI, SQLAlchemy, APScheduler) over PostgreSQL, with Redis as a shared
cache and lease holder. There are hardly any threads that share Python state: every
interleaving happens at an `await`, in the database between transactions, or in
Redis between processes. This directory models the parts whose correctness depends
on those interleavings, on failures half-way, on restarts, and on two pieces of code
that compute the same thing and have to agree.

All source paths below are relative to `src/python-back/app/`.

## 1. Inventory

| Component | State it keeps | Operations | Talks to |
|---|---|---|---|
| Scheduler centre (`modules/scheduler_center`) | `t_scheduler_job`, `t_scheduler_job_run`; in memory `_active_tasks`, `_scheduler`, one execution semaphore; one PostgreSQL advisory lock per job on a connection of its own | start a run (cron, background request, synchronous request), execute with retry and timeout, report progress, cancel, finish, reload, mark orphans, start/stop | every job handler; the API; PostgreSQL |
| Tushare token pool (`market_data/tushare_runtime.py`, `tushare/rate_limit.py`) | token rows (status, cooldown), a deque of request times per token | load candidates, reserve, ask, mark, fall back, give up; operator edits | every ingest job and interactive query |
| Paper trading (`strategy_center/realtime_service.py`, `repository.py`) | candidates, paper trades, sell legs; one `asyncio.Lock` | confirmation and exit round, daily reconciliation of candidates | realtime blocks (depth, minute), candidate job |
| Strategy versions, backtests, studies (`strategy_center`) | definitions, versions, backtest runs and trades, studies | create, edit, backtest, tune, promote, archive; matchers, gate, prefilter | scheduler jobs, API, realtime reference |
| Close ingest (`market_data/close_ingest.py`, `scheduler_handlers.py`) | facts and factors of a trading day, audit rows | core, enrichment, minute and repair runs; readiness; rebuild | token pool, indicator engine, scheduler |
| History backfill (`history_backfill.py`, `entity_history_backfill.py`, `indicator_engine/backfill.py`) | facts, events and factors of a range, audits | long resumable runs with concurrent workers, rebuilds | providers, indicator engine |
| Synchronisation and queries (`sync_service.py`, `service.py`, `providers.py`) | catalogs of stocks, sectors, indexes, universes and members; rows a query persisted | catalog runs; queries in four modes over several engines | providers, PostgreSQL |
| Indicator engine (`modules/indicator_engine`) | factor rows of stocks, minutes, sectors, indexes | assemble, complete locally, rebase prices, rank | close ingest, backfills, strategies |
| Market insight (`modules/market_insight`) | emotion models and scores, limit-up evidence, market summary, reports | calibrate, activate, score, review | close ingest, scheduler |
| Realtime market (`modules/realtime_market`) | leader lease in Redis, quotes/depth/minutes in memory, shared snapshots in Redis, targets and turns | refresh loop, forced refresh, blocks, hydrate, invalidate, publish | TickFlow and MooTDX, Redis, paper trading |
| Data asset cache (`modules/data_assets`) | payload, last-good and meta keys in Redis, a refresh lease | refresh, read with fallback, status; coverage and gaps of a day | Redis, PostgreSQL |
| Stock pools, configuration centre | tables of their own | requests, each one transaction | strategies, realtime runtime, every provider |
| LLM and skill runtimes | keys of the configuration, log rows, one directory per attempt | calls with context and key fallback; chains of skills in processes | nothing in the program calls them at this commit |

How they interact: APScheduler or a request calls the scheduler centre, which runs a
handler under the job's lock. Handlers of the close ingest call Tushare through the
token pool, write facts in one transaction per block and then have the indicator
engine derive factors. The strategy jobs read factors and write candidates; the
realtime loop of the process that holds the leader lease turns candidates into paper
trades.

### What is hard, and what makes each part correct

* **Scheduler.** Cancellation can be delivered at any `await`, the session or the
  lock connection can drop, the process can exit between the start row and the final
  write. Correct means: handlers of a job exclude each other, no lock, slot or active
  task outlives an execution, a finished row is not rewritten by anybody else, and
  every row that says `running` is settled eventually.
* **Token pool.** Calls sleep outside the lock and wake together; failures of one
  token move a call to the next. Correct means: the local limit is never exceeded nor
  imposed without need, and every token is tried before a call fails.
* **Paper trading.** A round is one long transaction that decides from rows it read at
  its start, in competition with another round and with the nightly job. Correct
  means: no share sold twice, none on the day it was bought (T+1), and a candidate's
  status and its trade always agree.
* **Strategy versions.** Status changes of a version race with backtests that take
  minutes and commit in batches. A study replays trials over candidates a baseline kept.
* **Close ingest.** Blocks of a run commit on their own; the repair job has to find
  what is missing and to recompute whatever was derived from rows it replaced. The minute
  phase is a pipeline of workers and one writer that has to end whatever fails.
* **History backfill.** Workers drop rows, stop with the process or straggle beside the
  next run; a later run has to know what it may skip.
* **Derived data.** The same number is calculated by SQL over a day and by Python over a
  window, in any order and more than once; results must not depend on which came last.
* **Realtime rounds.** The lease is renewed only when a round starts, blocks outlive
  rounds, shared snapshots are written by whoever believes to be leader. Correct means:
  quota is spent by the owner of the lease, shared data survives every takeover,
  somebody always takes over, an edit of a pool reaches the leader however its
  invalidation was lost, and the slots of a round are shared fairly.
* **Data asset cache.** A lease that is not renewed and a read-modify-write of meta.

`PROJECT.json` lists every hazard at its line with the properties that cover it. Where the code
lets the hazard happen in some case, the property excepts exactly that case and a note names it; a
hazard no property covers has a note alone.

## 2. Modules

### Modules with instances of their own

| Module | Models | Instances | Proofs |
|---|---|---|---|
| `SchedulerRuns` | executions of scheduler runs in one process and across restarts | `MCSchedulerRuns` | `SchedulerRunsProofs` |
| `TushareTokens` | concurrent calls through the token pool, and the sliding window of its limiter | the module itself | `TushareTokensProofs` |
| `PaperTrades` | confirmation and exit rounds, nightly reconciliation | the module itself | `PaperTradesProofs` |
| `CloseIngest` | core, enrichment and repair runs of one day | the module itself | `CloseIngestProofs` |
| `RealtimeRounds` | the realtime runtime of several instances that share one Redis | the module itself | `RealtimeRoundsProofs` |
| `StrategyVersions` | a strategy, its versions and backtests under racing requests | `MCBackgroundJobs` | `BackgroundJobsProofs` |
| `DataAssetCache` | snapshots refreshed under a lease; implements `AssetPromise` | `StoredData` | `StoredDataProofs` |
| `MinutePipeline` | the minute phase: fetch workers, bounded queue, one writer, factor batches, cancellation | `MCBackgroundJobs` | `BackgroundJobsProofs` |

### Modules checked together

The other modules share no state with each other (in the program they meet in tables that
one writes and another reads, which each module takes as an input that may change). To
check all of them without a run each, three compositions hold several: `MCBackgroundJobs`,
`StoredData`, and `MCServices` with `Services`. A variable `part` says which module a behaviour is of. In
`MCBackgroundJobs`, `StoredData` and `Services`, which proofs are about, the modules are extended or
instantiated with constants and variables of their own. `MCServices` extends `Services` and maps the variables
of six more modules to the slots `x1`, `x2`, ..., which keeps a state small. What is unused stays 0. The
initial states are the union of the modules' initial states, so TLC explores each
module in full, and no state of two modules is ever combined. A property of such a run is that
of one extended module (`OneBasis`, `KeepsPromise`, ...) or a conjunction of properties of instances
(`M!Property`, where needed under `part = "..." =>`); each conjunct is stated and explained in its
module. A run has one recorded mutant for each property, which breaks one of its conjuncts;
the other operators marked `(mutant)` break the others.

| Module | Models | Checked in | Property there |
|---|---|---|---|
| `HistoryBackfill` | stock facts fetched in buffered batches, then the events of every date | `StoredData` | `BackfillsResume` (`FactsResume`) |
| `EntityBackfill` | indexes, sectors, money flow windows and the north flow, with workers that straggle | `StoredData` | `BackfillsResume` (`LastRunCompletes`) |
| `FactorBackfill` | stock, sector and index factors by windows, chunks and percentiles | `StoredData` | `BackfillsResume` (`RanksFresh`) |
| `QfqBasis` | the price basis of a stored history across adjustment factors and reruns | `StoredData` | `OneBasis` |
| `MarketEmotion` | emotion models: baseline, calibration, activation, the daily run | `StoredData` | `ReadyIsCalibrated`, `NeverUnseated` |
| `DataAssetHealth` | coverage and gap report of a day | `StoredData` | `CoverageAgrees` |
| `SectorCatalog` | sectors with their members from three providers, indexes with theirs | `StoredData` | `CatalogsKept` (`SectorsKept`, `IndexesKept`) |
| `StockCatalog` | the stock master, universes and their members with history | `StoredData` | `CatalogsKept` (`OnlyTushareRevives`, `HistoryKept`) |
| `StrategyRules` | the eleven matchers, the market gate, the SQL prefilter, the replay of trials | `StoredData` | `StudySound` |
| `FactorRow` | one factor row between provider values, clearings and the local calculation | `Services` | `CoreCompleted` (`CalculationCompletes`) |
| `MinuteFactors` | a day's minute factors, bar by bar and by SQL | `MCServices` | `DerivedSound` (`SetBasedAgrees`) |
| `SectorFactors` | inflow days, heat ranks and leaders of sectors | `MCServices` | `DerivedSound` (`FactorsSound`) |
| `DailyReview` | evidence of limit-ups, boards and the summary's board structure | `Services` | `ServedSound` (`BoardsSound`) |
| `EmotionScores` | raw values, trailing percentiles, stage | `MCServices` | `DerivedSound` (`ScoresTrail`) |
| `RealtimeTargets` | hot and warm lanes, decision, depth and minute slots and their turns | `MCServices` | `DerivedSound` (`RotationFair`), `RealtimeSteps` (`LanesKept`, `SlotsUsed`) |
| `RealtimeMinutes` | the minute hash the instances share | `Services` | `ServedSound` (`SharedWhole`) |
| `RealtimeBoard` | breadth, ranks, leaders and the events of a round | `Services` | `CoreCompleted` (`EventsTrue`) |
| `PostCloseBoard` | the limit-up ladder after the close and its cache | `Services` | `ServedSound` (`BoardTrue`), `CoreCompleted` (`RungsExplained`) |
| `QuoteViews` | limit prices, overview, pool summary, heat and ranks of one round | `MCServices` | `DerivedSound` (`LimitsSound`, `OverviewAgrees`, `HeatFollowsPrices`) |
| `StockPools` | requests on pools, members and policies; the four views of a pool | `Services` | `ServedSound` (`PoolsSound`) |
| `QueryModes` | every capability's engines, modes, fallback and persistence | `Services` | `ServedSound` (`EnvelopeTrue`) |
| `ConfigValues` | keys, options, defaults and tests, and the runtime that holds clients of a key | `Services` | `ServedSound` (`PoolOfOneKey`), `CoreCompleted` (`KeysSound`) |
| `LlmCalls` | calls with context, listing of keys, marks and log rows | `MCServices` | `DerivedSound` (`CallsAccount`, `KeysTakeTurns`) |
| `SkillRuns` | chains of skills with their processes, keys and directories | `Services` | `ServedSound` (`ChainAccounts`, `OneProcess`) |

Operators marked `(mutant)` are deliberately wrong variants of the definition that
follows them. Nothing in a specification uses them; they document which mistake each
property would catch.

### How state and actions correspond to the code

#### SchedulerRuns

One action per suspension point of `execute_started_job`. `pc` is where the task of a
run is suspended, and it follows the code's scopes, because the scope decides what a
cancellation does: `load` (before any `try`), `trylock` and `sem` (inside the lock),
`run` and `sleep` (inside lock and semaphore), `unwind` (leaving the lock), `rollback`,
and four names for awaiting `_finish_run` (`finish` in an except clause, `finishSkip`
in the not-locked branch, `finishHeld` inside lock and semaphore, `finishShield` under
`asyncio.shield`). `DeliverCancel` is one action with one outcome per scope. `row` is
the database row reduced to status, error code and which kind of summary it holds;
`lock` is the advisory lock and `lost` says whose connection was dropped while it held
it. `tracked` is `_active_tasks`, `repairing` the cancel requests that found no active
task and have not yet written their update. `Exit` and `Restart` are the process;
`Restart` includes `mark_orphaned_running_runs` of the lifespan hook. `ReloadStarts`
is the `start()` inside `reload()`. Cron registration itself is not modelled: a run may
start whenever its job exists and the scheduler object does.

#### TushareTokens

A call is `idle`, `reserve`, `asleep`, `ask`, `backoff` or `done`. `reserve` takes the
coordinator's lock without awaiting anything inside, so looking at all the deques and
taking a slot is one step. `requests` is the coordinator's deque per token, trimmed as
the code trims it; `grants` and `sent` are history variables with every reservation and
every request ever made. `Mark` is the unconditional update of the token row. An
operator's edit is a status change. The order among tokens of equal priority is left
open (the code sorts by weight, last use and id).

#### PaperTrades

`tx[k]` is the session of caller `k` (the depth or the minute block): what it listed,
what it wrote, the copies it computes from. Nothing of it is visible before `Commit`;
`Abort` stands for a failing flush, a lost connection, a cancellation and a crash
alike, all of which roll the session back and free the lock. A row written by an open
transaction makes another writer of that row wait (`RowFree`, `TradeFree`). The trade's
clock `tx[k].now` is read before the lock is awaited, as in the code. `rec` is the
nightly job (`upsert_daily_candidates`), which an operator can also start by hand during
trade hours. Whether a quote confirms, rejects, exits or says nothing is chosen freely.
Three clock ticks make a day (before, inside and after the confirmation window).

#### CloseIngest

`level` is the number of rows of each block's table, in three steps (none, some, enough
for the coverage threshold), `marks` the audit rows readiness looks at, `ready` the
stocks whose factor row is ready, `fresh[d]` which inputs derived table `d` was computed
from and have not changed since, `built` which derived tables hold rows. `run[j]` is the
run of job `j`: the blocks still to do, what to recompute, the phase. Every block
commits alone; `Abort` ends a run wherever it is. `RepairPlan` is the closure the repair
handler computes from what readiness reports as missing. `repair` is a history variable
about the repair run that is going. `Optional` is the provider's factor block, which readiness
reports without waiting for it. `Inputs` says what the factor SQL reads; the
formulas are not modelled, and a row whose values a provider corrected later is not told
apart from the row it replaces.

#### RealtimeRounds

Several instances of the back end share one Redis. `lease` is the key
`realtime:leader`; `acquire_lease` is its three commands (`SetLease`, `GetLease`,
`RenewLease`), run by the round loop and by on-demand page requests of the same instance.
`at[p]` is where the round and one request of instance `p` are suspended, `block[p]` where
its full-market block is; `active[p]` is `_leader_active`, which a refused call of either
task resets for both. A provider answer is its number, so an older snapshot is a smaller
number. `shared` is what Redis holds; `snap`, `line` and `ref` are the instance's copies.

Steps are merged where nothing is awaited in between: using the reference and
starting the blocks (`Schedules`), building and assigning the aggregates
(`BlockApplies`). A round begins with the SET of `acquire_lease`; the answer of the index
request and the GET of the stored timeline by the block are one step, as are the commit of a pool's edit and the invalidation of the
reference of the instance it went through: two steps of the code that this model does not
tell apart. The session is
taken to be open and the runtime enabled.

A page that asks for the timeline reads Redis in one step (`TimelineRequest`) and keeps the
answer in another (`TimelineKeeps`), as a hydration does (`HydrateReads`, `HydrateKeeps`);
between the two the block of the same instance may have built something newer.

`Lapses` says where a round may outlast the lease: between rounds (a break of the
session, a loop that sleeps after an error), in a load of the reference, in a forced round,
which keeps the round lock until its blocks are done. `lapsed` and `split` are history:
the properties on provider quota and on the shared snapshot hold *until* the lease of a
live instance runs out, because nothing fences a block that is already running. `split` also
tells of the two late answers of Redis that replace something newer in an instance's memory:
`"hydration"`, a key of the snapshot, and `"page"`, a timeline that the instance would not
have built itself (it is not the owner, or Redis had more by then). `unread` is history too:
`get_json` swallows an error, so an instance without a timeline whose GET fails
(`TimelineUnread`) begins one of its own, and its first write replaces the shared one.
The exceptions in the properties are exactly these four.

Left out here: the decision, depth and minute blocks and the change of the trading day
(`RealtimeTargets`, `RealtimeMinutes` and `RealtimeBoard` have them), the request
budgets, subscribers, and the Redis client's memory fallback. Three consequences of the code are outside the properties: while the
configuration table cannot be read the client falls back to its environment settings
(`core/redis_client.py:76`), which may be the in-memory backend, where every process
grants itself the lease; a follower publishes nothing to its own subscribers; an instance that
served the day's timeline as a follower keeps that copy when it leads, so its first write
drops what others added meanwhile (`split` contains `"page"`).

#### StrategyVersions and StrategyRules

One definition with up to `MaxVersion` versions. A request reads its rows in one step and
writes and commits in another, with the attributes it read before (`expire_on_commit=False`);
a backtest is a task that loads, commits batches of trades, and writes a summary or
discards what it stored. The initial states are an empty database and one an earlier
release left, with versions that were validated and a completed run: at this commit
no backtest completes (finding 2), so nothing else can be validated. `StrategyRules`
compares facts with thresholds on a scale of five steps: a parameter is at its registry value,
looser or stricter. The matchers are sets of named conditions and comparisons.
That a study rests on a completed baseline is one condition on the status
of the run: it is a guard of `Optimise` and no property.

#### DataAssetCache and AssetPromise

A payload is the version of the facts it was computed from. Redis' clock ticks; a current
copy lives `Ttl` ticks, the last good one `Retention`, the lease `LeaseTtl`. `ReadMeta` and
`WriteFailed` are the two halves of the failed write. `AssetPromise` is what a reader relies on:
a key changes only to a version that is not older, or disappears at the end of its
retention; the refinement maps `served` to what `_read_cached_payload` returns and `left` to
the time the last good copy has. `outlasted` is history, in both: a refresh that outlasts its lease may
overlap with the next, and then the older result may be stored last.

#### MinutePipeline

`toFetch` is what is left on the fetch queue, which was filled in the order of the stocks, so
that its head is the least; `worker[w]`, `queue` and `writer` are the tasks of the pipeline; the queue holds twice as many
items as there are workers, `Mark` is the `None` a worker ends with. A stock has no bars, some
or all. `draining` is a pipeline whose tasks were cancelled: a worker's `finally` still puts
its mark, and `Jammed` is the state in which the marks do not fit on the queue and nobody takes
any more. `RunEnds` excepts exactly that state. The specification is called `MinuteSpec`, because
`MCBackgroundJobs` extends it and `StrategyVersions`.

#### Backfills

In `HistoryBackfill` a worker's buffer holds rows of several stocks; the handler of one
stock's error clears it. `stored` is what the table holds, `marked` the audits of event dates. In
`EntityBackfill` workers run under a bare `gather`, so those of a run that raised go on
beside the next (`work` belongs to runs). In `FactorBackfill` chunks commit on their own
and percentiles are ranked for a whole window after them.

#### Derived data

`QfqBasis` counts adjustment factors as exponents, so a basis is a number and rebasing
is addition; `calculation` is the close's calculation with its two commits. `MaxShift` is the largest
ratio a rebase accepts (0.01 to 100 in the code): a larger one rescales nothing, without a word. `crossed` is
history: an earlier date was worked on, or the provider's row of one came, while the history waited for the
rebase of the newest date; the rebase of an earlier date turned it back; or a ratio was refused.
`DataAssetHealth` has both ways `_actual_counts_by_date` counts: stocks with a row, and for the tables of
minutes one for every `DayBars` rows (240), whichever stocks they are of. In `MarketEmotion` an operator
gives a run any range (`Resolve`), and the end of a baseline counts rows. `MinuteFactors`,
`SectorFactors`, `DailyReview` and `EmotionScores` each hold the stored rows,
turn facts of a date at any time (a provider's correction, a late answer), and recalculate by the
code's own paths: the close, a backfill, a review. A ghost set says which dates were computed
since their facts last changed, and the property compares those with a reference
definition. `FactorRow` follows one row through provider answers, clearing, rebasing and local
completion; columns are grouped by who may fill them.

#### Realtime data

`RealtimeTargets` has the policies of pools, the lanes and the cursor of the rotating slots.
`RealtimeMinutes` has, per instance, the bars in memory and the account of what was sent, next to
the hash in Redis, with failed writes, takeovers and pages. A bar is taken for written before Redis has
answered, so `atRisk` is history: the bars a failed write carried, and those that came while they were still
to be written as they were before (`Late`), until a write of them is executed with none such left.
`RealtimeBoard` keeps a round's breadth and ranks and compares the next with it; `PostCloseBoard`
rebuilds the ladder from events or daily bars and audits. `QuoteViews` has no history: prices are ticks of 0.01 yuan, so the
rounding of limit prices is exact.

#### Catalogs and queries

A catalog run reads, asks its providers page by page and upserts or closes rows in
several commits, any of which may fail. `QueryModes` describes each engine by a record
(its source name, the codes its rows are stored under, the days it answers) and each capability by its
engines in order; a request reads, asks and stores in steps that overlap with another's.

#### Services

`StockPools` and `ConfigValues` have requests that read a row in one step and write by its
code or id in another. A strategy's pool has four views: what the runtime targets (`Targeted`) includes
candidates that are bought, whose status is final, and those with an open trade (`Followed`); the lists and
pages show candidates that wait. `LlmCalls` and `SkillRuns` list keys once and then ask them in order,
while the configuration centre may edit them. An answer to an LLM call may be a JSON value that is no object
and quotes a mark of a refusal, which moves the call to the next key (`marked`); a chain whose process
cannot be started ends `raised`.

## 3. Runs

All runs use two workers and finish within about two and a half minutes. Deadlock is checked
except in the three instances of several parts and in the summary's run: their parts
really stop when the bounded requests, turns and ticks are used up, and `RunSettles` and
`RunEnds` say what has to be reached before.

| Run | Instance | Question |
|---|---|---|
| `SchedulerRuns_safety` | two runs of one job, cron and synchronous, two slots; one dropped connection, one failing step or reload, one exit, one cancel or shutdown | Do handlers of a job exclude each other unless the lock connection dropped (`ExclusiveHandlers`), is `already_running` always true (`NoStaleSkip`)? Does every way out of an execution give back lock, slot and task (`NothingLeaks`)? Who may rewrite a finished row (`OnlyOwnerRewrites`), a success (`ResultStays`), a checkpoint (`CheckpointKept`)? |
| `SchedulerRuns_liveness` | cron runs of two jobs that compete for one slot, one retry, one exit, one cancel | Is the semaphore kept (`BoundedHandlers`)? Does every execution end (`ExecutionsEnd`), is every row settled when nothing but exits disturbs it (`RunsSettle`)? |
| `TushareTokens_calls` | two tokens, two calls with different wait budgets, one request per window, one retry, one operator edit | Is the window kept (`WindowKept`), are refusals justified (`RefusalJustified`), is every token asked before giving up and none beyond its retries (`FallbackSound`)? |
| `PaperTrades_rounds` | two blocks, one candidate, three lots, legs of 50 and 100 percent, four days | Do shares, legs and state add up (`LegsAccount`), T+1 (`TPlusOne`), do entry and status change together (`EntryAtomic`)? |
| `CloseIngest_repair` | four blocks of a day, two jobs at a time, rebuilds, failing and short blocks | Does a repair that has the day for itself close every gap (`RepairCloses`) and recompute what its blocks feed (`RepairRefreshes`), whatever runs that interfered with each other left before it? |
| `RealtimeRounds_rounds` | two instances, two snapshot keys, two provider answers, two events (a page request, a failed call, a lapsed lease, a stop or a crash) | Is the lease sound (`LeaseSound`), does only its owner spend quota (`OwnerSpends`), does the shared snapshot never go back (`SnapshotForward`), does a takeover carry the timeline on unless it could not read it (`TimelineCarriedOn`)? |
| `RealtimeRounds_takeover` | two instances, one key, one answer, one edit, one event | Do rounds go on as long as one instance stays up (`RoundsGoOn`), does every edit reach the leader (`EditReachesLeader`)? |
| `background_jobs` | two requests, two backtests of two batches, two versions; a minute run of four stocks, two workers | What do racing requests leave true of versions (`VersionsSound`), does every stock reach the writer once (`BatchesAccount`), does a backtest get its final row (`RunSettles`) and a minute run end (`RunEnds`)? |
| `stored_data` | small instances of the modules above | What may a backfill skip (`BackfillsResume`), is a history on one basis (`OneBasis`), what does an active model rest on (`ReadyIsCalibrated`, `NeverUnseated`), does the cache keep its promise (`KeepsPromise`), do coverage and gaps agree (`CoverageAgrees`), what may a catalog run take away (`CatalogsKept`), what may a study conclude (`StudySound`)? |
| `services` | small instances of the modules above | Is what is shared, answered, listed and asked with sound (`ServedSound`), what may a calculation of a row or the test of a key do, what does a round of the dashboard tell (`CoreCompleted`)? Do calculations agree however facts arrive, is what is shown, returned and recorded true (`DerivedSound`), which targets does a round serve (`RealtimeSteps`)? |
| `RealtimeRounds_follower` | finding 1 | `FollowerServesCurrent` is violated |
| `versions_summary` | finding 2 | `BacktestCompletes` is violated |

### Bounds, and why they are enough

* *Scheduler.* Two runs of one job are the smallest contention for a lock, runs of two
  jobs the smallest for the one slot; exclusion and the semaphore are proved for any
  number of either. `MaxDrops`, `MaxFaults`, `MaxCrashes`
  and `MaxCancels` bound how often something goes wrong, not when: each is enabled in
  every state. One of each gives every pair (a drop before a cancel, a cancel before an
  exit). Runs r1 and r2 are symmetric; the liveness run uses no symmetry.
* *Tokens.* A window of two ticks and one slot per window make calls wait, wake together
  and be refused with budgets of one and two ticks; two tokens are enough for fallback
  in both directions. `MaxNow = 2` lets one window pass. The window property holds for
  every bound by proof.
* *Paper trades.* Two blocks are the two callers there are. Three lots and a 50 percent
  leg cover rounding down, a rest, and a leg of zero lots that sells everything.
  `MaxTime = 11` is four days: signal day, entry day and two exit days. Candidates do
  not interact but through the transaction; one is checked, any number is proved. The plan
  is the default one of a new version (`DefaultLegs`), any plan is proved.
* *Close ingest.* The four blocks of `CloseIngest_repair` have one of each kind of
  readiness check: against the market (daily), against the daily bars (adjust), against
  them, without holding up readiness, and feeding the factor rows directly (technical), rows
  plus audit row (sector flows). The other blocks repeat these kinds; the repair theorems
  hold for any set of blocks with a sector block.
* *Realtime rounds.* Two instances are a leader and its successor; two keys let a
  hydration read across a write; two answers make a snapshot older than another.
  `MaxEvents = 2` gives every pair of disturbances (a lapse before a crash, a failed call
  before a stop), each at any moment. The restart of an instance is not counted. What the
  `rounds` run checks is proved for any number of instances, keys, answers and events.
* *Versions and pipeline.* Two requests are every race of two writers of one row; a third
  would only repeat one. Two batches have a cancellation between them. Four stocks, two workers
  and a queue of four fill the queue, leave a rest batch and reach the jam; that batches account for
  the day is proved for any number of either.
* *Cache.* Two callers and one key (keys meet only in one call's list; any number is
  proved), a lease of two ticks that can run out under a call, four ticks: a current copy ends,
  the last good one bridges, and ends too. For coverage, three stocks, a session of two minutes and three stored
  rows give part sessions that add up to a whole one, and a second source.
* *Backfills.* Two runs, two faults: a run that lost rows or died, and the one that has to
  notice. Three stocks in batches of two leave one in the buffer of another's error; one
  has a row on one date only. Two workers make a straggler.
* *Derived data.* Three dates are a date, the one before and the one that reaches over both; the
  emotion scores have four, two more than their window, so that a date leaves it. `MaxTurns`, `MaxEdits` and the bounds on runs let
  facts change before, between and after calculations, and each calculation happen again. `MaxShift = 1` refuses a
  ratio of two steps; a baseline of two of three days leaves room for an older and a longer range.
* *Targets and minutes.* Four stocks in two pools, one slot of each kind, two guaranteed of
  three registered: every lane overflows. Two instances, two minutes, two days and four events
  reach a takeover after a failed write on either side of midnight.
* *Catalogs.* Two runs of every provider's answer over one or two rows of each kind: new, kept,
  missing and back again.
* *Rules, limits.* Every fact and threshold takes all its steps; prices include the ones where
  rounding decides (a stock of 1 and of 4 ticks).

### Fairness

`SchedulerRuns_liveness`, `RealtimeRounds_takeover` and `background_jobs` assume fairness. In
the first, each task's steps are weakly fair:
asyncio runs every ready task, the semaphore wakes its waiters first in first out, and a
handler ends, by its result, an error or `asyncio.wait_for`. That last point is an
assumption for jobs whose row has no `timeout_seconds`, and it is what the jam of the minute
pipeline can break.
Restart is weakly fair (the container is restarted), as are the end of `stop()` and the
exit after it. Cancel requests, drops, faults and exits are not fair: they may never
happen.

In the second, the round loop ticks, Redis commands, database reads and the provider
answer or fail, and Redis drops the key of a dead owner after its time to live: weak
fairness of each of these. Strong fairness stands for the two intervals the round compares
the monotonic clock with: a round that is reached again and again finds, sooner or
later, `full_market_interval_seconds` passed (`MarketDue`) and
`reference_refresh_seconds` passed (`ReadReference`). Nobody restarts an instance.

In the third, the steps of each backtest task (`Proceed`) and of the minute run (`Step`) are
weakly fair: the event loop runs a ready task, a provider call, a thread or a statement ends one
way or another (MooTDX and asyncpg time out). Requests and cancellations are not fair.

### Findings

1. `RealtimeRounds_follower`: an instance that is not the leader hydrates each key once
   and then serves that first snapshot for as long as it lives, although the docstring says
   it serves the current one.
2. `versions_summary`: no backtest completes. Its loader reads columns under names the
   rows do not have, and its summary reads an undefined name. The loader of the daily
   candidate job has the same mismatch, so that at this commit nothing calls the reconciliation
   `PaperTrades` models; it is modelled because it is what the job is there for.

### What the code does not keep

The modules state some more, mostly from a document or a comment, that TLC refutes. They
are no runs: add the name to the INVARIANT or PROPERTY section of the module's configuration
(prefixed by an operator `part = ... => M!Name` where several modules share one), or take the exception out
of the property, to see the trace.

| Definition | What happens |
|---|---|
| `SchedulerRuns!OrphanHasNoTask` | `reload()` without a scheduler object calls `start()`, which marks every `running` row as orphaned, those of this process included |
| `TushareTokens!InvalidStays` | a rate-limited call overwrites the `invalid` mark another just set; the token returns after the cooldown |
| `PaperTrades!OnlyTriggeredTrades` | the candidate job, started while a round is open, cancels a candidate the round bought |
| `CloseIngest!OptionalIsClosed` | the repair closes the gaps of its plan, but the optional provider factors are measured against the daily bars and not in the closure: more daily bars can leave them short until the next repair |
| `CloseIngest!RepairRecomputesAffected` | a repair of events or index bars does not recompute summary and index factors, although the wiki says so |
| `StrategyVersions!OpenTradesWatched` | open trades of a version that is no longer paper are on nobody's exit list |
| `StrategyRules!NoFalseNegatives` | the prefilter compares with registry thresholds: a looser version loses candidates |
| `RunSettles`, `RunEnds`, `KeepsPromise`, `VersionsSound`, `NeverUnseated`, `OneBasis`, `SharedWhole`, `OwnerSpends`, `SnapshotForward` without their exceptions (`lost`, `Jammed`, `outlasted`, `raced`, `OnStale`, `crossed`, `atRisk`, `lapsed`) | a backtest whose task died stays `running`; a minute run waits for ever; a refresh longer than its lease stores an older result last; racing promotions leave two versions on paper; a request and the job unseat the active model; a history is on two bases; bars of a failed write are missing until they change; a leader whose lease ran out still spends quota and publishes |
| `HistoryBackfill!EventsResume` | a rebuild clears event rows and commits (`history_backfill.py:217`) but keeps the audits that mark their dates complete; a run that stops there leaves them empty for good, though the pipeline is called resumable (`history_backfill.py:143`, `docs/wiki/80-变更记录.md:64`) |
| `QfqBasis!RepeatIsIdle` | repeating the rebase of a date calculated before moves prices |
| `MarketEmotion!ResumesAfterFailure` | a baseline run scores again from its first day |
| `MarketEmotion!ReadyOnLatest` | a run over an older or longer range makes a model ready whose last `baseline_trade_days` cannot be used: only rows are counted |
| `DataAssetHealth!MissingIsReal`, `MissingIsListed` | counts cancel out: rows of inactive or suspended stocks, or a second source's minutes, hide stocks that are missing; two stocks with half a session each count as one, so one is missing that the report does not list |
| `FactorRow!ReadyIsWhole`, `FlagsAgree` | a ready core lacks columns; the missing flag contradicts the status |
| `SectorFactors!RowsHaveFacts` | a sector that lost its facts keeps its factors until a rebuild |
| `DailyReview!ReportWhole` | a report is available with events whose evidence is missing |
| `EmotionScores!RiskTrails` | the risk score of a day without a published metric depends on which path scored it |
| `MinuteFactors!QueryHarmless` | a query stores akshare rows of minutes the day has from MooTDX; the set-based upsert then touches a key twice and the batch raises |
| `RealtimeMinutes!MinutesOfToday` | bars in memory are never cleared: a page shows yesterday's |
| `RealtimeBoard!EventsHaveBasis` | after a restart or takeover the timeline is restored, the previous ranks are not |
| `PostCloseBoard!LadderWhole` | only the target date's completeness is checked; a gap earlier shortens a ladder |
| `RealtimeRounds!HydrationIsCurrent` | a hydration that read an older key assigns it after the instance's own block has built a newer one; the next write puts the older one in Redis |
| `RealtimeRounds!PageIsCurrent` | a page asks Redis for the timeline while the instance takes over; the answer replaces what the block has added, or a follower keeps its copy until it leads and then drops what others added |
| `RealtimeRounds!TimelineIsRead` | the GET of the stored timeline fails after a restart or takeover; the round begins a new timeline, and its write replaces the day's with one point |
| `RealtimeTargets!GuaranteedRotate` | with more guaranteed stocks than slots the same ones are served every round (`docs/wiki/70-规划/实时数据能力规划.md:25`) |
| `StockPools!TargetsShown`, `CountsAgree`, `ListedHaveDetail`, `SystemPoolsStay` | a stock the strategy has bought stays a realtime target, its trade open or closed, and no page lists or shows it; the count of a strategy pool is not its list's length; a listed stock has no detail page; a delete checked on the row read is executed by code |
| `QueryModes!SourcesKept`, `InRange`, `NewestKept`, `ReadsBack` | bars are keyed without their source; some engines ignore the range; a limit keeps the oldest rows; rows stored under another code or source are not found again |
| `ConfigValues!KeyWasProbed`, `DefaultCanMove`, `KeyCountsAgree` | a new secret keeps the old probe; the new default is set before the old is cleared, against the unique index; two pages count available keys differently |
| `QuoteViews!PoolAgrees`, `FlatIsNoLimit` | a pool of all stocks has other limit counts than the market; a stock of a few ticks is at its limit when flat |
| `LlmCalls!LoggedOnce`, `CutIsTold`, `AskedIsActive`, `FailedGivesWay` | an answer that is no object is logged twice; the truncation flag is inverted at the boundary; a key disabled after the listing is asked; a failing key stays first of its rank |
| `SkillRuns!SuccessIsOwn`, `FailureIsTold`, `NoneLeftRunning` | files of a failed attempt count for the next; a chain with too few results reports neither result nor error; a cancelled caller leaves its process running |

## 4. Proofs

The proofs are checked by TLAPS for every value of the constants that satisfies the
named assumptions of the modules (`RunsAssumption`, `JobOfAssumption`, `LimitAssumption`,
`TtlAssumption` and so on: finite limits are natural numbers, the job of a run exists, an empty
value is no run or caller). None of them bounds the number of runs, calls, tokens, candidates or keys.

**SchedulerRunsProofs.** The invariant is `TypeInv /\ OwnInv /\ SlotBound`, and
`LockOfJob` besides. Type correctness alone is not inductive: the status an execution
writes last is read from `verdict`, so `Carries` says that a finishing execution carries
a terminal verdict. Exclusion is not inductive either, because nothing in
`ExclusiveHandlers` says why the second execution could not have taken the lock: `Owns`
ties the suspension points inside the lock to holding it (or to having lost the
connection), those inside the semaphore to holding a slot, and those outside to holding
neither. From it follow `TypeCorrect`, `HandlersAreExclusive`, `HandlersAreBounded`,
`ExecutionsLeakNothing` and, with `LockOfJob` (a lock is only ever held by a run of its
own job), `SkipsAreJustified`. Three action properties need one more invariant, `OutcomeInv`: the
status of a row says how far its execution has come and what it decided. Lemma `RowStep` then
splits every change of a row into four (`RowChange`: started, reported, written, repaired).
`OwnersRewrite`: of all steps that write a row only those of its own execution on the way out can
meet it in a final status, because cancel requests, reloads and restarts test for
`running` in the statement that writes. `ResultsStay` and `CheckpointsAreKept` follow case by case.

**TushareTokensProofs.** `Spaced(q, n, w)` says that any
`n + 1` consecutive reservations span a window. `AppendKeeps` is the argument of the
limiter: if the deque holds a suffix of the whole history and everything before the
suffix has left the window, then appending a time to a trimmed deque of fewer than `n`
keeps the history spaced. The invariant says that `requests` is
such a suffix of `grants`; `WindowIsKept` follows. `TypeCorrect` includes that no call
makes more than `retry_count + 1` attempts on a slot. `FallbackIsSound` needs, per call, where it
stands (`Standing`: what is in hand was asked, what is left was not) and what it has spent
(`Spent`: tokens given up were asked, and the number of requests to each is its attempts).
`RefusalsAreJustified` turns the deque into the statement about the history: reservations are
ordered (`OrderInv`), so a trimmed deque holds exactly the reservations of the last window
(`TrimmedIsRecent`), and the wait the call computed from its head is the least there is.

**PaperTradesProofs.** The invariant is `TypeInv /\ IInv`, where `TypeInv` adds that
the legs are finite sets and `IInv` relates each open session to the database:
only the holder of the lock has read or written anything (`Owned`), its copies of trades
keep the entry day of the rows (`Copied`), what it decided agrees with what it is about to
write (`Decided`), a candidate the nightly job is about to create exists for nobody else
(`Creates`), and a trade that does not exist has no legs (`Untraded`). `SellsAreTPlusOne` and
`EntriesAreAtomic` follow. `LegsBalance` adds `AccountInv`: what is open and what the legs sold
make up the quantity of the row in the database and of every row a session holds together with
its pending sells (`Balanced`), a session writes back what it accounts for (`Accounted`), and a
leg's number is no higher than one more than the legs before it (`Numbered`), so that a new
leg is a new element of the set. A sum over a set of legs cannot be proved by induction over the set, so
`Shares` counts instead: a set of legs is turned into the set of the shares they sold, whose
cardinality is the sum, and the library's facts about cardinality do the rest. The nightly job takes no lock, and `EntryAtomic` holds
in spite of it only because that job writes no status the property forbids: the status it
does write is what breaks `OnlyTriggeredTrades`.

**StoredDataProofs.** Nine modules, each with its own variables and invariant. `PromiseKept` is the refinement: `DataAssetCache` implements
`AssetPromise`. A step of the cache is mapped by what it does to the last good copy, because
the invariant says that the current copy is either gone or equal to it and never outlives it
(`CopiesPaired`), so a reader always gets the last good version. That a success never stores an older
version needs three more facts that are inductive only together: no copy is ahead of the facts
(`NotAhead`), a call that works holds the lease as long as none was outlasted (`HolderWorks`),
and what a call is about to store is at least as new as what is there (`ResultFresh`).

`CountsAndReportAgree` (`DataAssetHealth`) is about counts: `UniverseSplits` shows that the active
stocks are those with a row, the suspended, the silent and those the report calls missing, four
disjoint sets, and `CoverageSubtracts` that the truncated subtractions of the code then return
exactly the last. An asset of minutes counts a stock for every session's worth of rows: `DaysOf` says that
whole sessions are counted exactly and part ones not too high, `CountOfAsset` that an asset without a second
source never counts more stocks than have rows, and `CoverageHidesNone` that then no gap is hidden.
Without `Expected` and `OneSource` counts cancel out (`MissingIsReal`, `MissingIsListed` above).

`OnlyCalibratedAreReady` and `UnseatedOnlyOnStale` (`MarketEmotion`) rest on what the actors saw:
`RequestsSaw` and `JobSaw` say which status a request or the job read before it started, and
`NotReadyMeanwhile` that a model is only ready under a job that has not touched it yet. With
`ScoredAreWritten` (the rows the job counts are those it wrote, with the parameters it loaded) the
end of a baseline finds as many usable rows as the baseline asks for, with one set of parameters. Which days
these are is the operator's range; `ReadyOnLatest` does not follow.

`NewestBasisThroughout` (`QfqBasis`) needs to know on which basis a history is between two dates:
`HistoryOnOne` says on that of the newest date or, until its rebase, of the one before, and that
it is the newest once a run has passed its rebase with all factors stored. `DoneHadFactors` and
`NewestOnItsBasis` make it inductive: `ShiftReachesNewest` derives the ratio from the row and the
factor of the date before, which must both be there. Earlier dates may be calculated again and their rows
may come late: `LatestBefore`, `TurnsOnNewest` and `AssembledEarlier` show that such work leaves the history
where it is as long as it does not wait for a rebase. `crossed` records the cases in which it does, so the
invariant is `Uncrossed`; without it TLC finds two bases.

`BackfillsAreResumed` has one invariant per backfill, of the same form: as long as nothing of the
run failed, every row that is missing is on its way to the table. For the stocks (`NothingLost`) a stock is
`Pending`, in the queue or in the hands of a worker that asked for it, or `Fetched`, its rows stored or in
the buffer of a worker; a worker that has left holds neither. A failure, a refused write and a crash
all count as failures or end the run otherwise, so what they lose is said of no clean run. For
indexes, sectors and flows (`TablesOwed`) a table is complete or `Owed` by the last run; stragglers of the
run before write beside it and own nothing the last run owes, since a table only grows. For
the factors (`WindowsRanked`) a date waits, is in the open window, or is ranked over exactly its rows
(`RankedWhole`); a chunk of a window that was given up could add a row after the percentiles, so this is
said of runs that started with no chunk at work, and a bar arrives between runs only. The assumptions
are that there are workers, that dates are numbers in their order (`CrewAssumption`), that what a
provider has are rows of the range, and that no index is also a sector, window or channel
(`GivenTablesAssumption`).

`StudiesAreSound` needs only that the version and the stock looked at have integer thresholds and levels;
what carries it are three theorems about the operators, for every integer and not only the levels TLC
enumerates: `StricterKept`, `TrialsInventNothing` and `ReplayDecides`. They rest on `OneCondition` (a matcher
compares with a parameter once, so the comparison the study looks up by name is the matcher's) and
`MeetsLooser` (what meets a threshold meets a looser one).

`CatalogsAreKept` is about steps. `SectorInv` is the types with one fact: an answer without a source has no
stocks, so what an empty answer stores removes nothing (`SyncedStocks`). `MasterInv` says that two rows
of one member are never open on the same day and that open rows are of the last answer
(`RowsApart`, `RowsAnswered`): a closed row must have ended by today for a new one to start today, which is
what `MemberRows` adds to the types. `ReplacedRows` takes the row replacement of an answer apart into rows that
stay, rows closed today and rows opened today; `ReplacedApart` compares each pair of kinds.

**BackgroundJobsProofs, versions.** The invariant is `TypeInv /\ Retires /\ PaperInv`.
`VersionsAreSound` says what racing requests leave: `PaperInv` states "at most one version on
paper" of the rows themselves, `Retires` says that a promotion about to commit retires exactly
the paper versions it listed but its own, and `raced` tells whether that list is still true.
`FiniteVersions` and `AtMostOne` turn the statement into the cardinality the run checks.

**CloseIngestProofs.** `RepairsRefresh` and `RepairsClose` are about a run that ends, so the
invariant follows the repair through its phases. `Solo` says that a repair
that is still marked alone has met no other run; `SectorBacked` that the sector phase is only skipped when
there is nothing to do; `Sound` is a conjunction with one part per phase: the plan computes
whatever its blocks feed (`Closed`), what it does not touch was whole when it began
(`Untouched`: such a block stays whole however many daily bars arrive), what its blocks
wrote (`Written`) and what was computed from it since (`Assembled`). `RepairCloses` holds because the plan is
closed under "measured against": daily bars bring the blocks measured against them.

**RealtimeRoundsProofs.** `LeasesAreSound` needs types only: the three commands of a grant are
safe each by itself. For `OwnersSpend`, `OwnInv` says that whoever is on its way to the
provider, in a block or for a page, is the owner or has lapsed; a refusal and a stop clear the
way. `SnapshotsGoForward` and `TimelinesAreCarriedOn` are about the instance that will write next:
`SnapInv` says that a block works on the last answer there is and writes nothing older (as long as
neither lapse nor late hydration happened), `LineInv` that whoever is about to write carries
every point Redis has, or began without having read them (`unread`).

**BackgroundJobsProofs, minutes.** `EveryStockInOneBatch` is `BatchesAccount`. While the pipeline runs a stock is
at one place (`OnePlace`: left, held by a worker, queued, in the open batch, or stored) and a
stock that is not complete is at some place (`Covered`). What ends the pipeline is a count, so the
rest is about counting: marks taken, marks queued and workers that run are never more than there are workers
(`Counted`), nothing is queued behind the last mark once no worker runs (`LastIsMark`), and no worker
closes while stocks are left (`Exhausted`). So a writer that has taken all marks has taken
everything (`NothingLeft`). Types are proved together with it: that the bars a commit leaves are
a level at all needs a stock to be in the batch once.

**ServicesProofs.** Nine parts with one invariant each, and a theorem for each promise: `BarsAreShared`,
`AnswersTellTheirSource`, `PoolsAreSound`, `OneKeyPerRound`, `ChainsAreSound`, `LaddersAreTrue`, `ReviewsAreSound`,
and of steps `RowsComplete`, `KeysAreTaken`, `RungsAreReached`, `RoundsTellChanges`. `WhatIsServedIsSound` and
`CalculationsComplete` put them together.
- *The factor row* (`RowInv`). Types, and a core that is ready has its columns. `FilledRow` says of the
  calculation that it keeps every column of the provider and fills the rest; a row that only the calculation
  completes was assembled from a bar and a factor that are stored.
- *Keys* (`KeyInv`). Types, and the clients the runtime holds are of the identity it remembers, which every
  change of the identity clears. `RecordedKeys`: a recorded test leaves the status of the row it finds or
  makes it invalid. That a key a round takes has the complete probe needs
  the least key of a priority to exist (`LeastExists`), for any set of keys.
- *Queries* (`QueryInv`). A request's fields tell how far it has come (`Tries`): engines are asked in order, one
  after the other had nothing, and the audit a request refers to stays in a log that only grows
  (`AuditsGrow`). What was persisted stays, because an upsert replaces a row by one of the same key
  (`UpsertKeeps`). An answer cut to the limit is empty only if it was before (`CutHasRows`), which needs
  a limit of at least one: `PageAssumption` is the `ge=1` of every limit of `market_data/api.py`.
- *Pools* (`PoolInv`). A request that read a row writes later, when the code may be another pool's. Ids are
  given once (`Apart`) and the rule of a pool never changes, so what the request read still holds of the
  pool with that id (`Reads`); members are of pools that are there and have no rule (`Belong`). A target of a
  strategy's pool waits, and then it is listed and shown (`OpenListed`), or it is `Bought`. `PoolAssumption`
  is the seeded pool of the whole market.
- *Minute bars* (`BarsInv`). What an instance shows is in Redis because of what it takes for written, so the
  invariant is about its account: each bar of the account is `Safe`, covered by the hash or at risk, or it is
  under way (`Accounted`, `Shown`). That the hash loses no bar that is safe is `Ordered`: nothing stored or under
  way that is not at risk meets an older value on its way. Rows are not older than what is there when they are
  asked for (`RowsAnswered`), and those that meet an older write are at risk when they come
  (`ArrivedOrdered`); a write that is executed keeps all of it (`ExecutedKeeps`), and one that fails
  puts its bars at risk.
- *Chains of skills* (`SkillInv`). A chain that goes has tried the skills before the one it is at: a result and
  rows of each, the last of which tells how the skill ended (`Going`, `Reported`, `Tells`), and none with enough
  items. A row is only ever added behind the others (`RowAdded`), and a skill's end settles either the next one or the whole chain
  (`SkillEnds`, `Ended`); it raises when a process cannot be started, and has none then. Its own process is the only one of the chain. `SkillAssumption`: every chain of
  `CAPABILITY_CHAINS` has a skill and wants an item (`CAPABILITY_MIN_RESULTS`).
- *The ladder after the close* (`LadderInv`). An audited date has all its events, and what is cached or shown is
  a true board, however old it is. The rungs are counted backwards by a recursive function; `BoardIsRun` shows
  that it returns the size of the run of limit-ups of the rows (`RunGrows`), which is part of the run there
  was and equal to it when the dates it goes back over are audited (`RunsAreTrue`).
- *The daily review* (`ReviewInv`). A date reviewed after the last change of its facts has the evidence of its
  limit-ups, with their streaks, and a summary of them; a board is counted only in evidence that is ready, and only
  of complete dates. `StreaksStay`: a date keeps its streaks when the facts up to it do, so a write to a date
  takes only later dates from the reviewed ones. `CountedBoards`: over all stocks, the ready ones or those of the
  day before, the height and the promotions counted are those of the events, which is why the review, the
  close and a backfill may write the summary in any order. `DatesAssumption`: a ladder goes back over
  a date at least (`max(2, lookback_trade_days)` in `latest_post_close_limit_events`).
- *Rounds of the dashboard* (`RoundInv`). A process that has had an accepted round today has today's history in
  memory, with a point, and compares with that very round: its quotes, ranks, leaders and breadth. A restored
  or hydrated history never takes the point away. What a round tells is a list joined from a sequence for each kind,
  sorted by rank, and cut twice. `PlacesFill`: a strict total order on a finite set gives every element
  a place of its own and leaves none empty, so ranks are a bijection (`RanksApart`) and a leader is a member
  (`LeaderIsMember`). `JoinsExist` and `JoinedUp`: the recursive function that joins the events exists, by
  the least rank up to which it would not, and its list holds each event once (`EventsTold`); `RoundTells` counts what the cuts
  to `RoundEvents` and `KeptEvents` leave. `RoundAssumption`: only a concept with a quote is ranked
  (`_build_sector_strength`), and a timeline keeps a point.

**Model-checked only.** `DerivedSound` and `RealtimeSteps`, and all liveness (`ExecutionsEnd`, `RunsSettle`,
`RoundsGoOn`, `EditReachesLeader`, `RunSettles`, `RunEnds`). Liveness under fairness and `ENABLED` are out of
the prover's reach. The calculations under the other two fold, sum or sort whole tables, or keep and
select from sequences (`SortSeq`, `SelectSeq`), and are compared with a definition by counting: that takes an induction
over data, which the installed provers cannot do.
For the same reason the modules with proofs use no `RECURSIVE` operator.

## 5. What a continuation would add

1. Proofs about the parts of `DerivedSound` that sort and count little: the calls of `LlmCalls`.
2. `SchedulerRuns` completed by cron registration and job edits (overlapping reloads).
3. The request budgets of the realtime runtime as a second use of the sliding window: when an
   operator changes the options the budgets are replaced and forget their window.
4. Subscribers of the realtime stream (a queue of 16 events that drops the oldest), and the
   in-memory fallback of the Redis client, where every process grants itself every lease.

## 6. Not modelled

* *Arithmetic and translation*: moving averages, oscillators and the other formulas of the
  indicator engine, backtest metrics, scores and reasons of matchers, the mapping of provider fields. Nothing
  interleaves in them, and a model would only repeat the formulas.
* *Wording*: reports, notifications, paging, listing, logs.
* *Parts of modelled components*: cron registration and job edits, synchronisation of bars on
  request, encryption of keys and the migration of old settings, the request budgets, subscribers, the Redis
  client's fallback. `PROJECT.json` says so at each component.
* *Web console, SQL scripts, vendored skill packages*: no logic of the service.

Disagreements met on the way that no definition states: the factor backfill's "rebuild" deletes
nothing for stock factors (`docs/sql/README.md:200`); an invalidation that arrives while the
reference is loading is lost until the next one (`EditReachesLeader` holds because the reference is also
reloaded by time); the warm lane never rotates, against `docs/wiki/30-模块地图/行情数据模块.md:100`;
a universe that is removed and added again on one day stays closed until the next; the first
trading day of a year has no previous trade date.

## 7. Running

    tlc -workers 2 -config SchedulerRuns_safety.cfg MCSchedulerRuns.tla
    tlc -workers 2 -config StoredData_parts.cfg StoredData.tla
    tlapm StoredDataProofs.tla

A configuration is for the `MC` module of its prefix, or for the module itself where
there is none, except `StrategyVersions_summary.cfg`, which is for `MCBackgroundJobs`.
