# chainmonitor: verification project

TLA+ models of chainmonitor (`src/`), their TLC configurations, and TLAPS
proofs. Every definition is translated from the code; `PROJECT.json` names, for
each definition, the lines it stands for. Paths below are relative to
`src/src/`.

## 1. Inventory

chainmonitor polls market data of several chains, scores tokens, stores
candidates, and alerts. Two programs share one library and one PostgreSQL
database:

* the API process (`app/main.py`): HTTP endpoints, and one polling scheduler
  per chain that starts pipeline runs;
* the scanner process (`scanner/__main__.py`): a loop over trending tokens that
  sends Telegram messages.

Several API processes may run against one database; each has its own event
loop, its own schedulers, caches, breakers and thread pool. What they share is
the database: the rows, the unique indexes and the advisory locks.

| Component | State it keeps | Operations | What is hard | What makes it correct |
|---|---|---|---|---|
| circuit breaker, backoff guard (`shared/resilience`) | state, failure count, time of opening, half-open slots; streak, blocked until | allow_request, record_success, record_failure | many callers; outcomes arrive after the state has moved | slots counted, trips on a streak, both layers agree |
| resilient executor (`shared/resilience/executor.py`) | the position of each call | execute | cancellation and errors between the permission and the recording | every call returns; what a call took, it gives back or is known to have lost |
| token bucket (`shared/resilience/rate_limiter.py`) | tokens, last refill | acquire | waiters compute their sleep before they sleep | rate never exceeded, everybody served |
| pipeline runs (`app/services/chain_pipeline_service.py`, `shared/db/repository.py`) | rows of `pipeline_runs`, market rows, thread jobs | run_once, claim_scheduler_window, replay, run_claimed | threads outlive their coroutine; crash; advisory lock; partial unique index | one claim per window, status agrees with data, replay limit |
| chain scheduler (`app/services/chain_scheduler.py`) | last window, windows of the round | start, stop, loop | several processes; lock without the run; failures in the middle of a round | no window run twice, none lost but by a failure or a long lag, never stands still |
| HTTP client, singleflight (`ingestion/resilience`) | futures by URL, guard, breaker per endpoint | get_json | followers, cancelled leaders, cancelled followers | one request per URL, nobody waits in vain |
| response cache (`ingestion/resilience/cache_store.py`) | local LRU with expiry, Redis | get, set | a read before an await written back after it | the age of what is served is bounded |
| strategies, adapters, fallback chain (`ingestion/`) | none across calls | fetch_market_ticks | partial answers, errors and cancellations of parallel chunks; namesakes | every symbol from the first source that has it, or an error; required ones by address |
| scanner (`scanner/`) | snapshot per chain and interval, cooldown, hit counts | run_cycle | failure in the middle of a cycle; shared cooldown | a token is not announced twice within its cooldown |
| feature and scoring engines | none | pure functions on floats | one transaction for all rows of a window | every score fits its column |
| backtest (`backtest/`) | jobs in memory, rows of `backtest_runs` | run, batch, gate, optimise | process restart; run ids that collide; two transactions | what was reported is stored |
| HTTP API (`app/main.py`) | services by chain, rate-limit windows | endpoints, lifespan, middleware | sweeping while counting | limit per window; endpoints reach their service |
| configuration, schemas, migrations, metrics, deployment | declarations | - | - | - |

How they interact: a scheduler takes the advisory lock
`pipeline-scheduler`, claims a window in a thread (`claim_scheduler_window`) and
runs it (`run_claimed`); the run endpoint calls `run_once`, the replay endpoint
`replay`. A run fetches ticks through the fallback chain, whose adapters call
`ResilientHttpClient.get_json`; that asks the response cache, the singleflight
group, the guard, the breaker and the token bucket, in this order. The scanner's
GMGN client calls the same resilience library through `ResilientExecutor`.

`PROJECT.json` lists every component with its files, and under `hazards` the
places where this code can go wrong in a way a test hardly reaches.

## 2. Modules

| Module | Models | Kind |
|---|---|---|
| `CircuitBreaker`, `BackoffGuard` | the two classes as functions of their state and the clock | operators |
| `ResilienceLemmas` | facts about these functions | proofs |
| `ResilientExecutor` | `execute`, for many callers of one name; composes the two above | specification |
| `ResilientExecutorProofs` | theorems about it | proofs |
| `RunLedger` | what a reader of the database may rely on | abstract specification |
| `PipelineRuns` | the life of pipeline runs in any number of processes; implements `RunLedger` | specification |
| `PipelineRunsProofs` | theorems about it, the refinement among them | proofs |
| `WindowClaims` | what the polling loops promise about windows | abstract specification |
| `ChainScheduler` | the polling loops of one chain over one database; implements `WindowClaims` | specification |
| `HttpApi` | the requests of the API process: rate limits, replay guard, service lookup | specification |
| `ApiProofs` | theorems about these two, the refinement among them | proofs |
| `HttpClient` | `get_json` past the caches; composes breaker and guard with singleflight | specification |
| `HttpClientProofs` | theorems about it | proofs |
| `TokenBucket` | `acquire`, for many tasks of one provider | specification |
| `ResponseCache` | the local LRU of each process and the Redis they share | specification |
| `IngestClientProofs` | theorems about these two | proofs |
| `MarketData` | one fetch: the chain of sources, strategies, adapters and quality checks | specification |
| `Scoring` | gate, features, scores and tiers of a window, and the save of its rows | specification |
| `CandidateCache` | the candidates in the database and the copy each process serves | specification |
| `Backtest` | runs, gate checks, batches and reports, with the engine and the gate | specification |
| `WindowProofs` | theorems about these four | proofs |
| `Scanner` | the scanner's loop over chains and lists, with cooldowns and snapshots | specification |
| `AlphaScorer` | filters, score and level of a token from two scans | specification |
| `ScannerProofs` | theorems about these two | proofs |
| `MC...` | values and composition of the small instances | model checking |

`MCIngestClient`, `MCApi`, `MCPipeline` and `MCScanning` put machines side by
side that share no variable: a step of one changes nothing another one reads, so
every property of one machine is decided by that machine alone, and an instance
runs one of them (`part`) instead of all their interleavings. The interaction of
the parts is in the values they hand on: `Payloads` of `MarketData` is what the
client returns or what stands for its failure, `Trading` of `Scoring` what a
row tells, `Scores` of `Scanner` what `AlphaScorer` may say.

### ResilientExecutor

`call[c]` is where the caller is in `execute`; the code between two suspending
awaits is one action. `Refuse` and `Admit` are lines 62-69; `Succeed`,
`RetryLater`, `Exhaust` and `RaiseNonRetryable` are the outcomes of an attempt;
`Cancel` is a cancellation at any await. The breaker's methods hold a lock and
never await, so they are functions. `probes` and `leaked` are history: who holds
a slot of the present half-open period, and how many were lost. `since` in a
call's record is history too.

### PipelineRuns

A run has the stage of its coroutine and up to three thread jobs (claim,
persist, mark), each one transaction, hence one step. A coroutine that stops
waiting (timeout or cancellation) leaves its thread running, unless the pool had
not started it: that is what `Abandoned` says. The replay guard blocks the event
loop and makes three transactions under its advisory lock: three steps, between
which other processes act. `Crash` is the death of the process of a run, with
its threads' open transactions and its session. `fresh` is whether `started_at`
is within `stale_seconds`, which is at least twice the run timeout, so a run
that is still preparing or persisting is fresh.

`data[w]` stands for the rows of a window: the run that last committed them.
Rows are upserts by token; what remains of an older run's rows is not modelled.

`RunLedger` has the rows, the data and which of its two final updates each run
has made. `PipelineRuns` implements it with `written` read off the jobs.

### ChainScheduler

Time is in minutes and a loop may wake in any minute; runs take as long as they
take. `Wake` builds the windows of a round (`_build_due_windows`); then for each
window `TakeLock`/`LockDenied`/`LockFails`, the claiming thread
(`ClaimThread`, `ClaimThreadFails`), its answer with the unlock (`ClaimWon`,
`ClaimDuplicate`, `ClaimRaised`, or `UnlockFails` when the session was lost),
and the run (`RunSucceeds`, `RunRaises`). `Stop` is `stop()` or the death of the
process; a claiming thread may be left behind (`orphans`). `StopSwallowed` is
the case in which the unlock raises while the task is being cancelled: the
exception takes the place of `CancelledError` and the loop goes on. `given` is
history: windows that the loop has not claimed and has given up for a reason it
logs, or dropped because it was too far behind.

`WindowClaims` is what remains without locks, threads and rounds: claimed
windows, the window each loop works on, and the last one it has passed.
`ChainScheduler` implements it with the window a loop owns (`Owns`: from the INSERT
of its own claim till it goes on) as the one it works on. What belongs to no loop
is claimed aside: a manual run, and the claim of a thread nobody waits for.

### HttpClient

The callers of one provider and chain. `leader[u]` is whose future is registered
for the URL. A follower's cancellation cancels the future it awaits (`severed`),
and with it every other follower; later callers that find this future are
cancelled at once (`FollowSevered`) until the leader releases it.

### Scanner

One task, so no interleaving but that of the task with the clock, exceptions and
the end of the process. `scan` is where `run_forever` is: asleep, or awaiting the
trending list, the security checks or an alert. `GoThrough` is the loop over the
tokens from one alert to the next, with the save behind the last; `NextScan` is
`run_cycle` going on after a scan has ended in any way, and `Abandon` the ways in
which it ends early. Time is kept as time left (`left`, `sinceHour`), so no bound
on the clock is needed. A score is whatever the scorer says of a place of the
list; a list may name an address twice, and then the last signal counts, as in
`signal_map`.

The score itself is in `AlphaScorer`: `PassesFilter` and the parts of `score` in the
code's own units, and `ScanToken` takes a token from one pair of lists to the
next. Here an alert's level depends on two consecutive scans.

### TokenBucket and ResponseCache

Both count in ticks. A taker of the bucket sleeps for a length it computed when it
found too few tokens and may wake later than that (`Wait`); `TokenCost` and
`RefillRate` make a fraction of tokens per tick exact. A lookup of the cache
suspends while Redis is asked (`asking`), and what Redis answered is written to
the local cache later (`answered`), if the lookup has not timed out by then. A
`SETEX` is on its way (`sent`) until Redis applies it or it is lost: `wait_for` in
`set` gives up waiting and takes nothing back, so it may be applied long after,
with a whole new TTL, over a newer payload. A payload stands for the moment it was
born, so that its age can be told whoever hands it on, and a copy that comes from
Redis says how late its `SETEX` was applied (`late`). `StalenessBounded` allows for
that delay once; no bound holds of the delay itself.

### MarketData

`source` is the position in the chain; `Ask...` starts the lookups of a strategy
by address, `AddressesIn` looks at what came back and starts the searches,
`Conclude` makes the checks and merges the rows. A lookup answers with any of
`Payloads`, raises, or is cancelled: then `gather` leaves a `CancelledError` in
the place of a pair (`Severed`), which the strategies unpack. A pool is what it
says of its base token relative to the symbol asked for. `Best` and `First` are
over sets of positions, as the filters before them keep the order.

The strategies differ in their adapters only; `GeckoByAddress` does not ask on
which side of a pool the token stands, so a GeckoTerminal row of a required
symbol may be about another token: `RequiredFromAddress` excepts it.

### Scoring and CandidateCache

`Scoring` has features in hundredths and scores in thousandths, the resolution of
the code's constants; the window is saved as a whole or lost as a whole
(`SaveWindow`, `LoseWindow`). In `CandidateCache` a save drops the copy of its own
process before the transaction commits; versions count commits, and `until` and
`served` are history.

### HttpApi and Backtest

The middleware and the replay guard do not await, so `Enter` and `Replay` are one
step each; `inside` holds the requests between them. `granted` is the history of
admissions that the limit is about. A handler of `Backtest` never suspends, so a
process serves one at a time; other processes and a crash come between its
transactions. The engine, its metrics and the walk-forward check are functions of
the market and a configuration.

## 3. What the runs check

| Run | Instance | Properties |
|---|---|---|
| `executor` | 3 callers, threshold 2, 2 slots, 2 attempts, clock to 5 | `TypeOK`, `SlotsAccounted`, `TripsOnStreak`, `GuardCoversTrip`, `OpenAdmitsNobody`; `CallsReturn`, `HalfOpenResolves` |
| `pipeline_runs` (`MCPipeline`) | runs: 2 runs, 2 windows, replay limit 1, 1 crash; market: 2 symbols and a stranger, 288 configurations of 3 orders of sources, 5 payloads; scores: 2 tokens, 8 tradings; candidates: 2 processes, 2 readers, lifetime 2, clock to 5; backtests: 2 requests of 5 kinds in 2 processes, 3 markets of 4 minutes | `TypeOK`, `OneClaimPerWindow`, `StatusMatchesData`, `ReturnedIsDurable`, `ReplayLimitHeld`, `RequiredFromAddress`, `OnlyCancellationEscapes`, `SymbolsFromFirstSource`, `ScoresFit`, `CandidatesWereCurrent`, `ReportedRunsAreStored`; `RunsSettle`, `ImplementsLedger` |
| `scheduler` (`MCApi`) | loops: 2 schedulers, step 1, catch-up 2, clock to 3, 1 disturbance; requests: a replay and a backtest path, limits 2 and 1, window 2, at most 1 key kept, clock to 4 | `TypeOK`, `NoDoubleRun`, `WindowLimitHeld`; `ImplementsClaims`, `NoSilentGap`, `KeepsUp` |
| `http_client` (`MCIngestClient`) | client: 3 callers, 2 URLs of 2 endpoints, 2 attempts, clock to 3; bucket: 3 takers, 2/3 of a token per tick, burst 2, clock to 6; caches: 2 readers, 2 pages, 1 entry, TTLs and timeout of 1 tick, 2 commands on their way, clock to 3 | `TypeOK`, `RateHeld`, `StalenessBounded`, `OneFlightPerUrl`, `FollowersAreAwaited`, `SlotsAccounted`; `CallsReturn` |
| `scanner` (`MCScanning`) | scans: 2 chains, 2 addresses, lists of up to 2 places, 3 scores, cooldowns of 1 and 2 ticks, 1h lists every 2 ticks; scores: 15 entries, 6 security reports, levels at 55, 65, 75 | `TypeOK`, `NoRepeatInCooldown`, `SuppressionHasCause`, `FirstScanIsSilent`, `HighMeansProgress`; `EveryChainScanned`, `HourlyScanned` |

Each property has a mutant: a broken variant of a definition, written next to
the definition, under which TLC finds the property violated.

Seven runs show a disagreement between the code and what the repository says
of it (`findings` in `PROJECT.json` quotes the lines):

* `executor_half_open_wedge`: a probe that ends by a non-retryable error or a
  cancellation keeps its slot; with all slots lost the breaker stays half-open
  and refuses every call.
* `executor_early_reopening`: the success of a call admitted before the breaker
  opened closes it before `recovery_seconds` are over.
* `pipeline_settled_runs`: the late persist thread and `_mark_failed` overwrite
  each other's final status; the updates the service calls stale and skipped
  are not skipped.
* `scheduler_lost_window`: a window whose lock or claim failed is never due
  again once a later window of the round has succeeded.
* `api_pipeline_unreachable`: no request for a pipeline finds a service, as the
  lines that look it up stand behind a raise.
* `http_follower_cancelled`: one cancelled follower cancels all the others.
* `scanner_message_score`: the decayed score never reaches the message.

### Bounds

* Callers and schedulers: three callers are the least that let one caller hold a
  slot, one lose a slot and one be refused, or two followers share a leader;
  two schedulers (or two runs) are enough for every pairwise race, and every
  property compares at most two.
* `MaxTime` bounds the clock. In `executor` it is long enough for the breaker to
  trip, recover, fail a probe and recover again; in `scheduler`, with catch-up 2,
  for a loop to be three windows behind, so that one is dropped.
* `MaxCrashes`, `MaxDisturbances`: one failure of the environment at any
  point. Repeated lock denials, duplicates and cancelled waits cost nothing and
  are not bounded.
* `scanner`: two chains show what one does to the next, two addresses and lists of
  two places that one cooldown leaves the other alone and that an address may
  stand twice. `MaxHits` caps the hit counts, which only `scanner_message_score`
  reads. A scan may be cut, and the process started anew, any number of times.
* `MCPayloads` has no pool, a good one, one that is a second too young, one that
  tells of an hour only, and a list with all three kinds of base token whose most
  liquid ones are the wrong ones;
  `MCConfigurations` every source in front of another and as the last, and
  mappings with and without the required symbols. One source more repeats what
  the second does; the theorems are about any number.
* `MCTrading` has tokens on both sides of each threshold of the gate and sales of
  6679 and 6680 a minute. `MCEntries` has ranks, volumes and smart money on both
  sides of every step of the score.
* `CacheHorizon`, `BucketHorizon`, `ApiHorizon`: longer than the lifetimes, sleeps
  and windows they cover, so that an entry expires, a full bucket drains and
  refills, and a window slides over its own start.
* `MaxUnderWay`: two `SETEX` commands on their way are the least that let an old one
  be applied over a newer one. A clock to 3 is the time a command needs to be
  applied after its timeout, be read back by a lookup that waits its whole timeout,
  and stand in the local cache: the bound of `StalenessBounded` is reached.
* `MCDuties` has every kind of backtest and a batch, a pair of configurations that
  share a run id, and one without a configuration.
* The number of retries, the thresholds and the slots are the smallest for which
  "first", "middle" and "last" differ.

### Fairness

* `executor`, `http_client`: an attempt ends and a sleep is over (the client has
  timeouts). A follower has no fairness of its own: it depends on its leader.
  `executor_half_open_wedge` also lets the clock run and callers call again,
  as the scanner's loop does.
* `pipeline_runs`: threads finish, as `statement_timeout` bounds every
  statement, and a coroutine that can go on is resumed. Requests, cancellations
  and crashes are free.
* `scheduler`: a loop that is not stopped is resumed when what it awaits is
  over, and threads end. Processes need not start again and the clock need not
  go on.

* `TokenBucket`, `ResponseCache`, `MarketData`, `Scoring`, `CandidateCache`,
  `Backtest`, `HttpApi` and `AlphaScorer` have no fairness, and only safety is
  asked of them: TLC checks the invariants on all their reachable states. The
  fairness of a run is that of the machine its liveness properties are about.
* `scanner`: what the loop awaits ends (the command line tool and the messages
  have timeouts), successfully or not; nobody need start a stopped process.

`CHECK_DEADLOCK FALSE` stands where the system may really stop: all runs have
ended (`pipeline_runs`), or all loops have (`scheduler`).

## 4. What is proved

All theorems hold for every value of the constants under the named assumptions
of the modules (finite sets of callers and runs; positive thresholds, slots,
attempts and limits). `CandidateAssumption` takes a query and its reply to be
over within `QueryTime` (`statement_timeout`), `BacktestAssumption` leaves out the
batch without a configuration, which stores nothing, and `HighNeedsProgress` a
`high_score` above 70 (the default is 75): at 70 what a token merely is can add up to
HIGH.

`ResilientExecutorProofs`. The inductive invariant adds to the checked ones that
no recorded instant is later than the clock (needed for "the open breaker admits
nobody": whoever is in flight was admitted at a time not after the breaker's
opening) and that a sleeping caller has an attempt left (needed for the type of
`attempt`). The slots are counted with the cardinality of `probes`, so that each
action needs one fact on adding to or taking from a finite set. The guard's
cooldown must be monotone in the streak (`CooldownMonotone`).

`PipelineRunsProofs`. The checked invariants speak of rows and stages; what
makes them inductive is `Shape`, the table of which jobs and which row go with
which stage. Two of its lines carry the argument: no job of `run_claimed` exists
before the row does, and a row only says what the last committed job of its own
run wrote. The replay limit also needs that whoever has passed the count is
alone under the lock, so the count cannot grow before the insert
(`ReplayShape`). Refinement: each action maps to `Record`, `CommitRun`, `FailRun`
or a stutter; that a commit happens once follows from the jobs.

`HttpClientProofs`. `OneFlightPerUrl` and `FollowersAreAwaited` are inductive
together with the types: a follower joins a URL that has a registered leader, and
a leader ends in one step with those that await its future. The slots are
accounted for endpoint by endpoint (`SlotsOf`): an outcome recorded for one
endpoint leaves the periods of the others alone. What breaker and guard return is
in `ResilienceLemmas`, which this module and the executor's share.

`ScannerProofs`. The time left of a cooldown and the age of the last alert add up
to the cooldown of its level (`CooldownClock`); with it, what is being sent is out
of cooldown and what is held back is not. That alerts come only after a whole scan
needs that nothing but a whole scan stores a snapshot (`StoredAreWhole`) and that
a scan which knows a snapshot has seen it stored.

`AlphaScorer` is in the same module: without gains of rank and smart money, the
parts of the score that remain are bounded by 70 (`HighNeedsProgress`).

`ApiProofs`, the scheduler. `NoDoubleRun` follows from who owns a row: a loop runs a
window only with a claim of its own, a claim is made by inserting the row, and a
row is never deleted, so no second claim succeeds, in whatever place the first
claimant is by then. `NoSilentGap` needs to know what a round looks like while the
loop is in the middle of it (`RoundInv`): its windows are whole steps apart,
counted from the last window (`WholeRound`), and everything before its first
window has a row or was given up (`GapAccounted`). For one loop all actions fall
into five shapes (`LoopSteps`), so this is shown per shape; the arithmetic of
`_build_due_windows` is in `DueInSteps` and the two lemmas before it. The refinement
maps each action to one of `WindowClaims` or a stutter (`ClaimsStep`); that a claim
is later than what its loop has passed comes from `RoundInv` and from the passed
window having a row (`LastHasRow`).

`ApiProofs`, the requests. The sliding windows drop what is old whenever they are
touched, at different moments, and forget keys altogether; the history keeps what
was let in. `Matches` says what they agree on: the times of the last minute. It
rests on three facts about `Since`, the rest of a sequence from its first recent
time: dropping what is old now drops nothing a later moment would keep
(`SinceTwice`), a sequence of old times leaves nothing (`AllOld`), and what is left
bounds the number of recent times (`CountedInWindow`). The first recent time is found
as the least number of a set (`LeastNumber`), not by induction over the sequence,
and nothing is asked of the order of the times. A key that is swept for its age has
only old times, as it was last seen after the last of them (`StaleIsOld`).

`IngestClientProofs`. For the bucket the invariant speaks of every earlier moment:
what was taken since then and what is left is no more than a full bucket and what
flowed in, with the fraction that is not refilled yet on the account; a waiter adds
nothing. For the caches it gives every place where a payload can be (local
entries, Redis, lookups) the age it can have there, counted from the moment Redis
applied its `SETEX`, whenever that was; the sum of the longest way is the bound.
Nothing but its birth is known of a command on its way.

`WindowProofs`. The chain of sources: all steps fall into eight shapes
(`StepShapes`), whatever the adapters are; the theorems are invariants of these
shapes. That the best of the pools in question is one of them
needs a maximum over a sequence, which is found as the smallest counterexample
(`LeastNumber`). Scores: bounds of each part, then of the weighted sum.
Candidates: what is cached or on its way is as recent as its expiry says
(`CopiesAreRecent`), and a commit takes nothing from what was current before it.
Backtests: a row is looked at from the side of the request that wrote it last
(`KeepsRowsOf`); a request between its two transactions already has its row
(`SavedRows`), and one that has a single configuration writes nothing after it.

Only model-checked: liveness (`CallsReturn`, `HalfOpenResolves`, `RunsSettle`,
`KeepsUp`, `EveryChainScanned`, `HourlyScanned`), which is out of the prover's
reach. Every invariant, action property and refinement the passing runs check is a
theorem as well. `ApiTypeOK`, the type of the requests' state, is only proved
(`RequestsTyped`), and is not part of a run.

## 5. Not modelled

* `scanner/analyze.py`: a report over stored rows.
* `backtest/optimizer.py`, `backtest/attribution.py` and the metrics the gate does
  not read: they compute from results and change nothing.
* Metrics, logging, deployment; bodies of requests and answers; the migrations
  other than the unique index and the widths of the score columns.
* Floating point: scores and rates are in the units of the code's constants, so
  rounding is not modelled. Jitter and the lengths of sleeps are left open except in
  `TokenBucket`; nothing here is a real-time bound.
* What remains of the rows of a window that is run again: rows are upserts by
  token, and `PipelineRuns` keeps the last writer.
* The session of the replay lock is taken to live as long as its holder;
  `ChainScheduler` models the loss of the scheduler's.
* `min_success_ratio` counts every symbol with an address, required here or not;
  `Covered` does the same, and no property says what coverage should mean.
* The registries of `shared/resilience` put a new breaker, guard or bucket in the
  place of one whose settings differ; settings do not change while a process runs.
* `SET LOCAL statement_timeout` with a bound parameter (`repository.py:76-80`) may be
  refused by a driver that binds on the server; the models take the SQL as intended.
* A replay that still works is taken to be fresh (`stale_seconds` is at least twice
  `run_timeout_seconds`), and nothing is proved of what would follow if it were not.
