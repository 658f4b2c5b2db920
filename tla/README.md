# Fortrader AI: specifications, model checking and proofs

TLA+ models of the parts of Fortrader AI in which the order of steps matters,
of the calculations that decide what is signalled, planned and reported, the TLC
instances that check them, and TLAPS proofs of every safety property they check. Paths are
relative to the repository (`src/` stands for its root). Every definition that
stands for code is mapped to its lines in `PROJECT.json` (`map`); every listed
property has a mutated definition there (`mutants`) under which the same run
fails. A definition preceded by `Mutant:` is such a mutation and is used nowhere
else.

Contents: [1 the system](#1-the-system), [2 the modules](#2-the-modules),
[3 the runs](#3-the-runs), [4 fairness](#4-fairness), [5 the proofs](#5-the-proofs),
[6 disagreements with the documentation](#6-disagreements-with-the-documentation),
[7 what is not modelled](#7-what-is-not-modelled), [8 the plan](#8-the-plan).

## 1 The system

An Electron shell shows the Fortrade site in a view, reads the account and the
quotes off the page every few seconds, overhears the chart's traffic, and posts
both to a local FastAPI backend, which it has spawned. The backend keeps
everything in one SQLite file, analyses the bars, scores signals, and opens and
closes *paper* positions. Nothing places a real order.

    Fortrade page --executeJavaScript--> FortradeAdapter --snapshot-->  backend
                  --debugger-----------> CandleCapture   --candles--->  (FastAPI,
    main.ts, AppStateMachine ------------- app state --------------->    a pool of
    BackendProcess ----------- spawn, /health, restart, stop ------->    threads)
    renderer, MCP bridge ------ poll /api/... ---------------------->       |
                                                                         SQLite

Three kinds of concurrency follow. The shell is one thread, whose handlers
interleave at every `await`, timer and event. The backend's handlers are plain
functions, which FastAPI runs in a pool of threads; each thread has an SQLite
connection of its own, so two statements of one handler are two steps, unless an
open write transaction or a lock holds them together. And there are processes: a
backend outlives a shell that is killed, keeps the port, and may be working on
the same file as its successor.

| Component | State | Operations | What makes it correct | Modules |
|---|---|---|---|---|
| Paper trading: `backend/paper`, `paper_trades` in `storage/repositories.py` | the table, the last evaluation of each series, a lock | open by poll, open by request, close by hand, sweep with every snapshot | one open position per series, no stream of entries, none beyond its stop, no exit missed, one close per position, outcomes that fit, the lock always given back | `PaperEngine`, `PaperLedger`, `PaperTrading` |
| Candle capture and store: `candle-capture.ts`, `CandleRepository` | pending responses, the `candles` table | respond, parse, post, upsert | rows say only what the market has shown; a closed bar stays closed | `CandleStore` |
| Memo: `analysis/memo.py` with its handlers | an ordered dictionary | fingerprint, get, compute, put, evict | a cached reading is a current reading; bounded; no reader fails | `SeriesMemo` |
| Strategies: `strategies/repository.py` | `strategies`, one settings row, the scripts folder | create, update, delete, activate, active | the answer was in effect; only choices change it; the cap | `StrategyStore` |
| Signals served and recorded: `/api/signal`, `SignalRepository`, `strategies/scripts.py` | the memo's signals, the `signals` table, a child process | look up, compute, run a script, compare, insert | no decision is recorded twice without a reason, every poll ends | `SignalHistory` |
| What a snapshot leaves behind: `/internal/ingest/snapshot`, `QuoteRepository`, `SnapshotRepository`, `Retention` | three tables and two dates | sample, save, prune | a sample and not a copy, sampling resumes, old rows go | `Ingest` |
| Analysis, signal, plan, backtest: `analysis/`, `signals/`, `planning/`, `backtest/` | none: functions of a frame | read structure, score, combine timeframes, plan, walk, summarise | no look-ahead, no repainting, honest exits, a bias that is earned, plan and position agree | `MarketAnalysis`, `SignalEngine`, `TradePlan`, `Backtest`, `Readings` |
| Application state: `app-state.ts`, `fortrade-adapter.ts`, `fortrade-view.ts`, `main.ts`, `fortrade/state.py` | a state in the shell, a copy in the backend, failure counter, timers | settle, tick, post, deliver, go stale | nobody claims a session that is not there; both sides converge | `AppState` |
| Supervisor: `backend-process.ts`, `runtime.json` | child, restart counter and timer, the port, the file | spawn, await, restart, stop | no lapse but by a spawn that fails, no second backend, the file of a ready shell is its own or a warning is logged | `Supervisor` |
| Updater: `updater.ts` | its state, and what electron-updater holds | check, answer, download, install, quit | what is offered is there and newer; no downgrade; offered again and again | `Updater` |
| Chat: `chat/providers.py`, `chat/service.py`, with `mcp_bridge` | the probe of the CLI, the thread pool | select, probe, ask, tool call | nothing is paid for that the CLI would answer; every question ends | `Chat` |
| Migrations: `storage/migrations.py`, `database.py` | schema, `schema_migrations` | execute a statement, record | what is recorded is whole, who serves has all it needs | `Migrations` |
| HTTP API: `api/server.py` | none of its own besides the memos and dates above | the handlers | those of what it calls | its handlers are actions of the modules above |
| MCP bridge: `mcp_bridge/server.py` | none | one forwarded GET per tool | its wait ends | part of `Supervisor` and `Chat` |
| Renderer, extraction, configuration, probes, build | none a property is about | | | see 7 |

What is hard about this code, at the lines where it bites and with the
properties that watch it, is listed in `PROJECT.json` under `hazards`.

## 2 The modules

    PaperEngine <--extends-- PaperTrading --INSTANCE WITH--> PaperLedger
    CandleStore <--extends-- SeriesMemo
    MarketAnalysis <-- SignalEngine, Backtest <-- Readings --INSTANCE WITH--> PaperEngine
                                                           --INSTANCE-------> TradePlan
    PaperTradingProofs, CandleStoreProofs, SeriesMemoProofs, AppStateProofs and
    ReadingsProofs extend their subject
    StrategyProofs --extends--> MCStrategies --extends--> StrategyStore, SignalHistory
    ServicesProofs --extends--> MCServices ----extends--> Supervisor, Updater, Chat
    DatabaseProofs --extends--> MCDatabase ----extends--> CandleStore, Migrations, Ingest

The rest stand alone. Modules whose name begins with `MC` give constants their
values. Three of them, `MCStrategies`, `MCServices` and `MCDatabase`, hold two or
three modules that share no variable, and let one of them move while the others
rest in an initial state: a behaviour of the instance is a behaviour of one of
them, every behaviour of each of them is one of the instance's, and interleaving
them could neither add nor hide anything a property of one of them sees. The
fairness of each is its own, stated of the steps it takes while the others rest.

**PaperEngine** (`paper/engine.py`). Prices are integers in the smallest step
the code keeps. The size of a position is left out: `pnl = move * size` and
`r_multiple = move / risk`, so the move and the risk carry their sign and their
comparison. `Qualifies` is `plan_trade` returning something, in the order of its
guards; `EvaluateExit` looks at the stop before the target.

**PaperTrading** (`paper/service.py` and its four handlers). A handler reads the
quotes *before* it waits for the lock (`api/server.py:488`), so the request
carries them through `waiting`. Under the lock each SELECT or transaction is a
step: `Evaluate` (the interval), `AlreadyOpen`/`NoneOpen` (`has_open`),
`Decline`/`OpenPosition` (`plan_trade` and the INSERT), `CloseManually`, `Sweep`
then one `CloseNext` for each position, in the order of the SELECT. Any of these
may `Fail`, which leaves the `with` block. `Crash` keeps the table and nothing
else. `entries` is a history variable: the positions this process opened, with
the time of their evaluation.

**PaperLedger** promises: the table only grows; a position opens on a series
with none running, on terms whose stop is a loss and whose target is a gain; it
closes at most once, at a price that fits the reason. `ImplementsLedger` is the
refinement: `INSTANCE PaperLedger WITH` the service's `trades` and `Series`, its
threads, lock, clock and evaluations forgotten.

**CandleStore**. A chart response lists bars `first..newest`; its last bar may
still be forming. Whether a bar is complete is decided by the clock when the body
is *parsed*, later; the post arrives later still. `MergeRow` is the `ON CONFLICT`
clause: prices overwritten, `complete` is the maximum. Prices are abstracted to
`forming` and `final`. `revised` is a history variable: an upsert has changed a
row that was there.

**SeriesMemo**. A reader takes the fingerprint, looks the key up, moves it to the
end, or reads the bars, stores and evicts; each of these is one step of CPython
on a shared dictionary. `Touch` fails when the key has gone. A reading is what a
function of the closed bars can depend on: the closed bars. `seen` is a history
variable: the readings of each state of the table between a request's fingerprint and
its look-up.

**StrategyStore**. Python's `sqlite3` opens a transaction only at a statement
that writes, so in `create` the COUNT and the INSERT are two steps
(`CountRoom`, `Insert`), although they are in one `with transaction()`; a DELETE
and what follows it in its block are one. `active()` reads the selection, then
resolves it (`ReadSelection`, `Resolve`). `seen` is a history variable: what was
in effect while a call of `active()` ran.

**AppState**. `page` is what the view shows, `hung` included; the settle timer
carries the state seen by the event that set it. `tick` follows
`FortradeAdapter.tick` from one `await` to the next. `snap` holds the snapshots on
their way: the one awaited (`current`), accepted but not answered (`accepted`), or
given up on after 3 seconds and still able to arrive (`late`). `posts` are the
state posts nobody awaits: a set, so that they overtake each other. `calm` is a
history variable for `Recovers`: from then on the session is open and no call is
late.

**Supervisor**. A backend is named by the launch that spawned it and a number,
and does not die with its shell. `boot` follows `start()` and `waitForReady`: the
look at the exit code, the question, the answer, and only then the runtime file.
`Die` distinguishes an exit with a code from a signal, since `exitCode` stays
null for the second. A spawn may fail: then there is a child and no process, and
`SpawnError` is the `error` event, after which no `exit` comes and no restart is set.
The write of `runtime.json` may fail, which leaves the file as it was or cut short
(0: nobody can read a launch from it) and a warning in the log (`warned`); the shell is
ready all the same. Its removal by `stop()` may fail, and nothing is said.

**Migrations**. A migration is a number of statements, each committed by itself
since `executescript` runs outside the transaction; what a statement creates must
not exist. A process of release `r` knows the migrations `1..r`.

**SignalHistory** (`/api/signal` in `api/server.py`, `strategies/scripts.py`,
`SignalRepository`). A poll looks up the memo, computes or takes the signal as it
was *with the date it had*, lets a script overrule it, reads the newest row by
date, and inserts if bias or score differ: each of these is a step. The races
inside the memo are those of `SeriesMemo`, the selection is that of
`StrategyStore`; here either is one step. A script replies with a result, replies
with something else, or hangs until it is killed.

**Ingest** (`/internal/ingest/snapshot`, `save_sampled`, `SnapshotRepository`,
`Retention`). Rows are known by their age in ticks and by who wrote them; ages
stop at the last that matters. A symbol is marked as sampled *before* the INSERT
that may fail, the date of the snapshot is set after it; retention deletes from
three tables one after the other and breaks off at the first that fails.

**MarketAnalysis** (`analysis/`): the frame (complete bars, in order), swings,
their clusters, support and resistance, and the classification of trend, momentum
and volatility, from the values of the indicators. **SignalEngine** (`signals/`):
the components' scores, the signal with its gates, and the combination of
timeframes. **TradePlan** (`planning/plan.py`): the gates, the levels, the size.
**Backtest** (`backtest/`): the walk over the bars and the metrics. All four are
operators over integers; a comparison of quotients is multiplied out, and a quotient
that is kept is rounded by `RoundHalf`, which is Python's `round`: symmetric about
zero, as the floats of the code are, which is what `LongsMirrorShorts` needs. A loop
over bars, trades or swings is a recursive function (`Walk`, `LongestLoss`,
`MaxDrawdown`, `ClusterLevels`) and the body of the loop an operator of its own
(`Visit`, `Losses`, `Deepened`, `Join`). `Sorted` is defined by ranks, because TLC's
`SortSeq` has no definition a proof could expand. **Readings** puts them behind one state machine: a
history of bars grows as the store lets it, one bar or one correction at a time,
and every other function is asked about one input after another. That makes
statements about *two* inputs action properties: what a longer history may not
change about a shorter one.

**Updater** (`updater.ts`). A release is an index into the order of publication;
its rank is the order of semver, its core the numbers `isNewerVersion` compares.
macOS asks and answers in two steps, so that checks overtake each other; on the
other systems the events of electron-updater come when they come, a periodic
check among them while a finished download is held. A session ends by quitting
(which installs what is held), by installing, by the user's dragging the image, or
by a crash, and the next one starts from what was installed.

**Chat** (`chat/`, `mcp_bridge/`). A request holds a thread of FastAPI's pool from
`Begin` to `Respond`; the CLI it runs calls tools that come back over the bridge
as requests of their own, and need threads of the same pool. A probe of the CLI
can fail although the CLI works, two can overlap, and the user may install or
remove the CLI at any time. `solid` and `failed` are history variables for
`FreeWhenItCan`.

## 3 The runs

`tlc -workers 2 -config X.cfg M` in this directory; each takes less than five
minutes, most less than one. Deadlock is checked except where noted.

| Run | Question | Instance | Why it is enough |
|---|---|---|---|
| `paper_service` | Can entries stack, come too fast, or start dead? Is an exit missed, doubled, or recorded with the wrong outcome? Is the lock always given back? Does the service implement the ledger? | 2 threads, 2 series of one symbol, 2 rows, clock 0..1, interval 1, one signal for each guard of `plan_trade`, quotes that hit and miss | two threads are all a check-then-insert race needs; two positions make a sweep of several statements which can fail between them; the clock can be just short of the interval and just at it; each move stops one direction exactly at or beyond the stop and fills the other exactly at the target; one quote is so wide that a position would start dead |
| `memo_reuse` | Is a reused reading the right one, while bars only arrive? | 2 readers, 2 keys, room for 1, 2 bars, 1 capture | eviction and lookup collide; a bar can be missing behind a later one |
| `memo_stale` (violation) | Is a reused reading always the right one? | 1 reader | finding |
| `memo_race` (violation) | Does a race of two readers cost only a second computation? | 2 readers | finding |
| `strategy_signals` | `StrategyStore`: does `active()` answer what was in effect, does the cap hold? `SignalHistory`: what may the history repeat or miss? | 2 threads, 3 ids, 3 names, 1 script, cap 1; 2 pollers, the built-in strategy and a script, 2 bars, 3 readings, 4 rows | a create beyond the cap leaves an id for one more; two polls race, a reading is memoised under one strategy, then repeated after the other |
| `signal_polls` (violation) | Is the history one of decisions? | 1 poller, 2 strategies, no script, no failure | finding |
| `state_session` | Who claims what session, and do the two sides agree in the end? | 3 tolerated failures, as in the code; 1 death of the backend | all page states, all orders of the posts; a death in any state |
| `state_error` (violation) | Does a failed backend stay on display? | no death | finding |
| `desktop_services` | `Supervisor`: does supervision lapse, double or mislead? `Updater`: is what it offers there, newer, and offered again? `Chat`: does every question end, and none cost what it need not? | 2 launches, 1 killed, 3 restarts, as in the code; 5 releases, 2 checks in flight, all builds; 2 requests, a pool of 2, 2 tool calls each | the second launch meets the backend of the first on the port; the releases hold 1.9 before 1.10, a hotfix of the old line published last, one without an image and the same numbers again with one; two questions fill the pool and starve their own tools |
| `database_writes` | `Migrations`: can a schema be recorded or served in part? `CandleStore`: what can late and overtaking posts do to the table? `Ingest`: a sample, and not for ever? | 2 processes and the code's 3 migrations of 12, 2 and 2 statements; 3 bars, 2 captures; 2 handlers, intervals of 2 ticks, 0 or 1 ticks kept | a process can die inside, between and before migrations, and another can start anywhere; two posts overtake each other, three bars leave a gap; two ingests overlap in one interval |
| `migration_partial` (violation) | Is a migration all or nothing? | the same processes and migrations | finding |
| `readings` | Do the calculations do what they promise? | histories of up to 6 bars over 4 shapes; every combination of a few values of each indicator around its thresholds; 4 timeframes; plans at quotes and equities with and without a value; up to 5 results | a lookback of 5 leaves the oldest of six bars out; strength 1 puts several swings into six bars; a position is entered, held to its limit and gapped through; the values sit at, above and below each threshold |

Bounds that are not constants of the code: `MaxTrades`, `MaxClock`, `MaxBar`,
`Captures`, `Ids`, `MaxDeaths`, `MaxLaunches`, `MaxKills`, `MaxReadings`,
`MaxRows`, `Slots`, `Requests`, `Handlers`, `MaxBars`, `MaxResults`. Each is a
guard of the action that would exceed it (`Room`, `Tick`, `OpenBar`, `Respond`,
`Insert`, `BackendDown`, `Launch`, `KillShell`, `LookUpSignal`, `AskRelease`,
`Arrive`, `Ingested`, `NextBar`) and none cuts an action short once begun.
`SYMMETRY` is used only in runs without liveness properties, over threads, keys,
captures or processes, which the modules treat alike. `desktop_services` does not
check for deadlock: after the supervisor's last launch everything may be off,
which is where a user who has quit for good leaves it.

What the properties say that a test would hardly reach:

- `SweepMissesNothing`: between the read of the open positions and the end of the
  loop nobody opens a position the payload would close, and none is skipped. It
  is the lock that makes this true, not the loop.
- `RateLimited` holds across a forced entry, a manual close and a poll, since the
  forced request restarts the interval as well. It does not hold across a restart
  of the backend, which forgets the interval; that is why `entries` is cleared.
- `ServedWasCurrent` is the exact extent of the memo's promise: as long as no stored
  row changes, what a request is served is what it could have computed itself at some
  instant between its fingerprint and its look-up, bars filled in behind the newest
  included, although the entry comes from another request whose fingerprint, reading
  and `put` were three steps. `CachedIsCurrent` is a promise without the premise, and
  fails.
- `AnswerWasInEffect`: `active()` is two reads, and yet what it answers was in
  effect at some instant of the call, because ids are never reused. Scripts are
  excepted because a file may leave and come back.
- `SessionNotOverridden`: no settle timer set by an earlier page event takes a
  confirmed session away.
- `Recovers`: the two copies of the state agree in the end although nothing
  repeats a lost post, because each accepted snapshot promotes the backend by
  itself and the shell's late posts run out.
- `Served`: the restart counter is spent by crashes, signals and a taken port
  alike, and until it is spent the port comes to be held for good, as long as no spawn
  fails: that alone ends supervision with restarts left.
- `Discoverable`: a ready shell whose runtime file names another launch, or none, has
  logged that it could not write it. It says nothing of a shell that is stopping or
  gone (section 6).
- `LockOK`: the lock is held by exactly the thread that is inside its body, on
  the paths that fail as on those that return.
- `RepeatsExplained` is the exact extent of what the history may repeat: polls
  that compared before the other inserted, and a memoised reading older than the
  newest row. The promise without the second exception is `DecisionsOnly`, and
  fails.
- `SampledNotCopied` holds per handler: overlapping ingests may each write once
  in an interval, and no failure makes one write twice.
- `SamplingResumes` and `OldRowsGo`: a sample lost to a failed INSERT costs its
  interval only, and a retention that breaks off each time still empties every
  table in the end.
- `SwingsStay` and `NoLookAhead` compare two runs of a function: what it said of
  the bars that were decided, and what it says when the history is longer, or
  when the newest bar is corrected.
- `TradesAreHonest` describes a trade list by quantifiers over the whole chart,
  where the code walks it once with a position in hand.
- `PlanIsWhatOpens`: `build_plan` and `plan_trade` are separate implementations with
  separate constants. Where the multiples of ATR and spread are the same, as
  `plan.py:35` says and both files have it, a position opens exactly on a plan that is
  viable and reaches the paper engine's least score, at the plan's levels. The score is
  the one gate that only the paper engine has (`paper/engine.py:178`): a LONG at 60 is
  shown as viable and opens nothing. The instance asks at 69 and 70, the code's minimum.
- `MetricsAreTrue` says what is reported below the minimum of trades as well: no profit
  factor, no drawdown, and a losing streak of 0 whatever it was (section 6).
- `OfferIsThere` holds although `downloading` is announced over `ready` and the
  progress of a download after a check names no version, because `ready` is set
  from the download itself.
- `QuestionsEnd` holds although two questions can hold the whole pool while their
  CLIs wait for tools that need it: the bridge's read timeout breaks the wait,
  and the limit on the CLI bounds the rest.

## 4 Fairness

`PaperTrading`: weak fairness of `Acquire` and `Work` for each thread: a running
thread runs on. Nothing makes a request arrive, a statement fail or the process
die. No property of the run needs it.
`AppState`: timers and the interval fire, the shell's thread runs, a backend that
is up handles what reaches it, a dead one is restarted (`backend-process.ts:112`).
Nothing makes a page change or a call fail; `ExtractNothing` on a loading page
and `ExtractNoAccount` on a login page are what the script returns there. A hung
page is never fair: `executeJavaScript` has no timeout, and `NeverReadyOnSilence`
holds all the same because the backend ages the snapshot.
`Supervisor`: answers arrive and the restart timer fires; a backend that starts
either binds the port or finds it taken and exits; one that is told to stop does.
No crash is fair, and neither is a second launch, nor that a spawn or a write fails or
that its failure is heard of.
`SignalHistory`: a thread of the pool runs on, and a script that hangs is killed
by the timeout of `subprocess.run`; that a script replies at all is not assumed.
`Ingest`: the handler runs on, the shell goes on posting, and each statement, if
tried again and again, succeeds again and again (strong fairness); nothing says
it does so at once.
`Updater`: the interval of six hours comes round (weak); a fetch, a check or a
download that is started again and again ends again and again (strong), and may
fail any number of times in between. Nobody has to install.
`Chat`: a request that waits gets a thread when threads keep becoming free
(strong), a handler runs on, and the timeouts of the probe, the CLI and the bridge
fire. That the CLI exits is not assumed.
`CandleStore`, `SeriesMemo`, `StrategyStore`, `Migrations` and `Readings` state
safety only and have no fairness.

## 5 The proofs

`tlapm` proves eight modules, for any threads, series, symbols, quotes, signals,
bars, responses, processes, migrations, strategies, releases, requests and bounds:
`PaperTradingProofs`, `CandleStoreProofs`, `SeriesMemoProofs` (over the candle
store's), `StrategyProofs` (the store, the history, then their composition),
`ServicesProofs` (supervisor, updater, chat, then theirs), `DatabaseProofs`
(migrations, ingest, then theirs with the candle store), `AppStateProofs` and
`ReadingsProofs`. They rest on the assumptions named in the modules and on nothing else:

| Assumption | Why the code justifies it |
|---|---|
| `ConfigAssumption`, `PlansAssumption` | multiples and intervals are positive: `PaperConfig.validated`; planning's own are positive defaults; a signal on no bars is a WAIT (`_insufficient` in `signals/engine.py`) |
| `ServiceAssumption`, `SentinelAssumption`, `AbsentAssumption`, `NoEntryAssumption`, `ApartAssumption` | values that stand for "nothing" are not values; a uuid is neither `builtin` nor begins with `script:` |
| `StoreAssumption`, `AppAssumption`, `SupervisorAssumption` | counts are counts, and a failure is needed before disconnecting |
| `StrategyAssumption` | the cap is positive, and the threads of a pool are finitely many |
| `MemoAssumption` | the pool has at most one thread more than the memo holds keys: 40 against 96 |
| `HistoryAssumption`, `DecisionAssumption` | scripts are strategies; a reading scores within 0..100; `_parse` has looked through what a script prints |
| `IngestAssumption` | what is removed is older than its interval: minutes against days |
| `MigrationAssumption` | at least one migration, each with a statement |
| `UpdaterAssumption`, `SemverAssumption` | there is a release; of the rank, only that semver decides by the first number that differs |
| `ChatAssumption` | the pool has a size, turns are limited, and finitely many requests are open |
| `AnalysisAssumption`, `WeightsAssumption`, `ParamsAssumption` | a swing needs a neighbour and a lookback a bar; `SignalConfig.validated`: weights are not negative and one counts; `BacktestParams.validated`: multiples, warm-up and holding time are positive |
| `InputsAssumption`, `NothingAssumption` | the inputs are numbers or missing; a missing value is not a number |
| `HistoriesAssumption` | bars are records of integers that close within their range (see below), and a history starts from complete bars |

Paper trading. None of the properties is inductive. The base of all is
`BaseInv`: the types; a thread inside the lock's body *is* the lock's holder; and
what a sweep has left to do are positions that are open and hit. With it:

- `TypeCorrectness` and `LockDiscipline`: `[]BaseInv`.
- `OneOpen`: add that a thread about to insert has seen its series free, and that
  it is the only one past the lock, so the series is still free.
- `RateLimit`: add that each entry's evaluation is no later than the series' last
  evaluation, which is no later than the clock, and that a thread about to insert
  has noted its own, at least the interval after each earlier one if it is not
  forced.
- `Sweeps`: while a sweep holds the lock, positions only close; those it has left
  are the only ones that are hit.
- `Outcomes` and `LedgerRefinement`: the terms of every row are sound, so that a
  price at or beyond the stop is a loss of at least the risk; both follow from
  lemmas about `PlanTrade`, `EvaluateExit` and `Realise`.
- `Arrivals` has a premise, `MinSpreadMultiple > 1`. At exactly 1, which
  `validated()` accepts, a stop may be the very price the position must close at;
  the default is above it.

Strategies. `CapOverrun` is not inductive, since a thread checks the room before it
inserts. `RoomKept` counts both: the rows and the threads that are about to insert
are together at most the cap and the threads less one, because a thread that checks
adds itself while there is a row of room and at most all the others insert too.
`AnswerWasInEffect` needs that what a thread of `active()` has read, and resolves
later, is in what was in effect during its call (`ReadWasInEffect`).

Signal history. `RepeatsExplained` needs four facts. Every signal in the memo, in a
poller's hands or in the table was made by a reading that was counted
(`AllMade`, `ReadingsBounded`), the rows a poll has compared with are
still the first rows (`FoundNews`), and the newest row the comparison finds is the
row it says it is (`NewestThere`). Then a row that repeats its predecessor was
either compared before that predecessor was there, or the comparison met another row,
which has a later date: the two reasons the property names.

Memo. `FreshWhileUnrevised`, that an entry under the table's fingerprint is its
reading, needs the candle store's invariant and its own: a
fingerprint counts at most the rows there were when the reading was made, which are
at most those there are now, and where the numbers agree, the readings do
(`ReadingsBacked`). Rows only grow and, while none is revised, say the same: a
lemma over each step of the store. `ServedReadings` carries that over from the instant
of the fingerprint to that of the look-up: whatever is stored under the fingerprint,
*or is about to be stored by another thread*, is in what this request could have read
(`SeenCovers`); at the fingerprint by the above, later because what another thread
reads meanwhile is read during this request (`WhatMoves`). That no `popitem` meets an empty dictionary
(`PopsFindEntries`) is the finer part: every thread past the ceiling has an entry of its own to pop
(`EnoughToPop`), and beyond the ceiling somebody is about to pop (`SomebodyEvicts`),
counted as sets of threads and keys. It needs `MemoAssumption`.

Ingest. `SampledNotCopied` speaks of two rows of one handler. The invariant adds that
no row is younger than the date that handler keeps, that a handler about to write
has no row younger than the interval, and that one about to insert has just dated
itself. `IngestAssumption` keeps retention from removing the rows the date is about.

Supervisor. `OneBackendEach` needs that while the restart timer is
set no backend of this launch lives (`RestartsAlone`): the timer is set by the exit
of the one that did, and cleared when the next is spawned; and that every backend is
of a launch there has been, so that a new launch starts with none. `Discoverable` is
inductive as it stands: only `BecomeReady` makes a shell ready, and either writes the
file or warns; no step of a shell that stays ready touches either.

Application state. `ConnectedMeansExtracted` needs that before the trading page has
been shown nothing is on its way that could make anyone say CONNECTED: no snapshot,
no tick that posts one, no state (`NothingExtracted`), and that nothing ticks before
start-up is done (`NoSessionYet`). `SessionNotOverridden` is a look at each step from
CONNECTED, with that invariant.

Readings. All of it is proved: what the calculations yield for every input, however
long. The library's induction theorems take an operator as a parameter, which no
prover here can instantiate; so the module states them of sets. `NatSet` is induction
over the numbers in a set, from `WFMin`; `SubsetInduction` the same over the parts of
a finite set. `Iterates` builds the function that repeats a step, `Unfolding` concludes
that a recursive function is it, and `SumIs` does the same for the sums of the
community modules. With them each loop has an invariant, proved of one turn and then
of the loop:

- `SwingsDoNotRepaint`: whether a position is a swing is a comparison with its
  neighbours, which a longer frame leaves where they were (`SwingsOfMore`).
- `NothingIsSeenAhead`: a step of the history continues the frame by at most one bar
  and changes at most the newest, keeping its open (`FrameContinues`; the frame is the
  bars of distinct times by rank, `FrameIs`); two walks over such frames agree up to
  the bars they share (`WalksAgree`), and the last turn of a walk takes no new position
  (`LastTurn`). So the positions taken are the same, and the trades a prefix.
- `EveryTradeIsHonest`: the invariant of the walk has three parts. A position in hand
  has been touched by no bar so far (`OpenFair`); trades are honest and in order
  (`TradesFair`); every signal that qualified is held, traded or taken (`AllTaken`).
  `FairTurn` is one `Visit`.
- `ConsensusBacksTheBias`: each timeframe's pull is within its weight in size, so a sum of
  pulls is within the sum of the weights on its side (`PullsWithin`), and one that is
  left out is in no sum (`MaskedSame`).
- `LongsAndShortsAreAlike`: `RoundHalf`, `Clamp` and `Sign` commute with the change of
  sign, then each score, then the sum (`RoundMirror` to `SignalMirror`). It holds for all
  integers, and not only where a division is exact.
- `TheMetricsAreTrue`: after `k` trades the fall kept is the deepest of all pairs of
  moments so far, as a fraction compared by products (`Deepest`, `DeepestStep`); the run
  kept is the longest (`Counted`, `CountedStep`).
- `TheLevelsHold`: each cluster's sum lies between its touches times the least and the
  greatest price, and the touches add up to the swings that were joined (`Fits`, `JoinFits`); a sort
  loses none (`SortedIs`).
- `PlansOpen`: for every signal, quote and equity, and any multiples that the two
  implementations share (`SameMultiples`), by the cases of their gates; the score, which
  only one of them has, stands in the statement. It needs of `PlansAssumption` that a
  signal on no bars is a WAIT.

`NothingIsSeenAhead` and `EveryTradeIsHonest` have a premise, `SignalsTyped`: that the
engine answers each window with a bias, a score and an ATR, which is what
`generate_signal` returns; it quantifies over all windows, so TLC could not evaluate it
as an assumption. That a bar closes between its low and its high (`Sound`) is a premise
about the broker, which the code does not check (see 6). Without it a trade given up
at its time limit could close at its stop's price on a bar that never touched the
stop, and a swing could lie outside the range it is taken from.

Migrations. `RecordedIsWhole` and `ServesWhole` need that what is recorded is
`1..v` for some `v`; that the migration a process is in is at most `v + 1`, with
all below recorded; that the statements it has passed are done; and `OneInside`
needs that a process past its first statement is the one that executed it, which
holds because that statement refuses to run twice.

Candles. `RowsObserved` needs the same of what is on its way: a response or a post
lists no bar the market has not opened and says of its last bar nothing the market
has not shown. What has been observed stays so, since intervals do not end twice;
a row merges two that are sound. `ClosedStays` follows from the join of the marks.

Updater. `OffersAreThere` needs that what is held and what is on its way is later
than what runs, since a `ready` state is made from a download and `installed` from
what is held; with it `NoDowngrade` is a look at the three ways to install.
`SemverAssumption` says of the rank only that semver decides by the first number
that differs; that `isNewerVersion` follows it is part of the proof.

Chat. `FreeFirst` needs that a request marked solid still has a CLI that works and
no failed probe behind it, and that a remembered `bad` was measured. The types need
that no request asks a provider before one is chosen. The pool is counted as two
finite sets, requests with a thread and tool calls being served: each step leaves
both or shrinks them, or adds one element where there was room.

The compositions. `StrategiesTypes`, `ServicesTypes` and `DatabaseTypes` prove the
types of the three instances: in each step one part moves by its own next-state
relation, and the lemma of that part applies, or its variables rest.

Only model-checked, because no installed prover reaches it, is liveness (`Recovers`,
`NeverReadyOnSilence`, `Served`, `PollsEnd`, `UpdateIsOffered`,
`QuestionsEnd`, `SamplingResumes`, `OldRowsGo`), which needs fairness and `ENABLED`.
The other properties of the passing runs, invariants, action properties and the
refinement, are theorems.

Only proved, because a theorem says more than a run would: the types of the paper
service and the properties that `ImplementsLedger` and `ServesWhole` rest on or imply
(`OneOpen`, `Outcomes`, `Recorded`, `Exclusive`), `ClosedStays`, `PopsFindEntries` and
the types of the parts of the compositions.

## 6 Disagreements with the documentation

- `memo_stale`: the count and the newest timestamp stay as they are when a
  forming bar closes in place, or a stored bar is posted with other prices. The
  reading made before is then served until another bar arrives.
  `repositories.py:147` and `memo.py:17` say the fingerprint changes whenever
  the data does.
- `memo_race`: `memo.py:41-44` says that requests run on one loop and that the
  worst case is a duplicated computation; the handlers run in threads, and a key
  evicted between the lookup and `move_to_end` raises.
- `migration_partial`: `migrations.py:9` says that each migration runs in a
  transaction; `executescript` does not, and a start after a partial migration
  fails for good.
- `state_error`: `docs/architecture.md:146` ends the shell's life in
  `BACKEND_ERROR`; creating the view replaces it by `FORTRADE_LOADING`.
- `signal_polls`: `repositories.py:212` and `server.py:478` call the table a
  record of decisions rather than of polling; after a strategy is exchanged and
  chosen again, a memoised signal keeps its old date, never becomes the newest
  row, and is inserted again at every poll.

Two more comments are contradicted by what the modules contain, without a run of their
own. `backend-process.ts:188-191` says that the runtime file is removed on shutdown, so
that a stale one never makes the bridge think the app is running; but a killed shell
leaves it, its removal may fail (232-235), and a `waitForReady` whose answer is under way
when `stop()` runs writes it once more (`Stop` between `HealthAnswers` and
`BecomeReady`). `Discoverable` is therefore stated of a shell that is on.
`metrics.py:118-119` says that with too few trades the derived statistics are left as
None; the losing streak is left at its default of 0 (57, 142-151), which reads as if no
trade had been lost. `MetricsAreTrue` states the 0.

Behaviours met while modelling that no document denies, and that no property
therefore forbids: a late post puts the prices of a closed bar back to those of
its forming time, under a row that stays marked closed; two creates at once
overrun the cap on strategies by one (`CapOverrun` bounds it); a selection may
name a strategy that has gone, and resolves to the built-in one
(`migrations.py:183` says so); while the page hangs the shell keeps claiming
CONNECTED; after a lost or overtaken post the backend keeps another state than
the shell until the next change; after `stop()` the restart timer may still spawn
a backend; a spawn that fails ends supervision with restarts left, since the `error`
event is only logged (`backend-process.ts:126`); a child that exits with a code while it is awaited makes `start()` fail although the restart may
succeed (`backend-process.ts:164`). A price exactly at the EMA200 counts as below
it, so longs and shorts are mirrored everywhere but there; a backtest fills a stop
at the stop's price even when the bar gaps through it; a plan is shown as viable at any
score, while the paper engine opens none below 70; a plan's list of supporting reasons is not filtered by
direction; a negative equity gives a negative size. A script that fails leaves the
built-in reading in place, where comments in `scripts.py` (18, 187) speak of
degrading to WAIT. A GET of `/api/signal`, which the bridge's tools make, writes a
row and may open a paper position, although `mcp_bridge/server.py:7` calls the
bridge read-only. One failed probe of the CLI disables it for the backend's life;
of two overlapping probes the later overwrites the earlier, so that a CLI which was
selected may be refused although a key exists; with the API forced and no key, the
reason given says nothing works although the CLI may. Progress of a download that
a check interrupted names no version (`updater.ts:149`). Retention stops at its
first failing statement and never touches candles; a capture whose debugger is
detached is not attached again (`candle-capture.ts:189`). `MARKET_CLOSED` and `FORTRADE_ERROR` are declared and set
by no code. The validator of `models.py:172`, which would refuse a bar whose high is
under its low, never does: `high` is declared before `low`, so pydantic validates it
while `low` is unknown, and `None` passes.

## 7 What is not modelled

- Wording, layout, logging, ports, tokens, CORS, schemas and read-only reports.
- The values of the indicators (moving averages, RSI, MACD, ATR over floats):
  pandas arithmetic, inputs of `MarketAnalysis` here. Derived ratios of a backtest
  (Sharpe and the like), and the statistics of closed paper trades: sums over rows
  nobody acts on.
- The debugger's session (attach, detach, the map of pending requests, the mapping
  of symbols): `CandleStore` begins with a response that is captured.
- The key of the multi-timeframe memo, which leaves parameters of a strategy out
  (`server.py:829`): `SeriesMemo` has one key per reading, and the view it feeds is
  shown and not acted upon. Listed as a hazard without a property.
- Parsing of the page, whose outcome is a choice in `AppState`; the renderer, which
  polls and displays; configuration and logging, read once at start-up; the table
  of stored backtests; the writing of the MCP client's configuration; the probes,
  the build and `legacy/`. The reasons are in `PROJECT.json` under `components`.

- A `spawn` that throws at once instead of emitting `error`: it ends as a failed spawn
  does, with no process and no restart.

## 8 The plan

Done: all the modules above, then the proofs of every safety property a run checks.
What is left, most telling first:

1. An abstract specification of the application state (one session, two observers),
   with a refinement to check and then to prove.
2. The derived ratios of the backtest and the statistics of closed paper trades,
   which are sums and could be proved the way `TheMetricsAreTrue` is.
3. Action properties beside the invariants that are proved: rows of the signal
   history are never rewritten, a launch's restarts never exceed their limit.
