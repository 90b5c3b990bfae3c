# TLA+ verification of quant_trade

This directory holds TLA+ specifications of the trading system in this
repository, TLC configurations that model-check them, and proofs checked with
TLAPS. Every definition is translated from the code; `PROJECT.json` records for
each definition the file, lines and symbol it models, for each run what it
checks, and for each hazard of the code the properties that watch it. Paths
below are relative to the repository's root.

```
tlc -workers 2 -config runner.cfg MCBacktestRunner.tla   # model-check one run
tlapm BacktestRunnerProofs.tla                           # check the proofs
```

Contents: [1 The system](#1-the-system) · [2 The modules](#2-the-modules) ·
[3 The runs](#3-the-runs) · [4 The proofs](#4-the-proofs) ·
[5 What was found](#5-what-was-found) · [6 Not modelled](#6-not-modelled) ·
[7 What could follow](#7-what-could-follow)

## 1 The system

quant_trade backtests and paper-trades strategies. A Rust core (`core_engine`,
compiled to a Python extension) matches orders bar by bar; Python code around it
loads and caches bars, runs strategies, trades through gateways, checks risk,
and shows the result in live pages. The flows that matter:

- **backtest**: dashboard or `run_backtest.py` → `BacktestEngine` (Python), which
  loads bars and registers symbols → `BacktestRunner.run_batch` (Rust), which
  calls the strategy's `on_bar` and `on_trade` back in Python and owns a broker,
  a risk manager and a metrics engine; a grid search runs many of these in
  worker processes;
- **paper and live trading**: a gateway keeps an order book and calls `on_order`,
  `on_trade`, `on_bar` synchronously into user code, which may call the gateway
  again; gateways to real exchanges are used behind the Python risk rules;
- **data**: `CachedAkShareFeed` downloads what the SQLite cache lacks; feeds
  adjust prices, a validator gives the table a badge;
- **monitoring**: `LiveServer` (FastAPI, WebSocket) pushes snapshots and
  updates to browsers, the Streamlit dashboard runs every browser session in a
  thread of one process;
- **operation**: `launcher.py` starts and watches both servers, scheduled tasks
  start launchers in the morning and kill every Python process after the close.

### Components

| Component (source) | State | Operations | Talks to | Modelled in |
|---|---|---|---|---|
| Backtest loop (`core_engine/src/backtest.rs`) | cash, positions, latest prices, order ids, and all it owns | `run_batch` per bar, per order | strategy callbacks, broker, risk, metrics | `BacktestRunner` |
| Order matching (`broker.rs`) | next trade id | `match_order` | called by the loop | `SimBroker` |
| Rust risk manager (`risk.rs`) | daily P&L, its own copy of the positions | `check`, `update_pnl`, `update_position` | called by the loop | `RiskManager`, `BacktestRunner` |
| Trading objects (`object.rs`) | position: net, average price, P&L | `apply_trade`, `mark_to_market` | everywhere | `Objects` |
| Metrics (`metrics.rs`) | equity curve, trades, wins, profit, loss | `record_*`, `finalize` | called by the loop | recording in `BacktestRunner` |
| Event engine (`event.rs`) | running flag, channel, threads | `start`, `stop`, `put_bar` | Python threads and dispatcher threads share flag and channel | `EventEngine` |
| Gateway base, order book (`src/trading/base_gateway.py`) | orders | `add`, `transition`, `open_orders`, callbacks | every gateway | `OrderBook`, `OrderLifecycle` |
| Paper gateway (`src/trading/paper_gateway.py`) | book, cash, positions, latest prices | `subscribe`, `send_order`, `cancel_order`, `process_bar` | user callbacks, re-entrantly | `PaperGateway` |
| Crypto, CTP, XTP gateways (`src/trading/`) | book, connection, ticker stream | the gateway interface, `start_ws` | an exchange over the network | `ExchangeGateways` |
| Python risk manager (`src/risk/`) | the chain of rules, blacklist | `check`, `set_blacklist` | account and position of a gateway | `RiskedExchange` |
| Symbol registry (`src/core/object.py`) | symbol ↔ id maps, process-wide | `get_or_register`, `lookup`, `reset` | backtests in threads | `BacktestSessions` |
| Backtest engine (`src/backtest/engine.py`) | frames labelled with ids | `run`, `_load_bars` | settings, registry, database, Rust runner | `BacktestSessions` |
| Optimizer (`src/backtest/optimizer.py`) | futures, results as workers end | `optimize`, `top_n` | worker processes, the dashboard's thread | `GridOptimizer` |
| Settings (`src/utils/config.py`) | one cached answer, the file | `get_settings`, `reload_settings` | every page, backtest threads | `SettingsPage` |
| Dashboard (`src/monitor/dashboard.py`) | session state, threads | pages | all of the above | `Dashboard` (three of its pages) |
| Bar cache (`src/data/database.py`, `akshare_feed.py`) | SQLite rows by symbol, date | `get_bars`, `has_data`, `latest_date`, `upsert`, `load`, `drop` | data provider; several callers | `BarCache`, `Data` |
| Feeds, validation (`src/data/`) | – | fetch, adjust, normalise, validate, pages | data provider, crypto exchange | `DataFeeds`, `Data` |
| Live server and page (`src/monitor/live_server.py`, `live_ui/`) | clients, latest state, broadcasts | `publish_*`, `broadcast`, connections | browsers; asyncio tasks interleave | `LiveServer` |
| Launcher, scheduled tasks (`launcher.py`, `scripts/scheduler_setup.py`) | child processes, tasks | port check, start, watch, restart, signals, daily kill | operating system | `Operations` |
| Main engine, strategies, indicators, bar builder, calendar, key store, notifier, logger, installers | – | – | – | section 6 |

### What is hard here, and what makes each component correct

- *Callbacks in the middle of an operation* (runner, paper gateway). User code
  runs between the steps of a fill; it may raise, and in the paper gateway send
  and cancel orders of the very bar being processed. **Correct** means: money,
  positions, risk and reports agree at every such point; no order trades twice,
  beyond its volume, or after it is final; a bar settles every order it should.
- *Checks that go stale* (risk in Rust and Python, `has_data`, the port check,
  the registry's test before insertion). **Correct** means: what the check can
  promise, it keeps, and the condition under which it can is stated.
- *Arithmetic at the boundary* (fills that close part, all or more than all;
  partial fills; adjusted prices). **Correct** means: money is neither made nor
  lost by a fill; an adjusted series has no step where none was traded.
- *Threads and tasks without locks* (dispatchers after a restart, backtests over
  one registry, sessions over one settings cache, broadcasts against snapshots).
  **Correct** means: nothing lost, nothing twice, order kept, where a reader of
  the code would rely on it.
- *Partial failure and lost answers* (exchange gateways, downloads, children that
  crash). **Correct** means: what the book, the cache or the launcher believes
  may be out of date, but not wrong in the direction that costs money.
- *Something must happen in the end* (bars, events, searches, pages, ticks,
  restarts of the dashboard): liveness under stated fairness.

## 2 The modules

```
Objects ──┬─ SimBroker ───┐
          └─ RiskManager ─┴─ BacktestRunner ──┬─ MCBacktestRunner
                                  │           └─ BacktestRunnerProofs
                    Ledger ◁──────┴─┐ (refinement, of both)
OrderBook ─┬─ PaperGateway ─────────┼─ MCPaperGateway
           │        │               └─ PaperGatewayProofs
           │        └──▷ OrderLifecycle (refinement)
           └─ ExchangeGateways ── RiskedExchange ── MCExchangeGateways
                     └─────────── ExchangeProofs
EventEngine ── EventEngineProofs
BacktestSessions ─┐
GridOptimizer ────┼─ Dashboard ──┬─ MCDashboard
SettingsPage ─────┘              └─ DashboardProofs
BarCache ──┬─ Data ──┬── MCData
DataFeeds ─┘         └── DataProofs
LiveServer ─┬──── MCLiveServer
Operations ─┴──── ServiceProofs
```

A line is EXTENDS; ◁ and ▷ point from a detailed specification to the abstract
one it implements. `MC…` modules give bars, orders, tables and symmetry for TLC;
`…Proofs` modules hold theorems; those of the runner, the paper gateway, the exchange
gateways, the services and the data layer extend `SumTheorems`, a library of facts about sums
and sublists. `LiveServer` and `DataFeeds` extend `Sublists`, which says what is left of a
sequence at some of its places. A definition whose name has a suffix after an
underscore (`Receive_Newest`) is the one before it with a plausible mistake in
it: no specification uses it, and each property is checked to fail with one.

**Numbers.** Money and prices are integers and percentages are whole. The code's
`f64` quotients become `\div`; the runs choose prices for which every quotient is
exact, so TLC's values are the code's values up to floating point rounding, which
is out of scope. The one rounding the code asks for, `round(3)` of adjusted Tushare
prices, is modelled: there a price is a whole multiple of 0.001.

**BacktestRunner.** The loop is cut where control leaves Rust. `StartBar` takes
the next bar; each `ParseOrder` converts and risk-checks one tuple the strategy
returned; `StartMatching` ends the list; `FillOrder` and `MissOrder` match one
order; after a fill `phase = "notifying"` is the call of `on_trade`, which
returns or raises; `EndBar` marks to market and records equity. An exception
(`StrategyFails`, `TradeCallbackRaises`) leaves `run_batch` with the books as
they are. The strategy is any strategy: each bar it returns any list of orders
from `Requests`, for any symbol. Python cannot re-enter the runner from a
callback, since `run_batch` holds it mutably. `Ledger` is what the runner and
the paper gateway promise of money: cash and net positions move together, in
fills.

**PaperGateway.** `pc` says where control is: in user code at the top level, in
the loop, or in user code called back from the loop after a cancel, a fill, a
trade or the bar. User code may act (`Subscribe`, `SendOrder`, `CancelOrder`)
in any callback. A nested call does nothing after its own callback returned, so
nesting needs no stack. `snapshot` is the list copied from `open_orders()`, and
`reported` and `tradedVol` remember what `on_order` and `on_trade` were told:
they are what a listener knows. `OrderLifecycle` is the diagram of
`docs/phase4_risk_gateways.md`.

**EventEngine.** Events are numbered as they are put. A dispatcher is at
`check` (reads the flag), `receive` (in `recv_timeout`) or `dispatch` (holds an
event and runs handlers). `overlapped` and `late` only record history for the
properties. No code of the repository registers a handler, so what handlers do
is not modelled, only that they are run and return.

**BacktestSessions.** Every browser session runs `BacktestEngine.run` in a
thread. It first asks `get_settings` (`engine.py:80`), whose cache is the one the
settings page clears: those steps are the ones of `SettingsPage`, and a run ends
there when the settings cannot be read. The others are the dictionary operations of
`SymbolRegistry` between which threads may switch: two to clear it, test, count,
two insertions, and the read back. The run ends in `ValueError` without bars, in
`KeyError` when another session cleared the registry, else in the `TypeError` of
section 5. `overlapped` records which runs were not alone.

**GridOptimizer.** Futures of a grid run in at most `Jobs` workers, end in any
order with a score, minus infinity or an exception, and are collected in any
order of those done; the search thread then sorts and stores the result, or the
error, in the session state it sees. That state is not the page's: the thread is a
bare `threading.Thread` without a script run context (`dashboard.py:290`), so
nothing it stores reaches the page, which stays busy (`optRunning`) until it is
loaded anew. The model therefore has no step that hands the result over.

**SettingsPage.** A run of the page looks into the cache of `get_settings`, reads
the file, keeps the answer; with a submitted text it then empties the file,
writes it, clears the cache and reads again. Any other call of `get_settings`, by
a backtest, a download or another page, does the first three (`CallSettings`).
Threads interleave between these steps; the file is edited by hand and the process
restarted at any time. `disturbed` is set when anybody is in the page or in
`get_settings` while a text is saved, or edits by hand, and cleared by a save that
has the settings to itself, or a restart. `Dashboard` joins the three pages.
`Uses` bounds which of them a behaviour shows. A backtest meets the settings page
in one call of `get_settings` only, which `CallSettings` is also without the rest
of the backtest, so the run takes the pages one at a time; the theorems are for
any `Uses`, with all pages in use together as well.

**BarCache.** Each database call of `get_bars` is a step, several callers are
in it at once, days pass while they are, and the provider re-bases prices.
A row remembers the basis it was adjusted to and whether its day was over. `ends`
are the days that end a period of the table's interval: all of them in a daily
table, some in a weekly or monthly one. The provider dates the row of a running
period with the current day (`akshare_feed.py:74-85`), so the next download writes
it under another date and the old row stays behind.

**DataFeeds.** A behaviour is one call of one feed: a table (every combination of
missing values, inconsistent prices, no volume, jumps) through adjustment, rounding,
normalisation, the cut to the dates asked for and the validator's report; or crypto
pages while candles start. Prices are whole multiples of the unit they are rounded
to, `Rounded` takes a half to the even one as `round` does, and a factor is a number
of parts of the factor `One`. An empty table with factors raises (`AdjustRaises`).
`Data` joins cache and feeds for one run: they share no state, so a behaviour is one
of either.

**ExchangeGateways, RiskedExchange.** An external exchange takes, fills and cancels
orders by itself. `send_order` and `cancel_order` may raise although they took
effect. The book holds what the gateway believes under the exchange's number.
`start_ws` awaits its symbols in turn. `RiskedExchange` puts the four rules before
`send_order`, as `docs/phase4_risk_gateways.md` uses them: query the account, query
the position, check, send. Each is a step of its own, and the exchange, connections
and disconnections go on in between. The account of the crypto gateway is any
balance, 0 without USDT and 0 while it is not connected
(`crypto_gateway.py:127-131`), for which the rules approve everything; that of the
others is always 0. `answered.current` notes whether both answers are of the
exchange, the balance is positive and no order was alive, and `misled` that an
order was approved on answers that are not.

**LiveServer.** A publish changes the state and creates a task. A task sends to one
client after the other and is suspended at each send; other tasks, new
connections, disconnects and a restart of the process come in between. The page
renders a snapshot, then events.

**Operations.** Starting a child and noting it in `procs` are two steps, between
which a signal may come; a child binds its port later, or exits if it is taken.
The signal handler tells the children in `procs` to end and leaves without waiting
(`launcher.py:52-55`). Such a child is `closing`, then `draining` (it no longer
listens and finishes with those connected), then gone, each when it likes and with
no fairness. Scheduled tasks start launchers and kill all Python processes;
operators do too.

## 3 The runs

A *pass* run explores every reachable state; a *violation* run checks one
statement that a comment or definition of the repository makes and shows the code
does not keep it (section 5). Type invariants are proved rather than run where
there are proofs.

| Run | Checks | Shows |
|---|---|---|
| `runner` | `RiskMirrorsBooks`, `EquityIsCurrent`, `OrdersNotOverfilled`, `FirstFillWithinCap`, `FillConservesBookValue`, `ImplementsLedger` | Two symbols, orders of either from bars of either, partial fills, flips and callbacks that raise: risk manager, books and equity stay in step; what the position cap guarantees |
| `gateway` | `StatusIsReported`, `PositionIsSumOfTrades`, `NoOrderTradesTwice`, `BarSettlesOrders`, `ImplementsLifecycle`, `ImplementsLedger`, `BarIsFinished` | Callbacks send, cancel and raise in the middle of a bar: reports are true, trades add up to positions, each bar settles its orders, touches no others and is finished |
| `event_engine` | `EachEventOnce`, `DispatchedInOrder`, `LateDispatchesAreFew`, `EventsAreDispatched`, `DispatchersEnd` | Restarts lose and duplicate no event, and reorder events only when dispatchers overlap; threads serve every event and end after a lasting stop |
| `dashboard` | `LabelsTellSymbols`, `BestIsBest`, `SavedIsInForce` | A backtest that is alone may rely on the registry, whatever went before; the best combination is reported in whatever order workers end; settings saved undisturbed are in force |
| `data` | `NoHoles`, `OnlyNewestIsPartial`, `BasisGrowsWithDate`, `CompleteFromOldest`, `AdjustedToNewest`, `BadRowsAreRed`, `CryptoPagesComplete` | What the incremental cache holds and returns, in daily tables and in those of longer periods, alone and when calls overlap. Adjustment keeps the newest prices and all but the rollover steps; inconsistent rows turn the badge red unless rounding hides what is wrong; crypto pages have no hole and, uncapped, reach the newest candle |
| `exchange_gateways` | `NoLiveOrderForgotten`, `CancelledIsCancelled`, `CapHoldsOneByOne`, `TicksFlowIfAllTick` | What the order books may be believed for when answers are lost; when the position limit is kept at the exchange |
| `live_server` | `PageWillBeCurrent`, `TradesReachPage`, `PagesCatchUp` | No page misses an event and all catch up, unless a client is removed under a waiting broadcast |
| `operations` | `ShutdownTellsAll`, `OneOfEach`, `GuiComesBack` | What signals, crashes, tasks and races of launchers leave running untold, and what is started again |
| `runner_partial_close` | violation of `PartialCloseKeepsAverage` | finding 1 |
| `runner_daily_halt` | violation of `HaltEndsWithDay` | finding 2 |
| `gateway_cancel_in_callback` | violation of `OnlyOpenOrdersFill` | finding 3 |
| `registry_threads` | violation of `ThreadSafeRegistry` | finding 4 |

**Conditions in properties.** Several properties hold only while something did not
happen, and say so: `overlapped`, `racedEmpty`, `overtaken`, `raced`, `clean`,
`lost`, `raised`, `disturbed`, `misled`. Each is set exactly when the interleaving occurs that the
code does not guard against, each occurs in the runs, and TLC shows that the
property is false without it; section 5 tells what then happens. `PROJECT.json`
lists a case so excluded as a hazard of its own, without a property, or names it
in the note of the hazard whose property excludes it.

**Bounds.** The state spaces are finite through the constants below; everything
else repeats for ever.

| Run | Bound | Why it is enough |
|---|---|---|
| `runner`, `gateway` | `MaxOrders = 3` | open, then grow, close partly, close or flip, in one bar or over several, with a third order behind one that fails; bars go on for ever. Prices at, inside and beyond each limit; a fill cap below the largest order; a loss on the first of two days for `runner_daily_halt` |
| `event_engine` | 3 starts, 3 events | the least that lets two old dispatchers meet a new one, and shows an order broken among taken and queued events |
| `dashboard` | 2 sessions, 3 symbols, 4 combinations in grids of 0 and 3, 2 workers, 2 texts, one page at a time (`Uses`) | runs, searches and saves repeat without bound; portfolios with a repeated and an unknown symbol, scores with a tie and a failure |
| `data`, cache | 2 callers, 3 days, 1 re-basing, 2 modes, daily rows or periods that end on the second day | a hole needs an old and a new day and one between; a row of a running period before and after an ended one; callers are symmetric (`CallerSymmetry`: the run has no liveness property) |
| `exchange_gateways` | 2 orders at the exchange, 2 symbols streamed, balances of 0 to 3 units | the second is queried for and checked while the first is alive, lost or filled, and with the connection lost in between |
| `live_server` | 2 events, 2 pages, 3 connections | an event may overtake another, a page may come back; trades kept: 2, so the list is cut by a repeated trade |
| `operations` | 2 launchers or orphans at a time | launches, crashes, tasks and days repeat without bound |
| `data`, feeds | tables of up to 3 rows in 16 forms, 3 spans, 8 lists of factors in halves, pages of 2 | two rollovers measured on each other, also when a span ends between them; quotients that round down, up and from the half; a full page, a short one and a candle that starts between |

**Deadlock** is checked in every run. No model ever stops: another bar, call,
launch or restart is always possible (`DataFeeds` stutters once its call returned).

**Fairness.** Safety runs state none.

| Specification | Assumes | Because |
|---|---|---|
| `PaperGateway.FairSpec` | the steps of `process_bar` go on | synchronous code that never waits; callbacks return or raise |
| `EventEngine.FairSpec` | each dispatcher thread goes on | the system schedules it, `recv_timeout` returns within 100 ms, handlers return. Nothing makes Python call `start`, `stop` or `put_bar` |
| `RiskedExchange.RiskedFairSpec` | an update of the awaited symbol is delivered | the event loop runs the coroutine. That symbols tick is a hypothesis of the property, not assumed |
| `LiveServer.LiveFairSpec` | broadcasts go on, pages read | the event loop runs ready tasks; a client that no longer reads is ended by the ping of the WebSocket library |
| `Operations.FairSpec` | each launcher goes on | its loop wakes every two seconds. Nothing makes children bind, crash or, once told to end, be gone |

## 4 The proofs

TLAPS checks the following for every value of the constants that satisfies the
named assumptions (`BrokerAssumption`, `RunnerAssumption`, `GatewayAssumption`,
`EngineAssumption`, `SessionsAssumption`, `SettingsPageAssumption`,
`CacheAssumption`, `GatewaysAssumption`, `RiskedAssumption`, `DataFeedsAssumption`,
…: types, signs, exact quotients, and that there are finitely many symbols), so for
any number of symbols, bars, orders, starts, sessions, callers, days and launchers.
TLC evaluates each assumption in the runs.

**Runner** (`BacktestRunnerProofs`)

| Theorem | Argument |
|---|---|
| `RunnerTypeCorrect` | `TypeOK` is inductive, given that every formula of prices and P&L yields integers (`FillPriceInt`, `ApplyTradeType`, `BookFillType`, …) |
| `RunnerRiskMirrorsBooks` | inductive with `TypeOK`: only `FillOrder` moves either side (`BookFillMirrors`) |
| `RunnerOrdersNotOverfilled` | `ParsedInv`: an order of the list comes from a request, is untouched before the loop reaches it and not overfilled after |
| `RunnerFirstFillWithinCap` | `CapInv`: as long as nothing of the bar is filled, each order of the list keeps the cap from the position held now, so the check is not stale for the first fill |
| `RunnerEquityIsCurrent` | only `EndBar` ends a bar, and it records `Equity` after it marked the position of the bar's symbol, which leaves every net position, so every term of the sum, alone |
| `RunnerFillConservesBookValue` | by the four kinds of fill (opening, adding, closing all, flipping). The average price of an addition is a quotient: the property asks for it to be whole (`AverageIsExact`), as TLC's prices make it |
| `RunnerImplementsLedger` | refinement: `FillOrder` is a `Buy` or `Sell` of the ledger (`FillIsLedgerStep`), the rest are stutters |

**Paper gateway** (`PaperGatewayProofs`)

| Theorem | Argument |
|---|---|
| `GatewayTypeCorrect` | `TypeOK` is inductive; a move of an order leaves a well-typed book (`MoveType`) |
| `GatewayStatusIsReported`, `GatewayNoOrderTradesTwice` | `OrdersInv`: per order, the report is its status, and it traded nothing or its whole volume, nothing as long as it is ACCEPTED. Inductive only with `LoopInv`, by which an order about to be traded has not been traded before |
| `GatewayBarSettlesOrders` | `LoopInv`: each order of the snapshot that the loop has reached is settled; each it has not is untraded and not FILLED, and still ACCEPTED if callbacks cancel nothing; each order of another symbol is untouched. `LateInv`: so is each order sent since the bar arrived |
| `GatewayOnlyOpenOrdersFill` | from `LoopInv` under the hypothesis `~CallbacksMayCancel`; `gateway_cancel_in_callback` shows that the theorem is false without it |
| `GatewayPositionIsSumOfTrades` | `PositionInv`: net position is the sum of the trades reported plus what is `Owed`, the fill whose trade is about to be reported. A fill adds what it owes, a report moves it into the sum (`SumChange`), a callback that raises ends the claim |
| `GatewayImplementsLifecycle`, `GatewayImplementsLedger` | refinements: `Move` is an `Advance` or a stutter, `SendOrder` a `Submit`, a fill a `Buy` or `Sell` |

**Event engine** (`EventEngineProofs`)

| Theorem | Argument |
|---|---|
| `EngineTypeCorrect` | inductive; includes that a thread holds an event just when it is about to dispatch it, so none is dropped when a thread ends |
| `EngineRunningIsServed` | a dispatcher ends only after it read a cleared flag, and `start` always brings one |
| `EngineDispatchedInOrder` | `OrderInv`: while dispatchers never overlapped there is one at most, and dispatched, in hand and queued events follow each other without a gap |
| `EngineEachEventOnce` | `Placed`: every event put has exactly one place, in the queue, one hand, or the record of those dispatched |
| `EngineLateDispatchesAreFew` | `LateInv`: events dispatched since `stop` and threads past the check of the flag are together no more than threads ever started, by cardinalities |

**Dashboard** (`DashboardProofs`)

| Theorem | Argument |
|---|---|
| `BacktestsLabelsTellSymbols` | `SessionsInv`: a session that was alone since it cleared the registry owns it: the maps are inverse, every id is below the number of symbols (`Owned`, `Known`), each label is in them, and the id it counted is the next free one. It says nothing of sessions that overlapped, whose leavings its first two steps clear |
| `SettingsSavedIsInForce` | `SettingsInv`: undisturbed, the session that saves is the only thread in the page or in `get_settings`, backtests included, so what is read stays true until it is kept (`Undisturbed`); without it a reader that began before the save could keep the old text after it |
| `OptimizerBestIsBest` | `OptimizerInv`: results are scores of different combinations of the grid, so when every combination was collected there are as many as the grid has (`AsManyAsCombos`). Sorting: the order of results is total (`OrderIsTotal`), so ranks fill the places from first to last, one each (`PlaceIs`, by counting), and sorting again changes nothing (`SortedTwice`) |

The theorems are about `Dashboard`'s specification, in which backtests, settings page
and search go on together.

**Bar cache** (`DataProofs`)

| Theorem | Argument |
|---|---|
| `CacheTypeCorrect`, and the base invariant `Base` | however calls overlap: a table with rows has a newest one, a fetch in hand ends with the end it asked for |
| `CacheNoHoles` | for any calendar: what a caller is about to write begins at or before the newest row at that moment, because the newest row only moves up and a table found empty was found so by one caller only |
| `CacheOnlyNewestIsPartial`, `CacheBasisGrowsWithDate` | while calls do not overlap: what is in hand was fetched from the newest row on, so it replaces that row if its day ended a period, and its basis is not below it. A row of a running period stays, under a date that ends none |
| `CacheCompleteFromOldest` | action property, from the contiguous table and the facts about the request in progress |

**Feeds** (`DataProofs`)

| Theorem | Argument |
|---|---|
| `FeedAdjustedToNewest` | `TableInv` says at each stage what the table is to the one answered. Shares: a price of factor and divisor is the nearest unit (`RoundedNearest`, `ScaledNearest`), and the newest row, scaled by one factor both ways, is unchanged (`ScaledBySame`). Futures: the shifts are a fold over the set of rollovers; after those at any set of places the table is `Levelled` there, the closes step by nothing at these places and as before at all others, because each further shift moves both sides of every other step (`LevelledOnceMore`). What is cut to the span is a run of neighbouring rows, because dates do not fall (`SpanIsRun`), so the steps of the whole series are its steps |
| `FeedBadRowsAreRed` | with `TableInv`: shifting keeps the order of the prices of a row (`ShiftedInconsistent`); rounding keeps prices that are in order so (`RoundedKeepsOrder`), so makes no row inconsistent, and keeps those apart that differ by more than a unit (`RoundedApart`, `ScaledInconsistent`). Dropping and cutting keep every row that is neither missing nor out of the span (`DropMissingIs`, `InSpanIs`), so the validator counts it |
| `FeedPagesComplete` | `PagesInv`: while pages are asked for, the candles fill whole pages and end right before the next one asked for, and that is at most the one after the newest, which only grows. A page is short only if it ends with the newest, or the exchange caps it (`AnswerIs`) |
| `DataIsBoth` | a behaviour of `DataSpec`, which the run checks, is one of the cache and one of a feed, so it has all of the above |

**Exchange gateways** (`ExchangeProofs`)

| Theorem | Argument |
|---|---|
| `GatewaysTypeCorrect`, `CryptoBookIsReported` | parts of `GatewayInv` |
| `ExchangeNoLiveOrderForgotten`, `ExchangeCancelledIsCancelled` | `GatewayInv`, which adds `NeverMoved`: only the crypto gateway moves an order of its book, so XTP's order number 0, which is no order of the exchange, is never called cancelled |
| `RiskedTypeCorrect` | the gateways behind the rules are the gateways (`RiskedIsGateways`), and every order the exchange numbers was approved |
| `ExchangeCapHoldsOneByOne` | `RoomKept`: besides what is held there is room for the one order that is approved or alive, if it buys. It rests on `OneAtATime`: unless the sender was `misled`, there is at most one such order, also when its `send_order` raised and nobody knows of it; and on `AnswersHold`: a position that was answered while nothing was alive stays what is held until an order is sent, so the check, a step later, is not stale, whatever the exchange and the connection do in between |

**Sums** (`SumTheorems`). What `SumFunctionOnSet` computes is a recursion over the
set. The module proves what the others use, for any finite set and whole numbers:
the sum is a number, adding or removing a member adds or removes its value, and
changing one value changes the sum by the difference. The induction is over the
subsets of the set, with the set of those that violate the claim in the place of
an induction hypothesis (`SubsetInduction`). It also says which member of a sublist
comes from which place (`SublistIs`).

**Operations** (`ServiceProofs`)

| Theorem | Argument |
|---|---|
| `OperationsTypeCorrect`, `OperationsShutdownTellsAll` | `Tracked`: every child of a launcher that runs is in `procs` or was just started, so telling those in `procs` to end leaves none untold unless one is loose (`LeftByIs`) |
| `OperationsOneOfEach` | `OneActive`: unless launches raced, all launchers but one have no child but those told to end, and start none. A draining server, whose port is free, does not count: it may run beside the next one |
| `OperationsNoAutoRestart` | action property: only `StartChild` starts a live server, which a launcher past its start does not take |

**Live server** (`ServiceProofs`)

| Theorem | Argument |
|---|---|
| `LivePageWillBeCurrent` | `LiveInv`, of which `PagesOK` is the claim: a page that has read its inbox, then the messages of the broadcasts that have still to send to it, is current. A send moves a message from the one to the other, which changes nothing if no earlier broadcast has still to send to that page (`FirstForNobody`). That follows from `SentInOrder`: clients stand in each broadcast in the order they came, and a broadcast has no client before it that a later one has passed, unless a client was removed (`overtaken`). A page that connects is current because the messages nobody was sent yet are news (`NewsAre`): the snapshot shows all they say |
| `LiveTradesReachPage` | with it: the trades of the snapshot and then those of the news are the server's with one stretch twice (`TwiceJoined`), and a further trade keeps them so (`TwiceNext`) |

What a page shows is a fold of messages. `FoldLeft` is a recursion over the set of
indices, so the lemmas about it (`SeenAppend`, `SeenHead`, `SeenRemove`, `SeenOver`:
what a page shows is what the messages put on top of what it showed) go by
`SubsetInduction` and by sets of lengths. `WithoutIs` says what removing
clients leaves of a list.

Every strengthened invariant was checked with TLC before it was proved.

**Model-checked only.** Every invariant and action property that a passing run checks is
stated by a theorem. The liveness properties (`BarIsFinished`,
`EventsAreDispatched`, `DispatchersEnd`, `TicksFlowIfAllTick`,
`PagesCatchUp`, `GuiComesBack`) are beyond the prover, which does not reason about
fairness and ENABLED.

## 5 What was found

Checked by a violation run:

1. **A partial close resets the average price** (`object.rs:190`). Any closing
   fill that leaves something open sets `avg_price` to the fill price; its comment
   says this is for a flipped side. Later P&L, the win rate and the loss halt are
   measured from it. Equity is not affected: it is cash plus market value.
2. **The daily loss halt lasts for the backtest** (`backtest.rs:164`, `risk.rs:62`).
   The loop adds every P&L to `daily_pnl` and never calls `reset_daily`, so once the
   loss is beyond `daily_loss_limit` no later day sends an order.
   `docs/phase4_risk_gateways.md:38` speaks of intraday P&L and the test
   `reset_daily_clears_pnl` (`risk.rs:130`) of a new day that clears it.
3. **A cancelled order is filled** (`paper_gateway.py:175`). A callback that
   cancels an order of the bar being processed is told it is cancelled, and then
   the order trades: cash and position move before the transition is refused.
4. **The registry is not thread-safe** (`core/object.py:20`), though its comment
   says so: two threads may give two symbols one id, and bars and trades of one
   are taken for the other's.

Seen while modelling; the models have these behaviours, and the properties are
stated around them:

*Backtest runner and risk.* The position cap is per order: all orders of a bar are
checked against the position before it (`backtest.rs:142`). The Python position limit counts neither pending
orders nor, for market orders, any price (`rules.py:34`); the account of CTP and XTP
is a balance of 0, and so is that of the crypto gateway without USDT or while not
connected: every rule about it then approves any order. No gateway answers the P&L
the loss rule looks at.

*Paper gateway.* A limit order may fill beyond its limit by the slippage
(`paper_gateway.py:124`). The first bar of a subscribed symbol has 0.0 as previous
close, so it cancels every pending buy (`:98`). When `on_order` raises, a trade is
never reported, though the books move (`:176`). None of these breaks the ledger:
`GatewayImplementsLedger` is proved with such callbacks included.

*Exchange gateways.* None listens to fills, so a filled order stays open in the
book. XTP's order number 0 (not taken) is not looked at. `disconnect` leaves the
ticker stream running; `connect` of the crypto gateway keeps its exchange object
when `load_markets` raises, so orders can be sent without markets. A symbol that
falls silent holds up the ticks of all others.

*Backtests and dashboard.* A grid search stores its result from a thread that has
no script run context (`dashboard.py:290-327`): the page never sees it and shows the
search as running until it is loaded anew. `BacktestEngine.run` constructs the Rust runner with
keywords it does not have (`engine.py:154`), so every backtest of the dashboard
ends in an exception. Settings that are YAML but that `Settings` refuses are
written first and refused on reloading: the cache is empty then, every later
`get_settings` raises, and the page that could repair the file no longer renders.
`write_text` empties the file first: who reads it then gets silent defaults.
A save that overlaps
another, or a backtest that is reading the settings, may leave old settings in the
cache. Risk rules that a trading
process has made keep their old limits.

*Data.* Two calls that find the table empty may leave a hole that is never filled.
Days before the oldest cached day are never fetched; `force_refresh` downloads only
from the newest row on, although `docs/phase2_data_layer.md:51` says it downloads again and overwrites the
cache; the same document's statement (line 221) that prices are stored "raw unadjusted" is not so: rows are
stored adjusted, in the basis of their day of download, and one table mixes bases
and modes. The feeds drop rows with missing values before the validator counts
them, so it never reports any. A failed futures download is an empty table, whose
badge is green. A newest day without factor puts tushare's qfq prices on another
scale, and an empty table whose factors are not raises `IndexError`
(`tushare_feed.py:80`). Rounding may make an inconsistent row consistent. In weekly
and monthly tables the row of a running period stays behind, beside the one that
replaces it (`akshare_feed.py:74-85`). A future's dates are cut out after adjusting,
so the last row asked for need not be at the price it traded. An exchange that caps pages below 1000 candles answers only one page, and
`end` cuts off the candles of the last day after midnight.

*Live server.* "Snapshot on connect (no missed events)" (`docs/phase5`) holds
unless a client is removed while a broadcast waits to send to it: then later
broadcasts overtake, and older values stay on other pages.

*Operations.* `--live-only`, which the launcher advises after a crash of the live
server, is refused while Streamlit holds its port (`launcher.py:36`). A signal
between starting and noting a child leaves it running, and every later launch is
refused. Two launchers may check the ports together. The kill after the close also
ends the crypto server that is to run around the clock, until the task of the next
midnight. A stopped launcher does not wait for its children: a server that drains
its connections may run beside the one the next launch starts.

## 6 Not modelled

- **Main engine** (`core/engine.py`, `run_live.py`): it reaches no running state.
  With the crypto gateway `connect` raises `TypeError` for keywords it does not
  take, XTP raises `ValueError`, CTP never connects, and strategies have no `init`.
- What follows the `TypeError` in `BacktestEngine.run` (`_on_bar`, `_on_trade`, the
  report), and `run_backtest.py` around it: no run gets there.
- `BarBuilder` and the trading calendar: no code calls them.
- `Metrics.finalize` and indicators: floating point statistics.
- Strategies: `BacktestRunner` and `PaperGateway` admit any orders.
- Key store, notifier, logger, helpers, the dashboard's other pages,
  `install_service.py` (which cannot run: its class is no service framework class)
  and `setup.sh`: files, mail and formatting, with no state that another part
  relies on.
- The end of the range in `CryptoFeed.fetch_bars` (`crypto_feed.py:88-90`), which
  cuts candles off the end of those modelled.
- The exchange's side of a cancel is one step: an exchange that only acknowledges the
  request and cancels or fills later is outside `CancelledIsCancelled`. So is a ticker
  that raises: `TicksFlowIfAllTick` counts it as delivered, as the loop goes on after it.
- Publishing without a running event loop (`live_server.py:122-152`), from another
  thread or before the server runs: the state changes and `create_task` raises.
- `CryptoWebSocketFeed`: its loop is that of `CryptoGateway.start_ws`. The choice
  of the remote call by interval in the feeds.
- `RiskManager.reset_daily` and `filter` (Rust), called by tests only;
  `publish_tick`, which no page renders.
- Order ids given by the caller (`OrderBook.add` of an id that is there) and
  `process_bar` called from inside a callback: no code does either.
- Floating point rounding, other than `round(3)` of adjusted Tushare prices.

## 7 What could follow

1. `OneOfEach` for launchers that take a lock before they check the ports, should
   the launcher get one; likewise `ThreadSafeRegistry` and `NoHoles` without their
   conditions, for a registry with a lock and an upsert in one transaction with
   its check.
2. The main engine and the backtest callbacks, once the calls named in section 6
   match what they call.
