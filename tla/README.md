# HeavenlyCapital: a verification project in TLA+

HeavenlyCapital is a Python trading system. One kernel process lives through one trading day:
it loads models and sessions, streams quotes from Interactive Brokers, turns target portfolios
into orders, routes them, follows their executions into PostgreSQL and into the portfolios held
in memory, and ends when the market closes. A launcher starts the process again, the next
morning or after a failure. This directory models the parts of the system whose correctness
depends on the order of events: threads, callbacks of the broker, failures of the database or
the broker, crashes and restarts. Paths below are relative to `src/src/heavenly_capital/`
unless they start with `src/`.

## 1. The system

| Component | State | Operations | Talks to |
|---|---|---|---|
| Launcher (`src/launcher.py`) | crash times of the circuit breaker | run the kernel, act on its exit code, wait for 04:00 New York | the kernel, by its exit code |
| Kernel (`core/kernel.py`) | today's session row, `_pre_market_event`, `recovery_mode`, the market threads | bootstrap, strategic setup, market setup, market recovery, shutdown, clock handlers | the database (session row), every module |
| Clock (`core/clock.py`, `core/calendar.py`) | market state of the last heartbeat | heartbeat each second, notify changes | schedules coroutines of the kernel on the main loop |
| Thread manager (`core/thread.py`) | named threads, stop events, job queues | start, submit, stop and join | runs `order_router`, `runtime_loop`, `db_writer` |
| Order manager (`trading/order_manager.py`) | staged orders by contract | stage, authorise, route, persist callbacks | portfolio manager and risk manager (dispatch), router |
| Order tracker (`models/order.py`) | status, quantities, counters of fills and commissions | submit, fill, commission, cancel, reject | order manager, portfolio manager (callbacks) |
| Order router (`trading/router.py`) | two deques, condition variable | route, pop, hand to the sink | order managers, gateway |
| IBKR gateway (`ibkr/gateway.py`, `ibkr/client.py`) | registry of trackers, clients | place orders, handle status, fill and commission reports, replay the day's fills | broker, trackers |
| Portfolio manager (`trading/portfolio_manager.py`) | positions, balances, live orders | load targets, rebalance, authorise, book filled orders | order manager, database |
| Risk manager (`trading/risk_manager.py`, `models/risk.py`) | stop-loss status per position | follow prices and fills, send a SELL | live hub, order manager |
| Session manager (`trading/session_manager.py`) | trading sessions, `staged_orders.pkl` | initialise, load, stage, save and restore orders | kernel, portfolios, gateway |
| Database (`db/`, `src/sql/`) | sessions, orders, executions, lots, ledger, portfolios | one transaction per event | trackers, kernel |
| Data hubs and bus (`data/`) | 5-second bars, resampled candles, subscriptions | aggregate, resample, fill gaps, publish | gateway, features, risk managers |
| Feature and forecast engines (`strategy/`, `models/market_data.py`) | ring buffers, feature values | process candles, run predictions | data hubs, portfolio managers (signals) |
| Log service (`monitoring/log_service.py`) | queue of records | batch and persist | database |

### What is hard

The process is one asyncio main loop with three threads next to it. Signals reach the portfolio
and order managers on `runtime_loop`; orders leave on `order_router`; the broker's reports and the
clock's handlers run on the main loop between two awaits of the kernel's procedure; snapshots and
bars are written on `db_writer`. A status report, an execution and its commission are separate
events, any of which may come late, and each opens its own database transaction. The process can
be killed at any point, and the next one knows only the database and two files. The kernel's exit
code is all the launcher sees. `PROJECT.json` lists the hazards, each at its line, with the
properties that watch it.

### What makes each component correct

* **Router**: nothing routed is lost or handed over twice, orders of one mode keep their order,
  live orders go first, and a stop drains what was routed before it.
* **Orders**: an order's life has one direction; tracker, broker and database agree unless a
  statement or a report was refused; a filled order is booked exactly once.
* **Kernel and launcher**: a session only advances, whatever dies in between; its targets are
  turned into orders at most once; a session closed in the database has no thread at work; an
  outage is followed by the same session running again; every open day is served.
* **Recovery**: an order sent today is sent again only for a known reason; what the broker
  executed while the process was down is in the database after the replay; nothing is stored
  twice; a staged order is sent in the end.
* **Risk**: a position armed once is sold at most once by each thread; the store of the monitor
  follows the portfolio; a position waits in PENDING only for a sale; a breach is sold.
* **Books**: lots, consumption, positions, ledger and balance are one set of books whatever is
  replayed or refused; an execution is refused only out of order; a commission is counted once.
* **Live feed and workers**: no price is lost, repeated or reordered on its way into a bar;
  batches and log records are stored in order; no job ends `db_writer`.
* **Candles and features**: a candle holds every tick of its span; the ring never shows the
  cells of another candle; derived features lag by one candle at most.
* **Forecasts**: each prediction reaches each portfolio that asks for it, once; in a process that
  did not begin with a recovery none raises, as long as the universe serves the plan.

## 2. Modules

| Module | What it is |
|---|---|
| `OrderDelivery` | abstract: what routing promises (exactly once, priority, first come first served, closing drains) |
| `OrderRouter` | `GlobalOrderRouter` and its thread, one action per critical section |
| `OrderPromise` | abstract: what a tracker promises (one direction, booked once, after FILLED) |
| `OrderLifecycle` | authorisation, sink, broker reports, `OrderState`, database rows, booking |
| `OrderProofs` | theorems about the router and the lifecycle |
| `Kernel` | the kernel process and the clock handlers, with the durable session row |
| `TradingDay` | `Kernel` composed with the launcher and the passing of time |
| `TradingDayProofs` | theorems about it |
| `Recovery` | the staged orders of a portfolio across crashes and days: `staged_orders.pkl`, the replay, the dispatch |
| `RecoveryProofs` | theorems about it |
| `FillLedger` | what executions and commissions become in the database: lots, positions, ledger, balance |
| `FillLedgerProofs` | theorems about it |
| `RiskMonitor` | stop-losses, the threads that trigger them, the portfolio they follow |
| `RiskMonitorProofs` | theorems about it |
| `LiveFeed` | ticks into bars, the batches of `db_writer`, the log and its worker |
| `LiveFeedProofs` | theorems about it |
| `Candles` | pure: the resampling cascade and the ring of rows |
| `Forecast` | pure: positions and actions, the prediction plan and its routing |
| `MarketData` | `Candles` and `Forecast` composed: `runtime_loop` from bars to signals, snapshots, recovery |
| `MarketDataProofs` | theorems about it, and the lemmas about the operators of `Candles` and `Forecast` |
| `SumLemmas` | lemmas about sums over finite sets, for the proofs |
| `MC*` | values of the constants for TLC, one module per composed system |

### OrderRouter

`live` and `paper` are the two deques, `seq` the sequence number, `stop` the event of the managed
thread, `loop` the place of `_order_router_loop`: about to test the outer `while` (`check`),
holding the lock (`locked`), in `cv.wait` (`waiting`), in the sink, or returned. `RouteOrder` is
the critical section of `route_order` including `notify_all`. `WaitTimeout` is the half-second
timeout. `CallSink` may raise; the loop prints the exception and goes on. `arrived`, `popped` and
`early` are history. An `OrderManager` routes a tracker once (it pops it from its staged orders or
has just created it), hence the guard of `RouteOrder`. Routing after the stop is possible, and
such an order may stay in its deque: `DrainedAtStop` and `EventuallyHanded` speak of orders routed
before the stop.

### OrderLifecycle

The orders of one portfolio and one instrument. `Authorize` and `Track` are the two halves of
`_process_authorization`: the order is routed first and `PortfolioManager` sets
`on_fully_filled` after, so another thread may run between them. `OnMain` says on which thread an
order is authorised: the orders the kernel authorises itself on the main loop, where no gateway
handler can come in between, the others on `runtime_loop`, where it can. `OrderSink` registers
the tracker and places the order on the router thread, or raises. `OnOrderStatus`, `OnFill` and
`OnCommission` are the three handlers of the gateway with everything they call: the transition of
`OrderState`, its persistence, and the booking when it is due. A handler that raises is stopped by
`_wrap_event`, so what it did before stays done and the rest is not done.

The broker is external. The wire keeps the order of what it carries about one order, and nothing
reads the broker's state before a report arrives, so a report is sent and handled in one action.
The broker may send `Submitted` again, fill before the first status report, cancel or reject.

The database is modelled by what its constraints do: an execution needs the row of its order; a
SELL needs open lots; the ledger entry of a commission needs the row of its execution; a statement
may be refused for other reasons (`MaxDbFailures`). `update_order_in_db` inserts and updates in
two transactions, which `PersistStatus` splits when the database refuses one. Prices, cash and
balances are left to `FillLedger`.

### Kernel and TradingDay

`row` is the table of sessions, by date: the only thing that survives a process. `pc` follows the
procedure from await to await: `boot`, the first and second half of the strategic setup, the two
market procedures, `initialize` (in `initialize_market_setup`), `stand_by` (waiting for the
pre-market event), `streaming`, `starting` (the sleep before orders are loaded), `running` (in
`client_manager.wait`), `hung` (the main thread is gone, `runtime_loop` is not). `events` are the
coroutines the clock has scheduled and the loop has not run. `OnMarketClosed` runs in two steps
because `stop_market_runtime` awaits; `closing` lies between them. `Shutdown` is a `SystemExit`
or an exception out of `asyncio.run`: the process ends unless `runtime_loop`, which is not a
daemon thread, is still running.

`ProcedureFails` is any exception of a procedure (the exit code tells which kind). Besides what a
procedure calls, its writes to the session may fail (`Written` is the next one): the session in
memory has changed by then, and the handler of the exception, if the database answers again,
writes that change together with the error flag. `Killed` is any end without an exception,
`CloseFails` an exception in the closing handler. `TradingDay` adds the launcher (`RunMain`,
`ChildExits` with the circuit breaker, `Wake`), the operator who restarts a stopped launcher, and
`Tick`, which moves through the parts of the day (the night in two parts around midnight) and
schedules the handler of a changed market state. Steps of a process take minutes and parts of a
day hours, so time that passes while something is still to be done counts as a fault, and so does
a launcher first started after the opening.

### Recovery

The orders of one portfolio over several days. What survives a process is `session` (the row of
today's session), `file` (the orders in `staged_orders.pkl`), the database (`row`, `dbExecs`,
`lots`) and the broker's `trades`, one per sending; `pending`, `queued`, `registry` and `todo` are
memory and vanish with the process. `Start` reads the session row and sets `recovery_mode`. A
first process of the day goes through `LoadPortfolioOrders` and `SaveStagedOrders`, a later one
through `RebuildTrackers`, one `ReplayDailyFills` per trade of today, `StageRemaining` and
`DispatchRemaining`: what remains, by the filter `SentToday` (the query of
`get_sent_order_refs_today`), is staged by a direct call and once more by the order manager to
which it is dispatched, while `runtime_loop` may authorise. `Dies` may come between any two of these
steps. Authorisation and sending run on other threads, so they are possible between loading and
saving as well.

A trade at work may show a status other than Submitted: `Pending` stands for PendingSubmit,
ApiPending and PendingCancel, which `apply_status` maps to nothing and before which the replay does
not call `submit`; ValidationError is mapped to SUBMITTED. The row takes either (`Uncounted`), and
the query of sent orders counts neither. The history variables `skipped` and `restaged` name the
orders to which this, or the double staging, has happened.

The handlers are functions of a record with the tracker, the row, the executions and the lots of
an order, because the replay calls several in a row: `ReplayTrade` is `submit`, then
`_on_order_status`, then `_on_fill` for each execution, and what raises ends the replay of that
trade. A crash in the middle of a replayed trade is covered by a crash before it, since the next
replay repeats the trade from a fresh tracker.

The broker is external: one trade per sending, executed share by share, remembered on its day,
cancelled when the day ends (tif DAY). A report that reaches a process which does not know the
order, or none, is lost. Nothing is handled while the main loop runs without an await: between
loading and saving, during the replay, and between the two stagings. An order whose contract does
not qualify makes `_create_tracker` raise in the restoration, which ends the start of the process;
`Dies` covers it.

Left out here and modelled in `OrderLifecycle`: refused statements, commissions, booking into the
portfolio in memory. A missing file is a file without orders. What the portfolio in memory holds
after a recovery is not modelled.

### FillLedger

The tables behind `db/writer.py` for one portfolio. The day's executions (`report`) are fixed and
numbered in the order of the broker; `OnFill` hands the next one to the process, `OnCommission`
its commission in any order. `OfferFill` is `update_fill_in_db`: known executions are left alone,
`UpdateFill` writes the execution, opens or consumes lots (`HandleBuy`, `HandleSell`), computes
the position anew (`InsertPosition`) and writes the ledger, and `RolledBack` is the transaction
that raised. `Consumed` is the FIFO loop of `_handle_sell` in closed form. The hook that books the
order and refreshes the balance runs with the last report of a filled order, and only for trackers
that have one. `held` is the quantity of each instrument in memory, moved once per order
(`BookedQuantity`); a booking that makes it negative or divides by zero (`BookingRaises`) does not
reach the balance row. `Restart` loses the process at any point, during a replay as well, reads the
positions from the database, lets the broker go on, and leaves the day's fills in `toReplay`;
`ReplayFill` offers them again, and one that raises ends its trade.

The trackers are taken to be in a state that accepts fills (`OrderLifecycle` covers the others).
`RegisterCapitalEvent` is one step, though the code commits the event and the balance separately:
a balance computed in between is one from the same tables. Amounts are whole numbers.
`BrokerAssumption` is about the broker, which is external: it stamps executions as they happen and
never sells what is not held.

### RiskMonitor

Two threads reach `_trigger_execution`: the main loop, through the price callbacks of
`TickerManager` outside market hours, and `runtime_loop` (`feed`), through the STOP_LOSS signals
in market hours. Nothing locks the store, so the trigger is split where a thread may be
interrupted: `CheckMonitoring`, `MarkPending`, `SendOrder`, `TrackOrder`; the clock may turn
between any two. `chain` follows the callbacks of the main loop, first the refresh of the
portfolio and then the monitor, session by session; `get_ticker` raising ends all that follow.
`FullyFilled` is the last report of an order with the booking and the messages to the monitor;
`Ended` is a cancellation or rejection, of which nobody is told. `AuthorizeRebalance` are the
orders of the rebalance, of one share, that interfere.

### LiveFeed

`AddPrice` and `AddVolume` are the two appends of `OHLCAggregator.add` on the main loop;
`SwapPrices` and `SwapVolumes` the two swaps of `flush` on `runtime_loop`. One statement is not
interrupted (the interpreter's lock), two are. `SubmitBatch` hands the interval to `db_writer`,
whose job loop is `GetJob`, `RunJob` and `WriterLeaves`. `stage` is the order of
`_stop_market_threads`. `Log`, `KeepRecord`, `FlushLog` and `LogWorkerDies` are the log service:
the batch is looked at only when a record has come. One of the three kinds of price is modelled
(they do not meet), and the list of time stamps, which nothing reads, is left out. `FirstStep` is
where the loop over the pipelines begins: without a pipeline it is the submission.

### Candles, Forecast and MarketData

`Candles` has the resampler and its cascade (`PushedCascade`) and the ring of `MarketDataBank`
(`UpdatedBank`, `View`); of an OHLC it keeps the span and the number of ticks. `Forecast` has the
query `fetch_positions_and_targets` (`Action`, `Positions`), the plan and the routing of
`_build_plan_and_routing`. Its rows are of any contract, in the universe or not: a contract that
fails to qualify leaves the universe, and its positions and targets stay. A model is a row of
`get_forecast_models_configs`, one per portfolio that has it; its id is its name without the
version, and `ModelPool` keeps the last row of an id (`Pooled`). `Weighed` are the positions to
which the query gives a weight.

`MarketData` runs them as `_runtime_tick` does: `StartTick` publishes the bars of the intervals
that are due, `IngestBar` pushes one through the cascades, `ProcessEvents` computes features up to
the next instrument's events, `FinishTick` takes the feature snapshot, predicts, routes, and once
a minute submits `_snapshot_market_data`, whose two files are two steps of `db_writer`
(`SaveBanks`, `SaveManager`) while the loop goes on. `Crash` may leave the file being written
torn. The files have no date and are not removed: `NextDay` is the first process of a later day,
which does not read them, and whose recovery, after a crash before its first snapshot, does.
`Recover` is the restore with `_market_data_recovery`: the gap is filled from the later of the two
time stamps with the last closes, and the events go through the engine in recovery mode.

The bars of an instrument are the same for every kind; the two queues between hub and engine,
which one thread empties one into the other, are one. `db_writer` and a crash interrupt the loop
between instruments and not within the push of one bar. A feature is the time of the row it used;
`Present` are those a snapshot has, by instrument and frequency, and `Raises` is a prediction that
asks for another, or for an instrument outside the universe.

## 3. Runs

| Run | Instance | States | What it shows |
|---|---|---|---|
| `order_router` | 2 live and 2 paper orders | 51 071 | six properties below |
| `order_lifecycle` | two BUYs of 1, SELL of 2, nothing held, 2 status reports of the SELL and 1 of each BUY, 1 refused statement | 507 398 | seven properties below |
| `fills_persisted` | the same, nothing refused | violation | an execution can be lost for good |
| `trading_day` | 3 days, the second closed, rebalances on the others, 3 faults, breaker at 3 | 43 699 | seven properties below |
| `rebalance_skipped` | the same with 1 fault | violation | a rebalance can be skipped |
| `recovery` | 2 days, an order of 2 shares on the first and of 1 on the second, 2 faults, 2 sendings of an order | 1 103 797 | three properties below |
| `stale_file_resent` | the same with 1 fault | violation | filled orders of an earlier day are sent again |
| `partial_resent` | 1 day, 1 fault | violation | a partly executed order is sent again in full |
| `fill_ledger` | 4 executions of 2 instruments in 4 orders, 1 withdrawal, 2 restarts | 1 264 474 | five properties below |
| `risk_monitor` | 2 portfolios, before, in and after market hours, 3 orders | 634 102 | four properties below |
| `live_feed` | 2 instruments, 3 intervals, 2 ticks, 2 log records | 1 123 369 | three properties below |
| `market_data` | 3 instruments, 2 kinds, levels of 2 × 2 bars, ring of 3 rows, 5 intervals, 1 crash | 369 444 | five properties below |

**order_router.** `ExactlyOnePlace`, `FifoPerMode`, `DrainedAtStop`; `EventuallyHanded` under weak
fairness of the router thread; `ImplementsDelivery`, the refinement of `OrderDelivery` with its
liveness. Two orders of each mode are the least with which one order can overtake another of its
mode while the other mode interferes. The run has no symmetry because it checks liveness.

**order_lifecycle.** `BookedAtMostOnce`: the last fill and each later commission all test whether
to book, and one finds it due. `TrackerFollowsBroker`: without a refused execution, quantities,
counters and FILLED agree with the broker. `DatabaseFollowsTracker`: without a refused statement,
a refused execution of a BUY or overselling, the executions stored add up to the filled
quantities. `PortfolioFollowsDatabase`: with every executed order booked, the position in memory
is the position of the database; a SELL booked before its BUY is inside the property. Both speak
of refused executions of any BUY, not of the order alone: the lots that one leaves missing refuse
a SELL later. `TerminalIsFinal`: late reports do not bring an order back. `EventuallyBooked`: what
was authorised on the main loop and filled is booked in the end. `ImplementsPromise`: refinement
of `OrderPromise`. The SELL can be filled in two executions, one before and one after the second
BUY, and nothing is held at first, so it needs the lots of both and every order of fills,
commissions and bookings of the three occurs.

**trading_day.** `SessionAdvances`: the row of a session goes through strategic in progress,
strategic completed, market in progress, market completed, one at a time. `SessionLoadsOnce`,
`CompletedMeansStopped`, `RecoveryResumes` (a recovered session does not sit out trading hours),
`OutageRecovers` (an outage leads back to `running` on the same day unless another fault comes),
`OpenDaysServed` (with no fault every open day is completed and every rebalance loaded). Three days
hold a closed day between two open ones; three faults open the circuit breaker or let a failure
hit the recovery from a failure.

**recovery.** `ResentWithReason`: an order is sent a second time only if the broker has ended its
first trade with shares left, that trade is of an earlier day, the row was at a status the query of
sent orders does not count when it was staged, or the order was authorised between the two
stagings; otherwise not, although the process may die between the sending and the row in
`trading.orders`. `ReplayCompletes`: after the replay the database has every execution of an order
the broker still works or has filled, also those nobody heard of, except of an order sent twice,
cancelled, or pending when replayed (its tracker then refuses the executions); and replaying what
was stored live, or replaying again after a second crash, puts no share into the lots twice.
`StagedIsSent`: an order in today's file is sent in the end. Two faults let the recovery itself be
interrupted; the second day makes the file one of an earlier day; with two sendings every reason of
a second one occurs.

**fill_ledger.** `BooksBalance`: the cash spent is the cost of the open lots, and the rest of its
change is realised profit less commissions; four tables written by different statements agree
after every transaction. `PositionIsOpenLots`: the position, computed from executions sorted by
time and text, is what the lots, consumed in order of id, have left. `RefusedOnlyOutOfOrder`: an
execution is refused only when a purchase before it is not stored, when one of the same second has
an identifier that sorts after it, or when a later sale is already stored, as a replay that goes
trade by trade brings about. `CommissionAccounted`: the ledger lacks a commission only while its
report is to come, or because the report met no process or no row. `SettledBalanceIsFresh`: when
every order with executions was filled, reported and booked by one process and no position in
memory is negative, the balance row is the one the ledger gives; a sale booked before its purchase
raises before the row is refreshed, and a negative position is its trace. The days vary sides,
quantities and seconds; identifiers sort backwards, so that the three reasons of a refusal occur,
one day sells two purchases by one order that may be booked between theirs, and restarts may come
before, between and after all of it and during the replay.

**risk_monitor.** `TwoSellsPerArming`: the unlocked check lets each thread through once, so a
position is sold twice at most before it is armed again. `StoreFollowsPortfolio`: the store has
the quantity of the portfolio, watches or sells what is held and does not watch what is closed.
`PendingHasSale`: a held position is PENDING only with a sale on its way, ended by the broker, or
filled before its hook was set. `BreachedIsSold`: outside market hours a watched position at its
threshold is sold, unless a position of its session or an earlier one has no quote. Three orders
allow two sales of one position and a rebalance order between them; of the two portfolios the
first may hold an instrument without quote and contract.

**live_feed.** `TicksConserved`: no price is lost, repeated or moved past another; a volume is
lost only when a flush came between the two appends of its tick; no bar but the first of the
process holds older ticks than its interval. `StoredInOrder`: batches are stored in the order they
were submitted or fail alone, and of the log nothing is missing but what is from the failed batch
on. `BatchesHandled`: a submitted batch is stored or fails unless the thread is told to stop.

**market_data.** `CandlesAreTrue`: a candle has the length of its frequency, begins where the one
before ended and holds every tick between; only the first of a recovered process is exempt.
`BanksAreTrue`: a cell of the ring holds the candle that ended with its row or nothing; in rows
since the start time grows, the counter of the first kind is right and cross_asset features of
that kind are computed over whole rows. `DerivedFollows`: between two ticks derived features have
used every candle of their frequency but the last, after a recovery of frequency 0 only.
`SignalsRouted`: each prediction reaches exactly the portfolios whose rows ask for it, once; the
portfolios hold an instrument, aim at it without holding it, hold it without a market value, or
share it, and one model is in two rows, another has versions of two types. `RaisesOnlyRecovered`:
nothing raises in the loop of a process that did not begin with a recovery, if every planned
instrument is in the universe and every planned model takes features of frequency 0, as in the
instance. Five intervals complete a candle of the second level and begin the next, use two of the
three rows of the ring of frequency 0 again, and leave room for a crash at any point with a gap to
fill, on the first day or a later one. With three instruments one can be ahead of another while
the third is still to come, which two do not show of the set of those seen. The second instrument
trades in one interval only, so bars without ticks occur at each level.

**fills_persisted** (violated). README line 67 promises the full persistence of the order
lifecycle. `OrderState.apply_fill` raises for an order still in state CREATED, before it changes
anything, and a `Filled` report causes no transition; so an execution delivered before the first
`Submitted` report reaches neither tracker, database nor portfolio. `replay_daily_fills` calls
`submit()` first for this case, the live path does not.

**rebalance_skipped** (violated). README lines 356-357 promise the rebalancing on the scheduled
date. When the first market process of a session ends before `load_portfolio_orders` ran, every
later process of the day takes the recovery procedure, in which `load_portfolio_orders` returns
at once: the session completes without having computed the rebalance.

**stale_file_resent** (violated). A comment of `restore_sessions_staged_orders`
(`trading/session_manager.py` line 357) says that only the remaining orders are dispatched. The
file carries no date and is neither removed nor emptied when the day ends. When the first market
process of a day dies before it has saved, the next one recovers from the file of an earlier day:
the broker lists none of its trades, no row was created today, and orders filled on the earlier
day are sent again. The property compares trades of different days. Within a day a filled order
may be sent again too: the trades of an order share its tracker in the replay, so after a
cancelled first trade the filled second one raises in `submit`, its row is not written, and the
order is dispatched a third time.

**partial_resent** (violated). The same comment. A trade cancelled after some executions leaves a
row with status Cancelled, which `get_sent_order_refs_today` does not return; the recovery stages
the request again with its full quantity. Orders staged again though the broker works them
(`restaged`) are left out of the property: they overfill as well.

### Fairness

`OrderRouter`: the thread runs until its target returns; `cv.wait` has a timeout, so it needs no
notification to wake. The sink is assumed to return or raise. `OrderLifecycle`: a callback that has
routed an order goes on to `order_tracking` (straight-line code), and the broker reports a
commission for every execution; no fairness is assumed of executions or status reports. `Recovery`:
a process that died is started again (the launcher), a running one makes progress, and what is
staged is authorised, because the kernel itself authorises it (`_authorize_all_current_orders`);
nothing is assumed of the broker, and deaths need not come. `TradingDay`: a running process makes
progress, the launcher acts on what it waits for, and time passes when nothing else is due. Faults
and the operator are never assumed to come. `RiskMonitor` (`FairSpec`): prices keep coming and the
event loop runs what is scheduled, so the callbacks and the trigger on the main loop go on; nothing
is assumed of the signals, of `runtime_loop` or of the broker. `LiveFeed`: the `db_writer` thread
runs; a job is assumed to return or raise.

### Bounds

`MaxReports` (of each order) and `MaxDbFailures` (OrderLifecycle), `MaxDay`, `MaxFaults` (Kernel,
Recovery), `MaxSends` (Recovery), `N`, `MaxEvents`, `MaxRestarts` (FillLedger), `MaxOrders`
(RiskMonitor), `MaxTime`, `MaxTicks` and `MaxRecords` (LiveFeed) bound TLC's runs and are
constants of the theorems, which hold for each value of them; so are `MaxTime` and `MaxCrashes`
(MarketData). `BatchSize`, `Lookback` and `Counts` are parameters of the code, made small so that
batches fill, rings wrap and candles complete. In `MarketData` snapshots after the last crash are
not saved, because nothing reads them. The runs allow deadlock because each system really stops:
the orders are done, the thread has returned, the day is delivered, the clock has turned for the
last time, the last modelled interval is over.

## 4. Proofs

The theorems are stated for the safety part of each specification: `SafeSpec`, or `Spec` where the
fairness is not used (FillLedger, LiveFeed) or there is none (MarketData). They hold for all values
of the constants allowed by the named assumptions, the ones that matter being that there are
finitely many orders, that the pipelines are a sequence, that contracts, the universe of those
qualified and the portfolios are sequences without repetition (models may repeat), and
`BrokerAssumption`.

**OrderProofs**, of the router: `RouterTypeCorrect`, `RouterExactlyOnce`, `RouterFifo`,
`RouterDrains`, `RouterImplementsDelivery`. `ExactlyOnePlace` is not inductive: it does not say
that the numbers of a deque increase, that they are above those already popped in the same mode,
or that a routed order is the one that arrived under its number. `QueueInv` adds these; `DrainInv`
adds that a returned thread was stopped. The refinement maps every step of the router to a step of
`OrderDelivery` or a stutter, `PopNext` to taking the first in priority.

Of the lifecycle: `OrderBookedAtMostOnce`, `OrderFollowsBroker`, `OrderTerminalIsFinal`,
`OrderImplementsPromise`, `OrderTypesAreKept`, `DatabaseHasTheFills`, `PositionMeetsDatabase`.
`CountInv` relates the tracker's quantities and counters to the broker's: a tracker that has counted
every share has counted every execution, and commissions never outrun executions. `BookInv` says
that a booked order is FILLED and has no fewer commissions than fills. Together they show that the
last fill never finds the booking due, that only a commission books, and that after it the counter
has passed the only value that books. `SinkInv` says that the broker knows only orders that were
placed. For the last two theorems `BooksInv` adds that a report the tracker counted has its row
while the database has refused nothing (`Acknowledged`), and that the position in memory, unless a
booking was skipped, is the sum of what was booked (`PositionInv`). That a SELL the broker covers is
not refused for want of lots (`LotsSuffice`) compares two sums over all orders, which is why a
refused BUY of any order is part of the premise.

**TradingDayProofs**: `TradingDayTypeCorrect`, `SessionLoadsAtMostOnce`,
`CompletedSessionIsStopped`, `SessionOnlyAdvances`, `RecoveredSessionsResume`. `PointInv` ties
each point of the process to the stage of its row (`WrittenIs`: what a procedure writes next is of
the same stage or the next one, so that a write which fails and reaches the table with the error
flag advances it too); it survives a crash because a process that is gone constrains nothing, and
a new one reads its point from the row. `LoadInv` and `BeforeLoadInv` say that nothing was loaded
before the row or the process came to it. `RecoveryResumes` needs `ResumeInv` because it speaks of
a moment at which no event waits: a recovery that waits at `stand_by` in trading hours has the
pre-market event set or its notice among those scheduled, since it only waits if it looked before
the hours began, and the clock then passed through the change that schedules the handler.

**RecoveryProofs**: `ResendsHaveReasons`, `ReplaysComplete`. The action property needs to know
that an order on its way to the router is not held by the broker (`HeldInv`). For a first process
this follows from `FreshInv`: it loads its orders when nothing was sent today. For a recovery it
follows from `ReplayInv`: an order whose only trade is of today and not cancelled is still to be
replayed with a tracker in state CREATED, so that no transition raises, or already has a row of
today, in a live or filled status or in one of those not counted; `StageInv` carries this over the
two stagings, up to the orders in `restaged`. `TradeInv` supplies the row's perm_id and day: the
row of an order with one trade refers to that trade, so rewriting its perm_id cannot violate a
foreign key. What the handlers do to an order is stated once in `StatusResult`, `FillResult` and
`ReplayResult`. For `ReplayCompletes`, `ExecInv` adds that no trade has more executions than its
quantity, and a working one fewer (`TradeSize`), that the lots are as many as the executions
stored (`LotsInv`), and that an order the broker holds today has a fresh tracker before its trade
is replayed and has caught up after it: its executions are stored and its tracker has left what
the broker has left (`ReplayedInv`). The last is what keeps an execution that arrives between the
replay and the end of the dispatch from being refused. `ReplayEffect` states what one replayed
trade adds to executions and lots.

**FillLedgerProofs**: `TypesAreKept`, `CommissionsAreKept`, `CommissionsAreTrue`,
`PositionsAreOpenLots`, `BooksAreBalanced`, `RefusalsHaveReasons`, `SettledBalancesAreFresh`.
`CommissionAccounted` alone does not survive the replay of an execution that was refused when it
was live: `NoneForgotten` says that whatever was delivered is stored, still to be reported, or
lost, and `CommissionRows` that no row has another amount than the broker's, since the first writer
of a row wins for good. The books need `BookInv`: every stored execution has its ledger rows, the
executions of an instrument never go short, and their sum is the sum of its open lots.
`FirstInFirstOut` shows that the closed form of the FIFO loop takes from the lots exactly the
quantity sold, `BuyEffect` and `SaleEffect` what a purchase and a sale do to lots, consumption and
cost. A refusal is shown from the other side: `AcceptedInOrder` says that an execution none of the
three reasons applies to is accepted, for which `BrokerAssumption` is needed. `FreshInv` counts for
each order with a hook the reports to come, so that the last one is the one that refreshes the
balance, or raises and leaves a negative position (`RaisingIsNegative`).

**RiskMonitorProofs**: `TypeCorrect`, `SoldAtMostTwice`, `StoreFollows`, `PendingIsAccounted`. The
bound on the marks is not inductive: `MarksInv` counts the threads that are past the check and may
still mark, and says that a watched position has no mark, so that an arming which interleaves with
a thread past its check leaves room for one more. `OrdersInv` says that rebalance purchases are of
one share, so that a booking never meets a division by zero with a position held. `SellBooks` and
`BuyBooks` state once what a booking does to store and portfolio.

**LiveFeedProofs**: `FeedConserves`, `StoreKeepsOrder`. `LoopInv` says where in a tick the loop is
and that it holds prices only between their swap and their publication. That no price is lost or
repeated is one lemma about lists (`Rearranged`): the bars, the snapshot and the list of an
instrument are places, and a step that moves the content of one place to the next, or appends what
is new, keeps the concatenation. Volumes need `VolumesInv`, because a flush may come between the
two appends of a tick: each is on its way (`OnItsWay`) or settled in a bar beside its price, in the
next bar, or dropped after a bar without price (`Settled`). It becomes inductive with
`LeftAreNewer`: a volume left after a flush took both lists is not of a tick of an older bar. That
later bars hold no old tick is `FreshInv`, which knows by `Swapped` which instruments the running
flush has passed. `StoreInv` says that the interval to come is later than all submitted ones,
`LogInv` that queue, batch and log are one sequence.

**SumLemmas**: a sum over a function is defined by a fold whose order is a `CHOOSE`; `SumElement`
shows, by an induction stated with the set of counterexamples, that any element may be taken out,
and the rest (union, monotonicity, scaling, renaming) follows. Sums over orders, executions and
lots are thereby within reach of the prover.

**MarketDataProofs**: `BaseHolds`, `LanesHold`, `CandlesAreAlwaysTrue`, `DeskHolds`,
`BanksAreAlwaysTrue`, `DerivedAlwaysFollows`, `SignalsAreRouted`, `NeverRaises`: all five properties
of the run, for any instruments, kinds, levels, bars per level, lookback, ticks, portfolios and
models. `SignalsRouted` needs no invariant beside it; none of the other four is inductive, and they
share three layers.

`BaseHolds` is what any step keeps: the types, the queue of bars with one bar per instrument and
interval in order (`Queued`, where `Reach` is the interval an instrument has come to), the bars of
all instruments beginning together (`Origin`), the resamplers of all kinds alike, and no time stamp
later than the clock. The files are part of it, because a recovery takes cascades and banks from
them that were saved at different times; `RecoveredIs` shows that filling the gap keeps types and
times whatever the two hold.

`LanesHold` is the state of one cascade and its candles (`Rising`): at each level the candles end
where those of the level below do, less what the resampler holds (`Level`), and a candle holds the
ticks of the bars within it (`TrueCandles`). `RisenIs` and `PushedIs` unfold the recursive
functions of `Candles` one level at a time and `Pushed` carries `Rising` over a bar; an induction
over the levels, stated as a set of numbers, makes the candles `NotLate`. A cascade restored after
a crash may be in the middle of a candle, so the claim about a level begins with its first candle
(`Clean`).

`DeskHolds` is the engine in the middle of its queue. `Queue` says that the events to come are in
order of time, later than the start, and that those of the other kinds come after the one of the
first kind; `Covered` that every candle was seen or is to come; `Rings` that in the rows later than
the start time grows, and that the counter of the first kind is right because a cell is
filled once: a row is not later than what its instruments have had. `Following` says that what was
seen later than the start is in the features, and in the derived ones up to the time of the last
derivation, unless its instrument is among those seen since. Without a pending flag those are not
all instruments (`Settled`). The events of a process are followed one by one (`DeskStep`), a turn
of the queue by induction (`TurnDone`), a new bar's events by `DeskIngested`. A recovery repeats
bars and may put rows out of order, which is why all of it speaks of times after `since.start`.

From the three: `CandlesAreTrue` is part of `Rising`, with the sum of the run's property shown to
be the fold (`TicksFolded`); `BanksAreTrue` is `Rings` in the order in which `View` shows the rows
(`ViewIs`, `SlotsOf`). For `DerivedFollows`, the last candles of a frequency end together
(`StartsInv`, `EndsAre`, `SameMultiple`: all are the same multiple of the period after a common
start), so that the instruments seen would be all of them had the derivation not come as far.
`RaisesOnlyRecovered` needs `ReadyInv`: an event was processed only if a bar has come, and when
the queues are empty a bar of one instrument means that the engine has seen one of each.
`SignalsRouted` follows from what the folds and concatenations of `Forecast` compute (`OnlyIs`,
`CollectedIs`, `PlanIs`, `RoutingIs`, `RoutedIs`).

**Only model-checked**: liveness (`EventuallyHanded`, `EventuallyBooked`, `OutageRecovers`,
`OpenDaysServed`, `StagedIsSent`, `BreachedIsSold`, `BatchesHandled` and the liveness of
`ImplementsDelivery`), which is beyond the prover. Every invariant and action property of a passing
run, and the safety of both refinements, is proved.

## 5. What the models showed beside the properties

Behaviours of the code that no document contradicts, met while modelling; the properties are
stated so that they allow them, and say so.

* A filled order whose tracker has no hook yet, or has none because a recovery rebuilt it, is not
  booked in memory, and its cash is in the balance row only after the next settled order.
* A booking that raises, a sale before its purchase or the purchase that follows it, leaves the
  balance row as it was until the next booking that does not.
* The orders that remain after a recovery are staged twice. One that `runtime_loop` authorises
  between the two is sent a second time while the broker works the first.
* An order the broker shows as PendingSubmit, ApiPending, PendingCancel or ValidationError at the
  replay is not among those sent today: it is staged again though the broker works it, and the
  executions of a pending one are refused by its new tracker.
* A write to the session that fails is made up for with the error flag: a strategic session may be
  COMPLETED with the flag up, for which there is no boot plan, so that each later start of the day
  fails.
* A commission whose report meets no process, or an execution that was refused, stays out of the
  ledger: replays stop at known executions. An execution refused for the sorting of two
  identifiers of one second is refused by every replay.
* An execution of a BUY that the database or the tracker refuses leaves its lots missing, so a later
  SELL of the same instrument, though covered at the broker, finds too few lots and is rolled back.
* A stop-loss SELL that the broker rejects leaves its position PENDING until another order of
  it is booked. A rebalance order booked while a sale is at work arms the position again.
* A position without a market data line ends the callbacks of its session and of those after it.
* A flush between the two appends of a tick puts price and volume in different bars; if the second
  bar has no price, it drops the volume. The first bars of a process hold all ticks since the
  subscription.
* Jobs still queued when `db_writer` is told to stop are dropped. A partial log batch waits for the
  next record; a database error ends the log thread.
* `MarketDataBank._next_row` resets the row counter of the event's kind only: when the ring wraps,
  the counters of the other kinds pass the number of instruments and their cross_asset features
  stop.
* Derived features may be computed before the other instruments of an interval have come, as events
  of any kind count as seen; they then use the candle before, and the last candle of a day may be
  in no derived feature.
* A snapshot is taken while the loop goes on: the recovery may start from cascades and banks of
  different times, leave two instruments out of step for the day, and skip or repeat a bar in the
  gap. A crash before the first snapshot of all leaves no banks, and the first feature raises; one
  before the first snapshot of a later day restores those of the day before. An
  instrument without a last close makes the first prediction raise; both end `runtime_loop`. A torn
  file makes each recovery of the day raise.
* `fetch_positions_and_targets` weighs a position by the value of the positions,
  `build_rebalance_orders` by a total that includes cash: the action of a row may disagree with
  the side of its order, which is then authorised by a model of the other side. A position never
  marked to market is treated as one not held (BUY with a target, HOLD without) unless none of its
  portfolio has a market value: then each has the weight 0, and without a target it is to be sold on
  a rebalance date.
* `src/README.md` line 73 says that a signal is sent to the portfolios that hold the instrument. The
  code also sends it to those that only aim at it, which is how a BUY signal authorises the purchase
  of a new position; `SignalsRouted` states what the code does.
* The id of a model is its name. Of two versions the pool keeps the one of the last row, for both;
  when they differ in type, the predictions of one type are never routed.
* A position or target whose contract did not qualify, or a model that takes features of 30 seconds
  or a minute, makes a prediction raise, the first at every snapshot and the second at the first
  ones, and ends `runtime_loop` for the day.

## 6. Plan

Every component with state of its own that others depend on has a module. What is left, in order:

1. `RebalanceOrders`: the computation of `build_rebalance_orders` against a reference definition.
2. A composition of `OrderRouter` and `OrderLifecycle`, the sink of one being the sink of the
   other.
3. The connection of the IBKR client: connect, heartbeat, reconnect.

## 7. Not modelled

* `AcceleratedTimeHeartbeat`, which `src/main.py` uses in debug mode: the modelled clock is the
  system clock in parts of a day.
* The trading state of the clock: only log lines and the console read it.
* Feature arithmetic and models: numeric code; a feature is the time of its data, a prediction the
  pair it was made for.
* Decimal amounts: `FillLedger` has whole numbers, so rounding to four decimals is left out, and
  the quantities of `build_rebalance_orders` are whatever orders the other modules start from.
* Connecting, heartbeat and contract qualification of the IBKR client: calls into the broker's
  library. The kernel's modules have an outage as a fault.
* `stop` of the hubs and engines with `EventBus.unsubscribe`, which nothing calls.
* A crash or a snapshot in the middle of one bar's push or of one update of a bank.
* SQL scripts but for the constraints the writers rely on, setup services, console, health checks,
  and the stubs of error, metric and notification services: no state other components depend on.
