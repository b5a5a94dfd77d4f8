# A verification project for PyAlgoTrade

PyAlgoTrade runs trading strategies against historical or live prices. This
directory holds TLA+ modules translated from its Python sources, configurations
that model-check them on small instances with TLC, and proofs that hold for
every instance, checked with TLAPS. `PROJECT.json` lists which definition stands
for which lines of the source, what every run checks and which code each hazard
is about.

## The system

| Component | Sources (`src/pyalgotrade/`) | State it keeps | Operations | Talks to |
|---|---|---|---|---|
| orders | `broker/__init__.py` | an order's state, filled quantity, average price, commissions | `switchState`, `addExecutionInfo` | its broker |
| backtesting brokers | `broker/backtesting.py`, `bitstamp/broker.py` | cash, shares, active orders, next order id | `submitOrder`, `cancelOrder`, `onBars` | called by the feed before the strategy is; emits order events |
| fill strategy | `broker/fillstrategy.py` | volume left and used in the current bar | `onBars`, `onOrderFilled`, one `fill...Order` per order type | called by the broker |
| strategy, positions | `strategy/` | active positions, order to position map; a position's state, shares and two orders | `enterLong...`, `exit...`, `onOrderEvent` | submits orders, receives bars and order events |
| dispatcher, events | `dispatcher.py`, `observer.py` | subjects by priority, current datetime; handlers and deferred changes | `run`, `addSubject`, `emit`, `subscribe` | calls feeds and brokers |
| feeds | `feed/`, `barfeed/`, `resamplebase.py` | bars per instrument and the next position, current bars; the open group of a resampled feed | `dispatch`, `getNextBars`, `checkNow` | emit bars to broker and strategy |
| bars, data series | `bar.py`, `dataseries/` | bounded windows; unmatched values of two series | `append`, `Syncer` | filled by feeds |
| analyzers | `stratanalyzer/` | position, cost and PnL per instrument; high watermark | `update`, `beforeOnBars`, order events | the strategy |
| optimizer | `optimizer/` | parameter source, active jobs, best result; a worker's job | `getNextJob`, `pushJobResults`, `jobsPending`, `run_impl`, `serve` | processes over XML-RPC, threads over locks |
| Bitstamp | `bitstamp/`, `websocket/` | orders, balance, last trade id, queue of a monitor thread; connection and keep-alive state | `dispatch`, `submitOrder`, `cancelOrder`, reconnection | an exchange over HTTP and a websocket |
| Twitter feed | `twitter/feed.py` | a thread, a queue, a running flag | `start`, `stop`, `dispatch` | a stream |
| file and database feeds | `barfeed/csvfeed.py`, `yahoofeed.py`, `ninjatraderfeed.py`, `googlefeed.py`, `quandlfeed.py`, `sqlitefeed.py`, `bitcoincharts/barfeed.py` | bars in memory, a table, the fix of equal times, the flag of adjusted closes | `addBarsFromCSV`, `addBar`, `loadBars`, `setUseAdjustedValues`, `reset` | the dispatcher, the series |
| feeds of other values | `feed/csvfeed.py`, `memfeed.py` | all values in one list, the next of them | `addValuesFromCSV`, `setDateRange`, `setTimeDelta`, `dispatch`, `reset` | the dispatcher, the series of the columns |
| indicators | `technical/` | a window of values, the last average | `onNewValue` | the events of a data series |
| event profiler | `eventprofiler.py` | events that wait for returns | `__onBarsImpl` | the feed |
| the rest | TA-Lib wrappers, plotter, downloads, logging | - | I/O or thin | - |

What is hard in it, and what each component must get right:

* *Broker.* A single thread, but a re-entrant one: every order event runs user
  code, which submits and cancels orders while `onBars` is going through a
  list of orders that it froze. Nothing may be executed with a bar the strategy
  had already seen, nothing twice, nothing after its end, and cash, shares and
  volume must add up after partial fills, rejections for lack of cash and
  expiries. Prices must honour the bar and the order's own prices.
* *Positions.* Two orders whose events arrive nested in the calls that cause
  them, on either side of the calls' own bookkeeping.
* *Dispatcher and feeds.* Several sources in one time order; subscriptions that
  change during an emission; groups of bars closed by the clock.
* *Optimizer.* Processes, threads and a network: jobs handed out once, results
  kept whatever is repeated, and a stop that interrupts nothing.
* *Bitstamp.* Two clocks of truth, the exchange's and the program's: trades that
  arrive before an order is registered or after it was canceled; calls that fail
  half way; a thread that must end with the run; connections that go silent.
* *What observes a run.* Indicators, aligned and resampled series, the event
  profiler and the analyzers keep a window, a partial sum or the last value only.
  Whatever goes wrong in one step stays in all later ones, so what they hold must
  be what their definitions say of everything there has been.

## Modules

| Module | What it is |
|---|---|
| `OrderLifecycle` | abstract specification: the state chart that `broker/__init__.py` draws for an order, with its quantities |
| `FillRules` | pure operators: triggers, prices and sizes of `fillstrategy.py` |
| `BacktestingBroker` | the broker, its fill strategy, its orders and the user code that runs inside it; implements `OrderLifecycle` |
| `MCBacktestingBroker` | instances |
| `BitstampBroker` | the broker for backtesting on Bitstamp: checks and overrides in front of `BacktestingBroker` |
| `Venues` | composes the two: a behaviour is one of either broker |
| `MCVenues` | instances |
| `BacktestingBrokerProofs` | theorems about the fill rules, the broker and its account, and about `Venues`: the second broker is the first, and what it checks holds |
| `LiveBrokerProofs`, `OptimizerProofs`, `PositionsProofs` | theorems about these components |
| `FeedsProofs` | theorems about `LiveTradeFeed`, `TwitterFeed`, `BarFiles` and `ValueFeed` |
| `StudiesProofs` | the theory of fractions, and theorems about `Studies`, its event profiler and `Analyzers` |
| `DataTheorems` | facts that the proofs rest on: sums over finite sets, smallest numbers, minimal subsets, sequences, and what sorting returns |
| `Positions` | positions, their states and the strategy's tables, with the calls and events that nest; uses `OrderLifecycle` as its broker |
| `MCPositions` | instances |
| `Dispatcher` | the loop that dispatches subjects in time order, with a stored or live bar feed, a feed of other values and a resampled bar feed |
| `DispatcherProofs` | theorems about `Dispatcher`, for every feed, stored or live, and everything a callback may do, and about `Events` |
| `MCDispatcher` | instances |
| `Optimizer` | server, workers, sinc, and the thread that stops them, over a lossy network |
| `MCOptimizer` | instances |
| `LiveBroker` | the Bitstamp broker, its trade monitor thread and the exchange; implements `OrderLifecycle` for its own orders |
| `MCLiveBroker` | instances |
| `LiveTradeFeed` | the Bitstamp feed and the websocket client thread with its keep-alives and reconnections |
| `TwitterFeed` | the thread that fills the queue of tweets, and dispatching with a limit in every turn |
| `BarFiles` | bar feeds over CSV files of five formats and over a database |
| `ValueFeed` | feeds of rows with any columns |
| `Sorting` | operators: `list.sort` with a key, and the elements of a list that meet a condition |
| `StoredFeeds` | `BarFiles` and `ValueFeed` side by side, with what they need of files, zones and filters |
| `LiveFeeds` | `LiveTradeFeed` and `TwitterFeed` side by side |
| `MCFeeds` | composes `LiveFeeds` and `StoredFeeds`: a behaviour is one of any of the four feeds |
| `Rationals` | exact fractions, for everything that divides |
| `DataSeries` | bounded series, the `Syncer` of two series, the resampler of bars |
| `Technical` | the indicators of `technical/` as operators: what is kept, a new value, what is kept then |
| `EventProfiler` | the returns around events |
| `Studies` | the series of two instruments and everything that is computed from them bar by bar, and the definitions it is compared with |
| `Analyzers` | trackers of positions, trades, returns, daily returns and drawdowns |
| `Events` | `observer.Event` |
| `MCStudies` | composes `Studies`, `Analyzers` and `Events`: a behaviour is one of any of them |

### BacktestingBroker

`stage` is the program counter of the one thread. `strategy` is the strategy's
own code between two bars (`onStart`, `onBars`); `onAccepted`, `onFilled` and
`onExpired` are the handlers of the events that `Broker.onBars` emits; `loop`,
`process` and `post` are the points of `onBars` between them, at
`__onBarsImpl`, `__processOrder` and `__postProcessOrder`. `SubmitOrder` and
`CancelOrder` may be taken in every stage where user code runs. They emit an
event too, and handlers of that event may submit and cancel in turn; but `emit`
is the last statement of both methods, so returning from a nested handler always
leads back into a handler, and no call stack is needed.

An action is everything a method does up to its next event: `FillOrder`
computes size, price, commission and cash, commits the execution to the order,
the cash, the shares and the volume, unregisters a completed order and emits.
The frozen list `ordersToProcess` is a set: it follows the order of a dict,
which Python 2 leaves open.

Data is reduced to what decides: a datetime is the number of the bar and
`BarsPerDay` of them make a session; cash is counted in hundredths so that a
commission can be a percentage; `Frequency = "DAY"` stands for daily bars and
longer ones; a price is a natural number. The average fill price is kept as the
sum it is the average of.

### BitstampBroker

An order is created by `CreateLimitOrder`, which refuses what the account does not
cover, and submitted by `SubmitLimitOrder` later, or never: bars and executions of other
orders come in between. The strategy may hold any number of created orders, also equal ones, so
`created` counts them by what they ask for (a bag). What `createLimitOrder` refuses raises in the strategy and
changes nothing, so it is a guard. All else is `Inherited`. `contended` is a history
variable: an order was created while another one of its side was active, or created and
not submitted (`Waiting`).

### Positions

Here the call stack matters: `OpenState.exit` cancels the entry order, the
handlers of that event run before `cancelOrder` returns, and only then the exit
order is submitted. `stack` holds what is left of every call that has not
returned: a callback of the strategy, the rest of `__onOrderEvent` ("notify"),
the rest of `exit` ("exit") or of `__submitAndRegisterOrder` ("register"). While
a callback is on top the strategy may enter, exit and cancel as it likes, which
pushes more; `Return` ends the callback. When the stack is empty the broker runs:
it may accept, fill or expire any order that `OrderLifecycle` lets it, so what
holds here holds for the broker for backtesting and for the live ones.

`failure` names the assertion or exception of `position.py` that ended the run.
The exception that `exit` documents for an exit order that is active changes
nothing and is a guard. `owner` and `heard` are history variables: which position
built an order, and which callbacks a position caused. `Acts` limits the
callbacks in which the strategy acts (`ActsIn`). In the passing run that is all of
them but `onOrderUpdated`, which runs before the position learns of the event;
the violated run shows what goes wrong there. The four ways of entering and
of exiting on either side differ in the type of the order only, which the broker
of this module does not look at.

### Dispatcher

`Scan` is the first half of `__dispatch`, and the body of its second loop is one
action per kind of subject, so callbacks (`source` names the event whose callback
runs) come between any two of them. `turn` is the index of Python's list
iterator: `ResampleBarFeed` may insert a subject before or after it. Subjects
that have no datetime of their own (`peekDateTime` is None: the broker, a live
feed, the resampled feed) are dispatched in every turn; the broker ends with its
feed. The other feed is added before the run, since `start` sorts its values.

A stored bar feed is the set of datetimes each instrument has left. A live one
gets bars from another thread with datetimes that increase; giving bars such
datetimes is the live feed's business and not of this module. A group of the
resampled feed is the set of bars in it: its datetime is the beginning of the
period of its first bar. `log`, `seen`, `emitted` and `closed` are history
variables: events of stored subjects, bars given to the resampled feed, groups it
delivered, and periods that ended by the clock.

### Optimizer

The server's thread handles one request at a time, so a request that returns
within the lock is one action (`GetNextJob`, `AlreadySubmitted`);
`pushJobResults` is two (`RemoveJob` with the lock, `PushToSinc` after it)
because `jobsPending` may be called in between by the thread that waits.
`main` is `run_impl`'s thread or `AutoStopThread` (`StopModes`). A call
may fail before the server handled it (`LoseRequest`) or after (`Lose` in the
handler); `retry_on_network_error` repeats it in both cases, or gives up.
`Ids` are the values of `id(job)`: a new job may get the id of one that was
deleted, never that of one still in the dict. `None` is the result of a run that
raised, and `python` says whether comparing it with a number works (2) or raises
(3). `received` is a history variable.

### LiveBroker

`stage` is where the main thread is: the three calls of `start`, the rest of the
dispatcher's turn ("events", where the strategy's other handlers run), the two halves
of `dispatch` (orders to accept, trades to apply) with the handlers they call, and
`stop` and `join`. `monitor` is where the `TradeMonitor` thread is. An execution by
the exchange appends to `trades`, so that its id is its position, and travels from
there through `Poll` (`found`), `Report` (`queue`), `GetTrades` (`batch`) to
`ApplyTrade` or `SkipTrade`; `InFlight` is what is on the way. Every HTTP call may
fail while `MaxFailures` allows. One that changes something at the exchange may fail
before it did or after: an order whose confirmation is lost is `Unknown`, and a
canceled one whose answer is lost stays active at the broker (`orphaned`).
`addExecutionInfo` on an order that is not accepted adds the quantity and then
raises: `refused`.

### LiveTradeFeed and TwitterFeed

`link` is the client's connection, `cut` a network that drops everything without
closing it. Times are ages in seconds (`idle`, `kaSent`, `heard`), so that the model
is finite with a clock that never stops; `Tick` is the callback of `KeepAliveMgr`
every second. `stage` goes from the dispatch of one event of the queue to the dispatch
of one bar to the handlers. `StartClient` makes a new queue, and `Deliverable` says
what of a queue the main thread will look at: nothing before CONNECTED, nothing after
DISCONNECTED. `received` counts the trades that clients put in a queue, which are
numbered as they come, and `missed` has the numbers of those that the feed loses: a trade
that comes after a DISCONNECTED of its client (`OnTrade`), and those behind a CONNECTED that
`__initializeClient` has not taken when it finds that the thread ended
(`InitializationFailed`). A turn of `dispatch` that finds neither an event nor a bar changes
nothing and is no action.
`MovedForward` is about `TradeDateTime`, which is `__getTradeDateTime`.

In `TwitterFeed` `StartThread` and `SetRunning` are two actions, as they are two
statements of `start` that the thread can end between.

### BarFiles and ValueFeed

A row is a time, whether there is an adjusted close, and whether it is malformed. Each
format parses the time its own way: `ParseYahoo` replaces the time of day,
`ParseBitcoinCharts` moves equal times apart by what `UnixTimeFix` counts. A datetime
is naive or aware, and comparing the two kinds raises, in `Refused`, in the filter and
in `Dispatch`. `LoadCSV` is one call of `addBarsFromCSV` into any instrument,
`AddToDatabase` and `LoadBars` are the two halves of the database feed, whose table has
no two rows for an instrument and a timestamp. `failure` is what ended the run. The
format of Quandl is the generic one with other columns.

`ValueFeed` is the counterpart for rows that are not bars. Here the list is sorted by
`Start` only, and the columns' series are part of the model, because it is they, not the
feed, that refuse a datetime that is not later than the last.

### DataSeries, Technical, EventProfiler, Studies

`OnBar` appends a bar to the series of an instrument and runs what is subscribed to
it. Every indicator is an operator from what its window keeps and a new value to what
it keeps then, over `Rationals`, so that agreement with a definition is equality.
The events that wait for returns are a set: the code keeps a list, of which the order does not matter.
Square roots are left out: a deviation is compared as a variance, bands by their
squared width, a z-score by the square that bounds it. The reference definitions
(`Exponential`, `PairSlope`, `GroupsComplete`, ...) take all of `history`.

### Analyzers and Events

`Fill` and `BeforeOnBars` are in the order in which `BaseStrategy.__onBars` and the
broker call the analyzers. `posTrackers` are those of `Trades`, which splits an
execution that crosses zero; `positions` are trackers that do not, as the tracker of
`returns.py` itself handles it.

`emitting` has an element for every emission in progress, with the handlers called so
far. A handler that raises unwinds one emission, with the `finally` of `emit`
applying the changes if it was the outermost.

## Runs

| Run | Instance | What it shows |
|---|---|---|
| `broker_accounts` | 3 orders (all-or-none, and on close in parts), 2 instruments, 2 daily bars that may lack one of them, half the volume usable, cash for about three shares, a fixed commission | cash, shares and the volume used match what the orders report (`AccountsMatchOrders`); the account never goes below zero; the registry matches the orders' states in the middle of `onBars` too; day orders end with the bar that accepted them; the state chart is implemented |
| `broker_prices` | 1 order of every type and side, all shapes of bars around its prices, 2 bars, each of them a session | every execution honours the bar and the limit |
| `broker_sessions` | 2 orders, 4 bars of 2 sessions, handlers at work, a percentage commission, 2 shares to begin with; any orders, or limit orders through Bitstamp's broker | no look-ahead, one execution per bar, none outside the session; cash and coins that were there when a Bitstamp order was created are there when it is executed, unless another order of its side was active, or created and not submitted, when it was created |
| `position_calls` | 2 positions of either side, 5 orders, quantity 2, everything but `onOrderUpdated` acts | no assertion fails, shares match the executions of all orders, a position is never reversed, closes when it holds nothing, and leaves no trace in the tables; callbacks come in the order of their names |
| `position_shares_doc` | 1 long position, 3 orders, every callback acts | violated: see below |
| `dispatcher_turns` | every stored feed of 2 instruments over 4 datetimes, or a live one; periods of 2; other values at the same datetime, twice, or none | events in time order, bars of an event aligned, subjects by priority, nothing left at the end; groups that partition the bars; and an end |
| `optimizer` | 3 workers, 5 parameters in batches of 2, failing runs, Python 2 and 3, one fault, calls tried twice, under `run_impl` or `server.serve` | the result is the best of what the sinc received, and of all when nothing was lost, although with `server.serve` the last handler may still run when the server is told to stop; no parameter is handed out twice or lost; no job is interrupted; the optimization ends unless the network or a worker failed |
| `live_broker` | an adopted order and a new one of 2 units, 2 executions, 1 failing call, a strategy that submits and cancels in the handlers of fills and of other events | every execution reaches the broker once and in order, and before the strategy hears of it the balance includes it; what the broker believes is left agrees with the exchange; the state chart is implemented; a run that is to stop stops, with its thread; every trade is reported |
| `live_broker_accept_doc` | 2 new orders, submitted in the handlers of ACCEPTED too | violated: see below |
| `feeds` | 2 trades and 2 faults of a connection, with 2 seconds of inactivity and 1 to answer; 5 tweets with 2 to a turn; 2 loads of 3 files, as bars in 6 formats or as values of one or two columns | trades are dispatched once and in order across reconnections, but for those that `missed` names; a silent server is found out in time and a living one never is, a lost connection is replaced; tweets are emitted once and in order; bars from any files come once, in order, those of a time together; so do other values, until a series refuses one |
| `feeds_conflict_doc` | 3 trades, no faults | violated: see below |
| `studies` | 5 bars of 4 shapes and gaps on one instrument, 2 on the other, windows of 2 and 3, series of 3; 3 executions over 3 bars; 2 handlers, 2 nested emissions, 4 changes | indicators, aligned and resampled series, line break and event profiles are what their definitions say; trades, returns and drawdowns add up to the equity; changes to handlers take effect as if made at once |

*Bounds.* Three orders are enough for one to be waiting in the frozen list, one
to be worked on and one to be submitted by a handler; two instruments let one
have no bar. Two bars are enough to accept and fill or expire an order, four to
cross a session with a partial fill on either side. A second session is the
smallest in which "session changed" and "next bar" differ. A quantity of two is
the smallest that can be filled in part; five orders give two positions, one with
an exit that is canceled and exited again. Four datetimes and
periods of two give three periods, the first of them short, and gaps. In the optimizer,
three workers give one that pushes, one that runs and one that is told there is
no work; an odd number of parameters gives a last batch that is short. One fault is
enough for a repeated request that the server has already handled.

The live broker's two executions can be two parts of one order, or one of each order,
on either side of a cancellation; one call that fails can be any of those between. The
feed's two faults can be a silent network and the failure of the connection that
replaces it; two trades can have one time; ages count up to three seconds beyond what
any threshold looks at. Five tweets with a limit of two leave some for a third turn.
Files are sorted up, sorted down, with equal times and with a malformed row; two loads
put two of them into one feed, also with timezones that do not agree. Five bars with a
window of three let two values leave it, and one more than a series holds; three
executions open, reverse and close a position. The series of the live feed and the
indicators are as long as that and no longer: nothing in the code looks further back
than its window, which is shorter.
Every bound is a CONSTANT: `MaxOrders`, `MaxPositions`, `MaxBars`, `MaxTime`,
`MaxAttempts`, `MaxFaults`, `MaxTrades`, `MaxFailures`, `MaxEvents`, `MaxTweets`,
`MaxLoads`, `MaxResets`, `MaxFills`, `MaxDepth`, `MaxChanges`. `MinTradeUSD` is 3 in place
of 5, as prices and quantities are small; `TimeDelta` and `Columns` are inputs. `Second` is how
many microseconds a second has in `BarFiles`: rows of one time that follow each other in a
file are no more than that over all the loads (`StoredAssumption`), so that trades moved apart
stay within their second. How long the files are does not matter.

*Deadlock* is not checked: the feed, the run or the optimization ends, and positions
run out of the orders that `MaxOrders` allows.

*Fairness.* The specifications of the brokers for backtesting have none: what the runs
check of them is safety. That `onBars` ends is no property of its own. `MaxOrders` would
make it end whatever list it went through; what the code does about it, not to take up an
order that was submitted while it runs, is part of `NoLookAhead`, which says that a bar
never even accepts such an order. In the dispatcher its thread runs and callbacks return; a live feed may
never have another bar, and the run then ends only if it is told to stop. In the optimizer every worker process and the stopping thread are
scheduled, and a server that serves answers (weak fairness on each); the network
is free to lose what the bound lets it.

In the live broker the main thread and the monitor go on, each under weak fairness:
both are loops with timeouts. Nothing makes the exchange execute or the strategy act.
In the live feed the main thread and the clock go on, an attempt to connect ends, in
success if it does not fail, and a connection that this side closes is closed in the
end, as the close handshake has a timeout. Nothing is asked of the server: it may stay
silent forever, which is what `Recovers` is about. `TwitterFeed` has the fairness of
its main thread and of a disconnected stream, for completeness; its property is about
safety.

### What the code does and its documentation does not say

Three runs are violated on purpose, each by one sentence of the repository:

* An exit order that is canceled in `onOrderUpdated` after a partial fill is
  unlinked by the nested event; the fill never reaches the position, whose shares
  stay too many (`position_shares_doc`).
* An order that is submitted to Bitstamp in the handler of an ACCEPTED event is not
  accepted before the trades of the same `dispatch` are applied. If one of them is its
  own, `switchState` refuses the transition with an exception, after the balance and
  the filled quantity were updated (`live_broker_accept_doc`).
* Of three trades with one datetime the second is moved by a microsecond and the third
  is not, because it is compared with what the second was moved to. The bars are then
  out of order and `getNextValues` raises (`feeds_conflict_doc`).

The models show more, which no run is about:

* `DefaultStrategy` documents the price of a stop limit order that becomes
  active on the bar that fills it as the best of the stop price and the limit
  fill price. The code takes the best of the stop trigger and the limit price,
  which is worse when the bar opens beyond the limit (`fillstrategy.py` 440, 219).
* `Broker.submitOrder` documents that no event is triggered; `SubmitOrder` of the
  backtesting broker triggers one.
* A position that is exited in `onOrderUpdated` fails an assertion when that event
  filled or canceled its entry, because the position is told only afterwards
  (`position.py` 59, 68).
* A handler of SUBMITTED that cancels the order itself, which is not yet linked to
  its position then, makes `registerPositionOrder` fail its assertion. The model acts
  on orders through their positions and does not have this call.
* A push that is repeated after its reply was lost deletes whichever job has
  its id by now; the results of that job are dropped as already submitted
  (`xmlrpcserver.py` 138). A job whose `getNextJob` reply is lost stays active for good.
  Both need a fault, and the properties of `optimizer` say so.
* On Python 3 a strategy that fails for some parameters ends its worker, and the
  wait of `run_impl` for its job has no end (`worker.py` 95, `local.py` 121).
* The same parameters on Python 3 leave the server without their job: it is removed
  before their result, which is None, is compared (`xmlrpcserver.py` 143), and the
  exception is what the worker repeats its push after. The repeated push deletes
  whatever job has that id by now, another worker's too. So the server may be stopped while a job is at
  work, and the best result may be missing, although the network lost nothing: `FindsTheBest` and
  `NoJobInterrupted` are about Python 2.
* A live bar that was queued before the end of its period and dispatched after an idle
  turn closed that period starts the period again, and the resampled feed then raises
  "Bar date times are not in order": `GroupsPartition` says that this is the only way.
* Executions between the reading of the open orders and the start of the trade monitor
  are never reported, and the orders they belong to stay active:
  `RemainingAccountedFor` names the exception (`adoptedAt`, `startedAt`).
* `refreshAccountBalance` clears `__stop`. That does no harm only because `stop` is
  called from the end of the run, after the last refresh, and never by a handler.
* While the Bitstamp feed reconnects nothing else is dispatched, and a request to stop
  is seen only once a connection succeeds.
* The thread of `TwitterFeed` may end before `start` sets `__running`; the feed then
  never reaches its end, and the assertion in `join` fails.
* `GenericBarFeed` remembers that some file had adjusted closes. One loaded before it
  that had none passes `setUseAdjustedValues`, and the run ends when its first bar is
  dispatched.
* `bitcoincharts` filters by date after moving equal times apart, and so leaves out
  trades of the last second of the range but its first.
* `createLimitOrder` of the Bitstamp broker has the comment "Check that there are enough
  coins", but counts coins that another order is going to sell, one that is active or one
  that was created and not yet submitted. Two sells within the
  balance can together sell more than there is (`contended`).
* A client of the Bitstamp feed that connects, gets trades and ends before the main thread
  took its CONNECTED from the queue is replaced without a look at the rest of that queue
  (`livefeed.py` 145, 163): those trades never become bars (`missed`).
* `setTimeDelta` of `BasicRowParser` has no effect without a timezone
  (`feed/csvfeed.py` 111).
* `addValuesFromCSV` raises an `IndexError` when the filter leaves no row of the file,
  since `MemFeed.addValues` looks for the columns in the first one. Values added after
  `start` stay unsorted, and a column's series then refuses them in the middle of the
  run, as it does two values of one datetime.
* A handler that is unsubscribed twice during an emission makes every later end of an
  emission raise, because the change that fails stays in `__deferred`.

## Proofs

Each module of theorems has an inductive invariant `IInv`. In most the invariants that
the runs check are a small part of it: they speak of the moments a user can see, and
what makes a step preserve them is what holds in between.

`DataTheorems` has what the other proofs need about `SumFunctionOnSet` (a sum changes
by what one summand changes, is bounded, splits), about a smallest number with a
property, about minimal sets, about sequences an element moves between, and about
`Sorting`: what a stable sort returns (`SortedByIs`), that a sorted list stays as it is, and
what is picked from a list, also when the list grows (`PickedIs` and what follows it). A fact
about all finite sets is proved by looking at a minimal one that is a
counterexample, not by an induction theorem. That is how it follows that a finite set of
positions has an order, so that the `CHOOSE` in `InOrder` and `OrderBy` finds something.

`BacktestingBrokerProofs` starts with the fill rules: the price of every fill honours the bar and the
limit (`FillPriceHonours`, from what `get_limit_price_trigger` and
`get_stop_price_trigger` return) and that a fill is never larger than what is
left of the order and of the volume (`FillSizeBounds`).

It then proves, for any number of orders, bars, instruments,
any tickets and bars and any commission and volume limit, that the inductive
invariant `IInv` holds (`Invariance`). Its types are those of the variables (`VariablesOK`); that what
remains of an order is never below zero, the other half of `TypeOK` (`TypeCorrect`), is a consequence of what
`IInv` says of filled orders. `TypeOK` and `RegistryConsistent` alone are
not inductive. What has to be added is where the thread is: the order being
worked on has been accepted, is not in the rest of the frozen list and has not
been executed by this bar; the rest of the list was submitted before this bar
and not executed by it; nothing was accepted or executed later than the clock.
From it follow

* `NoLookAheadCorrect`, `FilledOncePerBarCorrect`, `UnprocessedCorrect`,
* `FillsHonourCorrect`, `AllOrNoneCorrect`, `FixedCommissionCorrect`, `CashCorrect`,
* `SessionCorrect`, `DayOrdersCorrect`,
* `LifecycleRefinement`: every behaviour is one of `OrderLifecycle`.

Its last part adds the sums over orders (`AccountsCorrect`): an execution changes one
summand of each, and any other step none, because an order that was not executed has
moved nothing (`NothingMoved`). What is left of a bar's volume is what the orders did
not take of it (`VolumeShared`), which also needs that orders executed by an earlier bar no
longer count.

The end of the module, about `Venues`, proves that every step of Bitstamp's broker is one of `BacktestingBroker` or
changes nothing there (`SessionsImplementBroker`), and `BitstampChecksCorrect`. While no order
was created with another one of its side active or waiting, there is at most one order on each side,
created or active, and the account has what is left of it (`WaitingBacked` before it is
submitted, `AllBacked` after): coins, or cash at the
limit price with the fee. A partial fill at a price within the limit takes no more than its share of
that (`PaidInParts`), and an execution of one side only adds to what the other side
needs, because the fee is below 100%.

`LiveBrokerProofs` proves `EachTradeOnceCorrect` and `RemainingCorrect` for any orders,
executions and failing calls. The invariant is `Chain`: the trades between the exchange
and the broker (the batch being applied, the batches in the queue, what the monitor has
just found) lie end to end, without gaps or overlaps, and end with `lastTradeId`; and `Accounted`:
what remains of an active order covers what is owed to it, exactly while the broker
runs and knows what became of the order. `AcceptedFirst`, `NoRefusal` and
`LifecycleRefinement` assume that no order is submitted in the handler of ACCEPTED
(`"accepted" \notin SubmitsIn`); then an order is accepted before any of its trades is
taken up (`Early`). `live_broker_accept_doc` shows that they need that.

`OptimizerProofs` proves, for any workers, parameters, batches, results and losses,
that the source yields a parameter once (`SourceOK`), what a worker knows of its job
(`JobOK`), that the sinc has the best of what it received (`SincOK`) and that the server
stops after the last job (`StopOK`). `CleanOK` is about a network that has lost nothing and
Python 2: a job that a worker has is active at the server until its result is on the
way to the sinc. From it follow `NoWorkLostCorrect`, `ResultIsBestCorrect` and the
action property `NoJobInterruptedCorrect`.

`PositionsProofs` proves `NoAssertionFailsCorrect`, `SharesMatchOrdersCorrect`,
`StateMatchesOrdersCorrect` and `CallbacksInOrderCorrect` for any number of positions
and orders, any quantities, and calls nested without limit. The runs check the last three where the broker
runs; the invariant says what positions know in the middle of a call (`Matches`).
There is at most one event that has yet to reach its position, `Event(stack)`, and at most one
call that has yet to register its order, `Call(stack)`; everything below them on the
stack is a callback that has nothing left to do (`StackOK`). An order of that event
still counts as active and as not yet filled by it (`KnownActive`, `KnownFilled`), an
order of that call does not count at all. All of this assumes that the strategy leaves
positions alone in `onOrderUpdated` (`"onOrderUpdated" \notin ActsIn`), where two events
could be on their way at once. `position_shares_doc` shows what happens then.

`DispatcherProofs` proves `DispatchedInOrderCorrect` and `GroupsPartitionCorrect` for any
stored feed and any arrival of live bars, any other feed, and wherever a callback stops,
raises or adds the resampled feed. The subjects are always in one of four orders
(`Subjects`). `LogOK` says that nothing dispatched is later than what a subject still has
to offer, in the middle of a turn too, where what is left is not earlier than the turn's
datetime. `BarsInOrder` says it bar by bar: those seen, those of the last event, those to
come; this is what lets a group end when a later period begins. `GroupsOK` says that the
complete groups and the one being collected hold what was seen, in order, and that a
complete group is over because a later period began or the clock ended it. The last
needs `NeverIdle`: over a stored feed a turn always has a subject due ahead, so that the
clock ends no group there. `Invariance` needs that the other feed's values are sorted,
which `MemFeed.start` does.

Its last part proves `ChangesTakeEffectCorrect` of `Events`: the deferred changes always lead from
the handlers there are to those there would be if nothing had been deferred
(`EventsInv`). It rests on `OneMoreChange`, what `AfterChanges` makes of a longer sequence.

`FeedsProofs` proves `TradesInOrderCorrect`, `SilenceBoundedCorrect` and
`NoFalseAlarmCorrect` for any timeouts, faults, numbers of trades and lengths of the
queue. `KeepAlive` says how old the two ages of the keep-alives are while a connection is
open. `Hears` says that a client announces itself once, and that a main thread which
dispatches has heard it, so that there is no CONNECTED among what it takes. `Trades` is the
property itself with the one moment it leaves out, the wait before another
attempt to connect: some list has all the numbers received but those missed, in order
(`Enumerates`), and is what was dispatched, the bars and the rest of the queue laid end to end (`TradesAre`). A trade
that comes makes the list longer or is missed (`TradeComes`); a client that ended unheard
cuts off its end, which is missed (`ClientEnds`, `FirstPart`); every other step moves trades from one part
to another (`TradesKept`). The queue is cut at the CONNECTED and at the DISCONNECTED (`Between`);
its lemmas say what a new event, or taking one, does to the part in between (`Taken`).
`TweetsInOrderCorrect` is the same property of the feed of tweets.

Its second half proves `LoadedOnceInOrderCorrect` for any zones, filters and number of
loads, and any files that satisfy `StoredAssumption`. It does not say that a duplicate is the only thing raised: a
malformed row, naive datetimes among aware ones and adjusted closes that are missing end the
run too, and what was dispatched until then is in order. It is two invariants, one for each feed of `StoredFeeds`. `ValuesInv`: every value
kept is in the list once (`EachKept`), a column's series is what was dispatched of it
(`InSeries`) and ascends, and if nothing was added during the run the list is sorted
(`InTimeOrder`), so that the only values that raise are two of one datetime (`SameTime`).
`FilesInv`: the bars of an instrument are sorted and either all naive or all aware
(`BarsSorted`), which every load keeps since it sorts what was there with what is new; what
was dispatched of an instrument is the beginning of its list (`Given`), and nothing left is
earlier than the last datetime (`Ahead`), where a bar at that datetime has the same as the
one before it. For trades of `bitcoincharts` (`TradesLater`) the fix remembers the time of the last row and
how many had it, so that each trade is later than those before it. This is where the
assumption enters about trades of one time: `FewAtOneTime` holds of what was read, since rows of one time
are at most the last of what was read before and the first of the new file (`FewJoined`),
and so what the fix has counted is within the second (`FixCounts`).

`StudiesProofs` proves `PriceWithinLinesCorrect` for any bars, period and bound of the series. `LinesInv`
says that the last close is between the lows and the highs of the last lines (`Within`) and that
a line of another colour is beyond all of the `Period` lines before it (`Reversals`). A
new line is drawn only if the close leaves the last ones, from where it leaves them, and
the series drops a line only from its beginning. Fractions are compared by cross
multiplication, which orders them (`Below`).

Its second part proves `AnalyzersAgreeCorrect` for any instruments, executions, prices and bars
to a day. It begins with the arithmetic: `gcd`, a recursive function, is the greatest
common divisor (`GcdIs`, by the smallest second argument for which it would not be), so a `Ratio`
is in lowest terms and two numbers are equal when they are equal multiplied crosswise
(`EqualNumbers`). `Is(a, n, d)` says that `a` is `n / d`; the lemmas `IsPlus`, `IsTimes`,
`IsOver` and `BelowIs` carry it through the operators, and some numbers have a common
denominator (`CommonDenominator`), so an identity of numbers becomes one of integers. Then
the books. `Book` is what a tracker has gained less what is invested in its position, and an
execution lowers it by exactly what it costs, with what a trade that ends takes along
(`ExecutedIs`: opened, extended, reduced, closed or reversed, where the two parts of a
commission are the whole, `Split`). So profits, books and the initial cash are the cash
(`Balanced` in `BooksInv`), and at a price of each instrument the equity follows.
`MeasuresInv` keeps, for the equities so far, that returns compound to the last
(`Compounds`), that those of a day do too (`ByDay`), and where the highest was, the deepest fall
and the longest wait (`DrawDownIs`). The code measures a fall to the lowest equity since the
high and not to the last one, which is the same, since that fall was counted when it was the
last. The one assumption beyond types is that an instrument's price is never 0, which
a tracker takes for no price at all (`PnL`).

Its third part proves `EventsKeepTheirReturnsCorrect` for any predicate, bars and numbers of bars
around an event. `ProfilesInv` gives all that the profiler keeps as a function of the closes
(`ProfileOf`): the window of the rate of change, the returns so far, every event with those returns
that are around its bar (`EventAt`), and the events whose bar is fewer than `LookForward` bars ago,
each with the time it waits for (`Waiting`). It is needed because overlapping events take
returns from one list: that none takes another's shows only when the time an event waits for is tied
to the bar it is of. A new bar then makes of the function of the closes so far that of one
more (`ProfileIs`). That the cumulative returns around an event are prices over its
price is a product of quotients in which all but the first and the last cancel (`Telescoped`).
The theorem includes closes of 0, over which a return is not defined and an event
stays incomplete (`ReturnIs`); the bars of the run have none.

The assumptions are the named ones of the modules: types of the parameters, in
`Dispatcher` that sorting, and in `BacktestingBroker` also `TicketsAssumption` (orders have positive quantities and the
prices their type needs) and `BarsAssumption` (bars are well formed, as the constructor
of `BasicBar` enforces). In `BitstampBroker` they say that requests are limit orders of bitcoins
(`createLimitOrder` refuses others, and the other `create` methods raise), that the
account starts without a debt of coins, and that the fee is below 100%
(`TradePercentage.__init__` asserts it). In `StoredFeeds` they are the fields of rows and
filters, and that trades of one second that follow each other are no more than its
microseconds, over all the loads; and in `Studies` that bars are well formed and closes are in lowest terms. TLC evaluates all of them in the runs of these modules.

`AllOrNoneCorrect`, `FixedCommissionCorrect`, `UnprocessedCorrect`, `AcceptedFirst` and
`NoRefusal` are proved only: with a proof for every instance no run repeats them on a
small one.

Only model-checked: every property that rests on fairness (`Ends`, `Completes`,
`StopsForGood` and the like), because the prover has no rule for ENABLED; what is compared with a
definition over all of the data (`IndicatorsAgree`), a proof for each of twelve indicators; and `DerivedSeriesAgree`, whose groups and
crossings are folded over data of any length.


## Not modelled

* *User code* that raises ends the run where the model lets it (`HandlerRaises` of
  `LiveBroker`, `Raise` of `Dispatcher`, `HandlerRaises` of `Events`) and is left out
  elsewhere. So are `setCash`, `setCommission`, `setFillStrategy`, `setVolumeLimit` and
  `setUseAdjustedValues` in the middle of a run.
* *Numbers.* Fractional quantities and rounding to a currency's precision, slippage
  models, and the ratios of `sharpe.py` and statistics of `trades.py`, which are
  formulas over lists that the model has. The Hurst exponent.
* *Processes* killed from outside, the choice of ports, serialization.
* *Text and drawing.* Parsing of rows, messages and transactions is reduced to its
  result; `plotter.py`, `logger.py`, the downloads in `tools/` and the wrappers of
  `talibext/indicator.py`, each of which converts a series and calls TA-Lib, have no
  state or control of their own.
* *Variants.* `OptimizerBarFeed` is a stored feed.

`PROJECT.json` names what each component leaves out.

## Plan

Every component that is listed as modelled or partly modelled has its module and its
run. What is left to prove is, one indicator at a time, `IndicatorsAgree`, over the
arithmetic that `StudiesProofs` has, and `DerivedSeriesAgree`, which needs a form for the
groups and the crossings that is not a fold.
