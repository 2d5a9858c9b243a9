# TLA+ models of depot_actor

depot_actor is a trading service. One process streams market data from
alpaca, stores them in MariaDB, keeps the latest prices of each symbol in
memory, evaluates trading strategies on them at regular intervals and sends
orders to a broker: a *depot* (gRPC) or *alpaca* (HTTP). Its configuration can
be changed while it runs, through a gRPC service; each change restarts the
services inside the process.

This directory holds TLA+ modules for the parts in which the order of events
matters, TLC configurations that check them on small instances, and TLAPS proofs
of their main properties for all values of the constants. Paths such as
`main.rs:169` are relative to `src/src/`.

    tlc -workers 2 -config MCSupervisor.cfg MCSupervisor    # a run
    tlapm SupervisorProofs.tla                              # the proofs

## 1. The system

| part | source | state | operations |
|---|---|---|---|
| configuration service | `trader/config_reloader.rs`, `settings.rs`, `grpc_server.rs` | the shared settings, the broadcast channel | `ReloadConfig`, `UpdateConfig`, `AddSymbol`, `RemoveSymbol` |
| main loop | `main.rs` | snapshots of the settings, the handles of the tasks it started, the environment | start the services, restart on a change, stop on Ctrl-C |
| market data | `trader/streamer.rs`, `data/data_buffer.rs`, `data/db.rs` | price buffers, tables `trades` and `bars` | prefill, callback of the stream, save tasks |
| aggregation | `aggregator.rs`, `data/db.rs:218-271` | tables `aggregated_*` | one aggregation per symbol and interval |
| trader | `main.rs:371-394`, `trader/trading_strategy.rs`, `trader/notification.rs` | where it stands in a tick | `evaluate_and_execute` |
| position manager | `trader/position_manager.rs` | none | sizes and the four kinds of order |
| broker clients | `trader/broker_client.rs` | none (the account is the broker's) | balance, positions, buy, sell, short, cover |
| indicators and signals | `indicator_server.rs`, `indicator_client.rs`, `trader/signal_analyzer.rs`, `trader/signal_aggregator.rs` | none | pure functions of the prices |

**How they interact.** The handlers of the configuration service change
`Arc<RwLock<Settings>>` and send `()` on a broadcast channel of 16 slots. The
main loop reads the settings at seven places, each under a read lock of its own,
starts the indicator server, the streamer, the aggregators and the trader from
what it read, and waits on the channel and on Ctrl-C. A message, or the `Lagged`
error of a full channel, makes it abort the tasks whose handles it holds, sleep
for 100 ms and begin again. The streamer runs on a blocking thread whose handle
is dropped; its callback adds prices to the buffer of its pass and spawns a save
task for every message. The trader reads the buffer, asks the indicator server
(over gRPC, in the same process) for averages, and asks the broker for positions
and balance before it orders.

**What is hard about it.** Settings that change between two reads. Messages that
overtake the write they announce, or overflow the channel. Tasks that outlive the
pass that started them. Rows saved by tasks that overtake each other. Prices that
arrive between two calls of one evaluation, and strategies that fail in it. Queries
over a window that moves with the clock. Four broker
calls between which the account may change, each of which may fail, while a
restart may abort the trader with an order on the wire. Answers that get lost
after the order was executed. Orders alpaca accepts now and fills later.

**What makes each part correct.**

- *Configuration service and main loop:* once the loop waits, what runs is what
  the settings say, but for what was aborted and has not stopped yet, and that is
  gone in the end; every restart is caused by a change, and every change leads to one.
- *Market data:* the buffer ends with the latest prices in the order in which they
  were heard; a streamer saves no message twice or in the wrong table. (Streamers
  of earlier passes save it too, each once.)
- *Trader:* a position is opened from nothing and closed as a whole, and the limits
  hold for the account the order meets, unless the trader has decided while an
  earlier order was still on its way; the user is told only of orders that happened;
  one symbol's failure does not stop the others.
- *Aggregation:* the row of the current day is complete up to the last query; between
  queries of which none fails and none is later than the one before, no row is lost.
- *Indicators and signals:* a signal is the one that the whole history of prices
  calls for, although the strategy sees a buffer that changes under it; each
  indicator is what its definition says; with the default weights, one strategy that
  fails causes no trade (two may).

## 2. The modules

| module | what it is |
|---|---|
| `ConfigService` | settings, files, handlers and broadcast channel |
| `Supervisor` | the main loop beside `ConfigService` (extends it), with the properties of both |
| `Propagation` | the abstract specification `Supervisor` implements |
| `PriceBuffer` | the queue of prices, used by `MarketData` and `Signals` |
| `MarketData` | streamers, buffers, save tasks, tables, restarts and crashes |
| `Indicators` | the indicator service: eleven functions of a list of prices, and its handler |
| `Signals` | the first half of `evaluate_and_execute`: strategies, detectors, the weighted decision |
| `Trading` | the second half: position manager and both brokers, with their properties |
| `Holdings` | the abstract specification `Trading` implements on a depot |
| `Aggregation` | the aggregator of one symbol, its two queries and the clock |
| `MCSupervisor`, `MCMarketData`, `MCSignals`, `MCTrading`, `MCAggregation` | values of the constants for TLC |
| `SupervisorProofs`, `PriceBufferProofs`, `MarketDataProofs`, `IndicatorProofs`, `SignalsProofs`, `TradingProofs`, `AggregationProofs` | theorems and proofs |
| `FoldProofs` | lemmas about sums and folds that the proofs share |

The operators named "Mutated form of ..." are deliberately wrong variants of the
operator they precede. No specification uses them: each is the change that makes
one property fail, which shows that the property can fail.

### ConfigService and Supervisor

| variable | code |
|---|---|
| `settings`, `disk`, `edition` | the shared `Settings`; what `Settings::load()` would return; how often the files were edited |
| `call`, `loaded`, `applied` | how far each gRPC call has got; the settings a reload holds before it has the lock; the edition last written |
| `unread`, `lagged`, `sent` | the receiver's view of the broadcast channel |
| `pc`, `gen` | where the loop stands; the snapshots of this pass |
| `tasks`, `handles`, `aborted` | live tasks, those whose `JoinHandle` the loop holds, those that were aborted and have not stopped |
| `port`, `env`, `signal`, `restarts` | who listens on the indicator server's port, `APCA_API_KEY_ID`, Ctrl-C seen by the select, passes after the first |

`UpdateConfig`, `AddSymbol` and `RemoveSymbol` hold the write lock from the first
check to the answer, so each is one step. `ReloadConfig` reads the files first,
takes the lock for the write only and sends after it is released: three steps
(`ReloadLoad`, `ReloadWrite`, `ReloadSend`). The loop has one action per read
of the settings. Creating the broker and connecting to the indicator service may
fail and leave the pass without a trader. A restart aborts the tasks
(`AbortTasks`), sleeps and goes on (`Restart`); it waits for none of them. An aborted
task stops at its next await (`TaskStops`), at any later moment, so two passes may
overlap: two traders, two aggregators, and an old indicator server that still
has the port and so keeps the new one from it (`IndicatorFails`), while the new trader
connects to the old one (`ConnectIndicator`). Streamers stop only when their connection ends
(`StreamerEnds`). Ctrl-C before the first select kills the process (`Killed`),
since nobody has installed a handler yet.

Left out: hosts, ports, passwords, numeric limits, the lists of strategies;
`Database::new` and the prefill, whose failures are logged and change nothing
that is started. `Settings::load` never yields a half-read file.

`Propagation` knows the configuration that is wanted, the one the services are
given, and whether they are settled on it. `Supervisor` maps `wanted` to the shared
settings as a pass would read them, `active` to the snapshots of the pass, and
`phase` to "settled" when the loop waits and nothing is announced. That every step
of `Supervisor` is one of `Propagation` says more than the invariants: a change
disturbs the services at the step that makes it, and between two changes nothing
unsettles them.

### Trading and Holdings

| variable | code |
|---|---|
| `pc`, `next`, `plan`, `reply` | where `evaluate_and_execute` awaits, the symbol, what it has read, the answer to its order |
| `cash`, `shares`, `quote`, `listed` | the broker's account; the price it reports per share; its list of positions |
| `wire`, `orders` | requests on their way; alpaca orders accepted and not filled |
| `submitted`, `executed`, `notices`, `aborts` | history: orders sent, taken on, notified; restarts |
| `unsure`, `blind` | history: symbols whose position was last read while an order for them was on its way; whether any order was on its way at the last such read |

Each call to the broker is one step: the positions (`OnPosition`), the balance
(`OnBalance`), the positions again (`OnPositions`), the order (`Submit`, `OnReply`).
Any of them may fail (`ReadFails`, an answer "broken"). The connection may break
while the order is on its way (`Break`), or its answer get lost, and the order be
executed later. The trader may be aborted at any point (`Abort`); its request stays on
the wire, and the next trader starts without waiting for it (`Start`). A depot executes
before it answers (`Execute`) and may keep a closed position in its list with no shares;
alpaca accepts (`Accept`) and fills at some later price (`Fill`). `OnReply`
treats the answers as the two clients do: a depot's refusal is an error, alpaca's
HTTP status is not looked at.

The signal and the price are any of the values allowed: the properties hold
whatever `Signals` decides. Money is integral, so the rounding of `f64` is
not modelled; `floor` is the integer division of `Size`.

`Holdings` knows `shares` and `unsure`. `Open` takes a symbol from no shares to some,
`Close` takes it back to none, or by as much as an `i32` carries; both need the symbol
in sight. A symbol goes out of sight when its position is read while an order for it is
on its way (`LoseSight`), and comes back at the next read with none (`RegainSight`);
only out of sight may an order meet shares it was not made for (`Slip`). `ImplementsHoldings`
states that every step of `Trading` on a depot is one of these or changes neither.

`unsure` and `blind` are not the program's: no guard reads them. They say exactly how
far the trader can be trusted. It decides from what the broker reports, so an order of
its own that the broker has not executed yet, left by a broken connection or by the trader
before a restart, is one it does not see. It may then order twice. The properties
say that there is no other way to a wrong order, and that it does not last.

### MarketData

| variable | code |
|---|---|
| `feed` | what the market has sent; the place in it stands for the price |
| `pass`, `todo`, `buffer` | the latest pass of the loop, how far it has prefilled, its `DataBuffer` |
| `database` | what each pass has for a database: not opened yet, open, or a pool for a dummy address |
| `streamer`, `since`, `heard` | the streamer of each pass, where in the feed it connected and how far it has got |
| `saving`, `trades`, `bars` | save tasks under way; the tables |
| `told` | history: what the streamer of this pass has heard of each symbol |

`OpenDatabase` is `Database::new` with the fallback of `main.rs:81`: a pass whose
database cannot be opened works with a pool that never connects, so its queries and
save tasks all fail. Each pass has a buffer of its own, as in the code
(`main.rs:101`); the model keeps that of the latest pass and does not follow those that
nobody reads any more. The prefill tries bars, then trades, one symbol after the other
(`FillFromBars`, `FillFromTrades`; a failed query and an empty table take the same
branch). `Hear` is the callback: it adds the price and spawns the save task. Save
tasks run in any order (`Save`) or fail (`SaveFails`). `Restart` leaves streamers
and save tasks running; `Crash` ends the process at any moment, loses what was
to be saved and begins anew.

Assumed: one database and one set of subscriptions throughout, and tables that
return their rows in the order they were inserted, although no query has an
`ORDER BY`; the contents of the prefill depend on it, `LatestPricesKept` does not. A
change of the symbols is not followed.

### Indicators and Signals

| variable | code |
|---|---|
| `strategies` | the strategies with their weights (`main.rs:305-370`) |
| `feed`, `buffer` | every price heard of the symbol; what the `DataBuffer` holds of it |
| `pc`, `turn`, `asked` | where `evaluate_and_execute` awaits, the strategy it is at, what that one has read and been answered |
| `votes`, `decision` | the `WeightedSignal`s so far, each with the moment its prices were read; the `AggregatedSignal` |

`Indicators` has an operator for each `calculate_` function, with its name. Prices
are positive integers and results are ratios of integers, compared by
cross-multiplication; of a standard deviation the variance is kept, so that a price
is compared with a band by squares. `gen_liste` is the handler, with the default
options and the two panics, which the caller sees as errors.

Each strategy is `ReadPrices`, one call (`Answered`) or two for a crossing, and a
vote; `TooFewPrices` votes "hold" at once; a call that fails leaves no vote
(`CallFails`). `Hear` adds a price between any two of these steps. `Panic` is the
`unwrap()` of `trading_strategy.rs:149`, which a period of 0 reaches. `Decide` is
`SignalAggregator::aggregate`. The confidence is always 1 in the code and left out.

### Aggregation

| variable | code |
|---|---|
| `configured` | `aggregation_interval_hours` |
| `now` | the clock, in hours |
| `rows`, `days` | the tables: timestamps of the rows; for each day, the rows its aggregate was computed from |
| `pc`, `due` | the task: waiting for a tick, at either query; when the ticker ticks next |
| `orphan`, `stops` | a query whose task was aborted and which the database still runs |
| `last`, `counted`, `course` | history: the last query of each table, the rows ever aggregated, and since when its queries have followed each other without a failure and without growing later |

An aggregate is kept as the set of rows behind it: average, sum, count, open, high,
low and close are functions of that set. `Window` is the `WHERE` clause, `GroupOf` the
`GROUP BY`, `Replace` the `ON DUPLICATE KEY UPDATE`. Hours pass between any two steps,
so each tick and each query may come late; how late a query is counts from the tick
it belongs to. A failure, a restart, or a query later than the one before ends a course,
because then the code does lose rows: nothing asks for them again. A `u32` interval of 0 becomes 1, as in the code.

## 3. The runs

Every run is exhaustive within its bounds. Bounds are constants whose names begin
with `Max` and which the actions name in their guards. Deadlock is not checked:
the bounds stop every behaviour in the end, and a process that has exited stays so.

| run (`MC...cfg`) | checks | shows |
|---|---|---|
| `supervisor` (`Supervisor`) | `TypeOK`, `NoStaleConfiguration`, `TasksFollowSettings`, `NoSpuriousRestart`, `ImplementsPropagation`, `ReloadTakesEffect`, `OverlapEnds` | What runs and is not aborted is current, and every restart caused by a change, although seven reads and the announcement of a reload interleave; `Propagation` is implemented; a written change is in effect in the end, also when the channel overflows; passes overlap only for a while. |
| `market_data` (`MarketData`) | `TypeOK`, `LatestPricesKept`, `SavedAtMostOnce` | The buffer is bounded and ends with the latest prices; each streamer saves a message at most once. |
| `signals` (`Signals`) | `TypeOK`, `SignalsMatchHistory`, `OneFailureCausesNoTrade`, `IndicatorsAgree` | Signals are those the whole history calls for; with the default weights one failed strategy never causes a trade; on every short series each of the eleven indicators is what its definition says. |
| `depot` (`Depot`) | `TypeOK`, `OrdersFitHoldings`, `OrdersWithinLimits`, `NotifiedWasExecuted`, `ImplementsHoldings` | Orders fit the account they meet and its limits unless decided on while another was on its way; only executed orders are notified; `Holdings` is implemented; all this with lost answers, late orders and a restart at any point. |
| `alpaca` (`Alpaca`) | `EveryTurnComes` | Both symbols have their turn at every tick, whatever fails, as long as calls return. |
| `aggregation` (`Aggregation`) | `TypeOK`, `TodayComplete`, `NothingFallsBetween` | The row of the current day is complete up to the last query; successive windows leave no gap. |
| `removed_symbol` | `RemovedSymbolNotStreamed` fails | finding 1 |
| `reload_order` | `ReloadsDoNotGoBack` fails | finding 2 |
| `shutdown` | `ShutdownCompletes` fails | finding 3 |
| `alpaca_pending` | `LongsWithinCash` fails | finding 4 |
| `short_limits` | `ShortsWithinPortfolio` fails | finding 5 |
| `golden_cross` | `GoldenCrossBuys` fails | finding 6 |

What the less obvious properties say:

- `OverlapEnds`: a task of an earlier pass that still runs beside this one is gone in
  the end. A loop that drops its handles instead of aborting them fails it.
- `OrdersFitHoldings`: an order on the wire opens a position where there is none, or
  closes what there is, for every symbol not in `unsure`.
- `OrdersWithinLimits`: an order decided on with nothing on the wire keeps the limit of the
  cash for all longs (`position_manager.rs:9`), and, while no short position raises the cash,
  the three limits of the portfolio (`:8`, `:10`, `:11`). With short positions the last one
  is broken: `ShortsWithinPortfolio`, finding 5.
- `EveryTurnComes`: from the first symbol's turn, each other symbol's follows, or the
  trader is aborted. An error that ends the tick instead of the symbol fails it.
- `NothingFallsBetween`: within a course, every row from an interval before the first
  query on and before the hour of the last one has been aggregated. A ticker that drifts when a tick comes
  late fails it, and so does a window one hour too short.
- `IndicatorsAgree`: minimum, maximum, averages, both deviations and the bands are
  computed afresh from each window; an exponential average lies 2/(n + 1) of the way from
  the one before to the new price; the rate of change is the rise over a period; the
  strength is the share of the rises in the way the price has gone (with the code's value
  where there is no fall); drawdown and drawup are the worst of all pairs of prices.

**Bounds.** `supervisor`: one client, two changes and one edit of the files,
two restarts, a channel of one slot. The channel of the program has 16; one slot
makes the second change overflow it. An aborted task outlives one restart at most
(`MaxOverlap`), which is enough for two passes to overlap at every step. Two files differ
in symbols and trading section, so that a mixture of two is seen; one name and one
database, so that the database is not varied here (the theorem
`SnapshotsAreCurrent` covers it). Runs about the order of reloads have two clients. Two
changes and two restarts are what it takes to change the settings in a pass that a change
has caused.
`depot`, `alpaca` and `short_limits`: two symbols, limits under which two positions do not
both fit, an `i32` that saturates at 4; two prices in the first two, and one restart.
`alpaca_pending` has one symbol, so that what is bought again is the same position.
`MaxOrders` counts orders sent before a tick begins, so that ticks are never cut short:
three of them open, close and open again, or leave one late order between two more.
`market_data`: three messages, two passes, a buffer of two prices and one of
one; three messages overflow both. `signals`: every series of up to six prices
out of 1, 2 and 4, a buffer of three: twice as many prices as fit, and three
values make rising, falling, flat and mixed windows of every period. Three lists of
strategies: the default one with its weights and short periods; one with periods and
weights of 0; one whose short period is the longer one. `aggregation`: days
of two hours, five points in time, so the window crosses midnight twice;
intervals of 0 (which becomes 1, shorter than a day), 2 (a day, as in the default)
and 3; two trades and a bar; one stop that may leave a query behind.

The largest runs have 0.5 million (`supervisor`), 0.9 (`alpaca`), 1.0 (`signals`), 1.3
(`market_data`), 2.2 (`depot`) and 5.7 million (`aggregation`) distinct states and take up
to about three minutes with two workers.

**Fairness.** `Supervisor!Fairness`: the loop's own steps and its restart are
taken, aborted tasks stop (tokio drops them at their next await), a reload that has read its files goes on. All of these
are code that runs without waiting for anybody, or connection attempts that
succeed or fail. The run `supervisor` checks its safety properties under it too,
which makes no difference to them. Nothing is assumed of clients, users, or the streamer's
connection; `shutdown` fails for that reason and not for want of
fairness. `Trading!Fairness` is one action: an answer that is there is dealt with
(`OnReply`). The code sets no timeouts, so nothing makes a broker answer:
`EveryTurnComes` has that as its antecedent (`CallsReturn`), which is an assumption about the
network and stands in the property for all to see. Ticks need no fairness: the property
begins with the first symbol's turn.

## 4. Findings

1. **Removed symbols are still streamed** (`main.rs:169`). The streamer's thread
   cannot be aborted. After "removed successfully. Restarting services..." the old
   stream goes on, as one more connection, for the old symbols.
2. **Reloads can go back** (`trader/config_reloader.rs:44`). Files are read before
   the lock is taken: of two reloads the older contents may be written last. It
   takes two clients (`LoneReloadsDoNotGoBack`).
3. **The shutdown may not end** (`main.rs:169`). The loop breaks on Ctrl-C, but
   dropping the runtime waits for the streamer's blocking thread.
4. **Pending alpaca orders are repeated** (`trader/broker_client.rs:307`). An order
   that is accepted and not filled is not a position, so the next tick buys the same position
   again; when both are filled, more than the limit is invested. The trace has one symbol:
   5 shares at 10, then 5 more, and no cash is left where 80 % was the limit.
5. **Short positions exceed their share of the portfolio**
   (`trader/position_manager.rs:126`). "Max 50% of portfolio in short positions"
   (`config/default.toml:42`) is taken of the cash balance, which earlier shorts have raised
   by their proceeds. With a portfolio of 100, three shares are sold at 10 for 130 in
   cash, and three of another symbol follow: 60 are short. With no short position
   yet, cash and portfolio agree well enough (`DepotWithinLimits`).
6. **The default crossing never trades** (`trader/signal_analyzer.rs:18`). A crossing
   needs two values of each average. A buffer of `buffer_size` prices yields one
   value of an average over `long_period`, and both are 200 in `config/default.toml`:
   the strategy with the largest weight holds for ever. With one price more in the
   buffer it does what it says, for all periods and prices (`RoomForCrossings`).

Also met, and no run of their own: `UpdateConfig` installs duplicate names, which
`AddSymbol` refuses (`trader/config_reloader.rs:74`, `:107`). A rejected alpaca order is
notified as executed, because the status of the HTTP answer is not looked at
(`trader/broker_client.rs:317`); `OnReply` has it so, and `NotifiedWasExecuted` is claimed for
a depot only. An order can be doubled (`trader/trading_strategy.rs:288`): when it is executed after
its connection has broken, or after the restart that aborted its trader, and the trader has
read the positions in between. `depot` has those behaviours, and its properties say
what holds in spite of them. A row is in no aggregate when a query fails, or comes later
after its tick than the one before it (`aggregator.rs:38`). The trader is missing for a whole
pass when the indicator server takes more than 100 ms to bind its port (`main.rs:120`).
Prefilled prices may be out of order
(`data/data_buffer.rs:103`, "Sort bars by time just in case": nothing does). The
aggregate of *yesterday* is overwritten by the part of it that the window still holds,
with the default interval of 24 hours at every tick. Flat prices have an RSI of
99 (`indicator_server.rs:145`), a signal to sell. A Bollinger period of 0 ends the
trader's task when the buffer is empty (`trader/trading_strategy.rs:149`). When two
of three strategies fail, the third decides alone.

## 5. The proofs

The proofs assume what the modules name with `ASSUME` and nothing more: ranges of
the constants. They hold for any number of clients, symbols, messages, restarts
and orders, with one remark for each bound: it is a constant like any other.

**SupervisorProofs.** `IInv` = `ControlOK` /\ `ReadsFresh` /\ `TasksMatch` /\
`NoSpuriousRestart`. `NoStaleConfiguration` speaks of the loop when it waits, but
each snapshot was taken earlier; `ReadsFresh` says of every step of the loop that
what it has read so far equals the settings *or a change is announced*.
`ServiceAnnounces` is the lemma behind it: a handler that changes the settings
leaves an announcement, and no handler takes one away. `TasksMatch` ties each live
task that was not aborted to the snapshots of the pass. The theorems are
`ControlCorrect`, `SnapshotsAreCurrent`, `TasksAreCurrent`, `RestartsAreCaused` and
`OldTasksAreAborted`: streamers apart, a task that was not aborted belongs to the pass
the loop is in and is the only one of its kind, so passes overlap in tasks that are about
to stop and in no others. That they do stop is liveness, and TLC's (`OverlapEnds`).
`SupervisorImplementsPropagation` is the refinement: by
`ReadsFresh` the snapshots equal the settings whenever the loop settles, and by
`ServiceAnnounces` a step that changes the settings maps to `Ask`.
`SupervisorTypeOK` adds the data: the settings, the files and what a reload holds
are settings, so the snapshots are, and the names of the tasks are known names
(`DataOK`, `SnapshotsTyped`). `LoneReloadsDoNotGoBack` is the other side of
finding 2: with one client, what a reload has loaded is never older than what is
applied (`LoneReload`), so only a second client's reload can come between.

**PriceBufferProofs.** `AddKeepsLatest`: a buffer that ends with the latest prices of
a history does so again after `AddPrice`. Prefilled prices give way one by one; that
none of them comes back is the point of the lemma.

**MarketDataProofs.** `SaveInv` says that all a streamer is saving or has saved lies
behind its place in the feed, and that nothing saved is being saved.
What it hears next is therefore new to every table and task: `SavesAreSingle`.
`BufferInv` adds the ranges, `PassOK` (the streamer of this pass cannot be live
before the prefill is done, and later passes have none) and `LatestPricesKept`,
which then follows from `AddKeepsLatest`: `MarketDataTypeOK`, `BufferKeepsLatest`.

**IndicatorProofs.** `EveryListAgrees`: what `IndicatorsAgree` says of the series TLC
enumerates holds of every list of positive prices and every period in it. Every
indicator is a fold, or one fold for each window. `LeftFoldSteps` turns a fold into
the row of its intermediate values, and `StepByStep` carries a fact from each value
to the next; this is the induction by hand that the prover offers no theorem for.
The parts:

- *Rolling values.* `RollingAgrees`: the extremes of a window (`LargestIsMax`,
  `SmallestIsMin`); the variance is the mean of the squares less the square of the mean
  (`VarianceIs`); the average deviation is twice the mean of what exceeds the average
  (`DeviationIs`, since deviations from the mean cancel: `SumOfExcess`); the bands
  (`BandsAre`); and the average deviation is at most the standard one (`DeviationWithin`),
  which is the Cauchy-Schwarz inequality (`SquareOfSum`), proved one term at a time.
- *Exponential averages.* `AveragesAgree`: there is one for each simple average, the first
  is a simple one, and each other lies 2/(n + 1) of the way from the one before to the new
  price (`EmaFollows`); so all stay in the range of the prices so far (`EmaWithin`).
- *Moves.* `MovesAgree`: the rate of change is the rise over a period. Gains and losses
  add up to the way the price has gone, and their difference to what it has come
  forward (`WayOfMoves`), so the strength is the share of the rises in that way
  (`StrengthIs`), and the case without losses is the code's own value.
- *Extremes.* `ExtremesAgree`: the program compares each price with the highest so far
  only, the definition compares all pairs. The best fall from any earlier price is the one from
  the highest (`DrawdownAgrees`), since ratios of positive integers are ordered by
  cross-multiplication (`AboveIsOrder`, `NotAboveTransitive`, `BestOfPairs`).

**SignalsProofs.** The buffer is exactly the latest prices of the feed (`BufferKept`);
what a strategy has read, and what it has been answered, belong to the moment
`asked.seen` (`AskedThen`). An average, a strength or a band over the last prices of
the buffer is then that over the last prices of the history, provided the buffer
reaches back far enough, and the vote is the signal of that history:
`SignalsFollowHistory`, for all lists of strategies, and `SignalsTypeOK`.
`RoomForCrossings` draws the conclusion finding 6 asks for: buffers with one price
more than the longer period miss no golden cross.
`IndicatorsOfAnyFeedAgree` applies `EveryListAgrees` to whatever the market has sent.

`OneFailureIsHarmless` is about the default weights 4, 3, 3 and thresholds of 6 tenths,
which it assumes, and about any strategies, periods and prices. It needs a second
invariant, since `OneFailureCausesNoTrade` compares a decision with votes that were
cast earlier: `DecisionStands` says that a decision is still what the aggregator makes
of the votes. With one of three strategies missing there are two votes, of the two
others (`TwoVotes`), and neither alone reaches the threshold of what the two weigh
(3 of 6, 3 of 7, 4 of 7). So both say the same, with 6 or 7 tenths, and that is enough
against whatever the third would have said (`TogetherOnly`). Weights of 5, 3, 2 would not do: 5 of
7 decide alone, and 5 of 10 do not.

**TradingProofs.** Nothing is assumed of the depot's speed, of its answers or of the moment
of a restart. `DepotInv` carries what the trader knows of a symbol in sight: where it asks
for its balance it holds nothing of it and no order for it is on its way (`KnowledgeOK`); at
most one order for it is on the wire (`WireOK`), and it fits the shares it will meet
(`OrdersFitHoldings`). A read puts a symbol in sight only if nothing is on its way for it, and
an order for a symbol out of sight changes that symbol only; so the knowledge is kept.
`DepotOrdersFit` and `DepotImplementsHoldings` follow.
`DepotNoticesAreTrue`: `NoticeInv` says that an answer "accepted" belongs to an executed
order. `SizeWithinLimits` is the arithmetic of `calculate_position_size`: a position of the
computed size respects both limits, for all integers. `TradingTypeOK` holds with either
broker; `TypeInv` ties the prices and counts on the wire to their ranges.
`DepotWithinLimits` joins the two. Its `SightOK` is about the whole account: unless the trader was
`blind`, nothing is on the wire while it asks for the balance and the positions, and so
the balance that was read is still the cash when the positions arrive. The exposure is an
integer (`ExposureType`), and `SizeWithinLimits` does the rest. With no short position the
cash is at most the portfolio, which gives the limits of the portfolio.

**AggregationProofs.** `TypeOK`, `TodayComplete`, `NothingFallsBetween` and `CourseOK` are
inductive together. `TodayIsComplete`: a window of at least a day, taken now, holds
all of today, so a replaced row is a complete one. `CoursesLeaveNoGap`: `CourseOK` ties the
last query of a course to the ticker: it ran at its tick, which is `due` less one interval,
or two while the present tick has not come to that table yet, plus its delay. The next
query of the course runs an interval after that tick with no greater delay, and its
window reaches back to the last one. A ticker that counted from its late tick would not
keep `CourseOK`.

**FoldProofs.** The operators of the community modules compute sums by a recursive
function over a finite set. The library's induction theorems take an operator as a
parameter and cannot be cited here; the lemmas use a least counterexample
instead (`LeastElement`): of the sets on which a fold has no value of its type, one
has the smallest size, and picking one element less refutes it. The same argument
gives that a sum of natural numbers is one (`SumOfNaturals`), and, for folds over a sequence from the left, the row of all
intermediate values (`LeftFoldExists`, `LeftFoldSteps`).

**Only model-checked.** Liveness (`ReloadTakesEffect`, `OverlapEnds`, `EveryTurnComes`),
which is out of the prover's reach, with `ENABLED`. Every other property of a passing run is a
theorem. The runs that expect a violation are counterexamples and need no proof; for
three of them a theorem names what has to be otherwise (findings 2, 5, 6).

## 6. Assumptions

- Nobody else trades on the account, which starts without positions.
- A task that was aborted reaches an await in the end (`OverlapEnds` and
  `ReloadTakesEffect` only). How long it takes is open: main.rs:424 sleeps 100 ms, and the
  model lets it live on into the next pass. An order that an aborted trader still sends on
  its way to that await is one it has sent before, for `Trading`.
- The account is traded by one trader at a time, but for the orders an aborted one has left
  on their way. Two traders that overlap while both are live (`OverlapEnds`) are not followed
  into `Trading`.
- A broker's answer is never delivered to another request.
- Integers, and ratios of integers, where the code has `f64`: what rounding does to a
  threshold that is met exactly is not modelled.
- The clock of the database and that of the ticker agree, and do not jump.

## 7. Not modelled

- `Database::init` and `drop_tables` (`data/db.rs:10-67`, `:201-215`): only a test calls the one, nothing the other.
- `conf_reload` of the indicator server, which answers a constant, and the getters of
  `DataBuffer` that nothing calls (`get_latest_n`, `len`).
- The limits, thresholds and intervals of `settings.rs` as values that may be
  wrong; an evaluation interval of 0 ends the trader's task (`main.rs:376`).
- `Signals` and `Trading` in one module. `Trading` allows every decision at every tick, so
  what it shows holds for those `Signals` makes; a restart of `Supervisor` is its
  `Abort`.
- Generated code, the Dockerfile and the build script, which have no state.

## 8. Plan

Every component with state is modelled. What could follow:

1. Several symbols and strategies in one composition of `Signals` and `Trading`, to see
   how long an old price may lie between a signal and its order.
2. `Trading` with two live traders, for an aborted one that reaches its next await only
   after the next pass has begun to trade.
3. A second aggregator and duplicate rows, to bound what copies saved by several
   streamers do to sums and counts.
