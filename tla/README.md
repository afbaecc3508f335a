# ScalpBot-OS: TLA+ models and proofs

ScalpBot-OS is a Go trading bot. It reads ticks, turns them into signals, asks a
risk manager for permission, sends orders through a pool of workers to a broker
(a mock, or MetaTrader 5 over TCP), and manages every open position tick by tick.
This directory models the parts that decide whether money is at risk: the risk
manager, the order dispatcher, the position tracker, the path from a tick to an
order, the link to the terminal, the files, and the goroutines of
`cmd/bot/main.go` that tie them together.

`PROJECT.json` lists components, runs, mutants, hazards, findings, theorems, and
for every definition the source lines it stands for. Paths below are relative to
`src/`.

## 1. Inventory

### Components and their state

| Component | State it keeps | Operations | Model |
| --- | --- | --- | --- |
| `internal/risk/manager.go` Manager | equity, day's result, position counts (total, per symbol), breaker and target flags, day of the last reset, lot override, limits | Evaluate, EvaluateWithConfidence, RecordFill/Close, SyncPositions, setters, RestoreDailyState | RiskManager, RiskGate |
| `internal/executor/dispatcher.go` Dispatcher | order channel, in-flight symbols with times, workers | Submit, worker, executeOrder, Stop | Dispatcher, OrderDesk |
| `internal/executor/tracker.go` PositionTracker | positions with stop, target, remaining lots, stage and flags; queued modify events | Add, OnTick, DrainModifications; (live only) UpdateSLTP, UpdatePnL, ReplaceTicket, Remove | PositionTracker, TickLoop |
| `cmd/bot/main.go`, paper mode | order spacing, loss cooldown, pending signals | tick goroutine, signal consumer, fill and reject callbacks, shutdown | TickLoop, PaperPipeline |
| `internal/broker/mock.go` | nothing | Execute, Close, ClosePartial, ModifyPosition | inside TickLoop, PaperPipeline |
| `cmd/bot/main.go`, signal path | per symbol: buffer, candles, averages, trends, 24-hour levels; signal channel | tick goroutine, consumer's gates, stop and target | SignalPath |
| `cmd/bot/main.go`, live sync | pending fills, live account figures, kill switch | reconcile every 500 ms, halt and close handlers | LiveSync |
| `internal/broker/mt5` server, adapter | command connection, stream connection | SendCommand, heartbeat, accept loop, Close; StreamTicks | Mt5Link (not StreamTicks) |
| `bridge/MT5_Bridge.mq5` | its sockets | connects, carries out, answers | environment of Mt5Link |
| `internal/storage/store.go`, trade history in main | two JSON files, completed trades, user's lot | SaveTrade, SaveDailyState, load, merge | Journal |
| `internal/marketdata` | ring buffer, open candles, history | Push, Latest, OnTick, EvaluateConfluence | MarketData, SignalPath |
| filters in `internal/risk`, `internal/news` | tick times, events, recent spreads | Allow, OnTick | velocity and blackout in SignalPath; any veto in RiskManager |
| `internal/strategy`, `internal/indicator`, `internal/ai` | rings, averages, HMM state, settings | OnCandle, EvaluateSignal | in part in SignalPath |
| `internal/backtest` engine, report | open positions, balance, trades, equity curve | Run, CalculateMetrics | Backtest |
| `internal/portfolio` | constant matrix | CheckCorrelation, lot sizing | not modelled |
| `internal/web/hub.go` | clients and their send queues | HandleWebSocket, Broadcast, removeClient | not modelled |
| notifiers, Telegram, web server, telemetry, config, `broker/lifecycle.go` | - | - | not modelled (section 7) |

### How they interact

    feed --tickCh--> tick goroutine --signalCh--> signal consumer
                        |  OnTick, closes,            |  spacing, filters,
                        |  modify events              |  EvaluateWithConfidence
                        v                             v
                     broker <---workers---orderCh--- Dispatcher.Submit
                        ^          |
                        |          +--> fill callback: RecordFillForSymbol, tracker.Add
                     live sync --> SyncPositions, UpdateEquity, UpdateSLTP (MT5 mode)
    main: context, dispatcher.Stop          web, Telegram: limits, lots, kill switch

Every object has its own mutex, so single methods are atomic. What is hard lies
between methods:

* the manager is asked before an order is submitted, and told of the fill on
  another goroutine much later;
* `EvaluateWithConfidence` holds the lock only for its first half;
* the dispatcher's in-flight entry expires by time, whatever its order does;
* shutdown closes a channel that another goroutine may be about to send on;
* one tick can take a position through partial take profit, profit locker,
  trailing and exit, and each of them writes the one stop the broker must learn of;
* the daily reset compares days taken from three clocks;
* in live mode the broker's own view overwrites the tracker's twice a second;
* answers of the terminal carry a number nobody compares: a late one must not meet
  the next command;
* a crash may fall into any write of two files that are saved one after the other;
* the consumer reads tick, trends, levels, confluence and mode one after the other,
  while ticks change them.

What makes the components correct:

* **Manager**: the drawdown limit, once touched, stops trading for the day; no
  approval escapes it; counts agree with the positions; lots respect the cap.
* **Dispatcher**: an accepted order is executed once and answered once; no symbol
  stays blocked; shutdown drains and ends.
* **Tracker and tick loop**: stops only tighten, promised profit stays locked, no
  stop fires on the tick that moved it, the broker's stops and lots follow.
* **Pipeline**: no stacking of one symbol; a breaker stops all but one order.
* **Live sync**: one position per symbol, under its own record, recorded once; halted
  means at most one more order; all books agree again.
* **Link**: an answer is its command's own; no connection leaks; the bridge recovers
  and every call returns.
* **Journal**: what was saved stays; no ticket twice; the user's lot survives.
* **Signal path**: rings and candles sum up the right ticks; stop and target keep
  bounds and ratio.
* **Backtest**: positions, slots, balance, equity and report agree whatever parts are
  closed; the drawdown reported is the worst one.

## 2. Modules

* `RiskManager.tla` has one operator per method of the manager. `Evaluate` is split
  into its outcomes (`FilterRejects`, `HaltRejects`, `GuardRejects`, `Approves`),
  each with the daily resets it performs on its way. `order` is the order the
  consumer holds between approval and Submit; `low`, the lowest result since the
  last reset, is a history variable.
* `RiskGate.tla` calls the manager as its users do. Its `Next` groups the callers:
  consumer, fill callback, closes, sync loop, settings, start-up.
* `OrderDesk.tla` is what the executor promises about an order, in three actions.
  `Dispatcher.tla` implements it, at the grain of critical sections of
  `inFlightMu`, channel operations and calls to broker and callbacks. A send on the
  closed channel is an outcome (`phase = "crashed"`), as in Go.
* `PositionTracker.tla` writes `OnTick` as a composition of functions on a record
  of the position and the events raised so far: `PartialTP`, `Protect`
  (`ProfitLock` or `BreakEven`), `Trail`, `Exit`, in the code's order. Prices are
  counted in pips in the position's favour, which makes BUY and SELL one, except
  where the code treats them differently (`Trails`).
* `TickLoop.tla` adds the tick goroutine, the fill callback and the broker's book.
* `PaperPipeline.tla` composes the manager with consumer, workers and tick
  goroutine; the dispatcher is reduced to the orders in flight, the tracker to
  counts per symbol.
* `Mt5Link.tla` is the command connection: the accept loop, one heartbeat goroutine
  per connection, callers of the adapter and `Close` around `cmdMu` (`call` is the
  mutex and the command under way), with the adviser and the network as environment.
  `Close` takes one step for each of its statements and may stand still between them.
  A command that times out marks the server not ready; the heartbeat of that
  connection then closes it, and the adviser connects anew.
* `LiveSync.tla` composes the terminal's book with the tracker's, the risk manager's
  and `pendingFills`. The reconcile loop lists, overwrites counts, prunes, applies
  and finishes in separate steps; the tick goroutine, a worker, the consumer and the
  user act in between. `recorded` and `late` are history.
* `Journal.tla` follows `recordCompletedTrade`, the lot handlers, the history merge,
  the daily reset, crash and restart. A write cut short leaves `Torn`, a file that
  does not parse. `saved` and `savedLot` are history.
* `MarketData.tla` holds the data structures as operators: one ring for three
  hand-written ones, the two candle builders, averages, trends, confluence.
  `SignalPath.tla` is the state machine over them: `Receive` and `Process` are the
  tick goroutine's two halves, `Take`, the gates and `Submit` the consumer's steps,
  each reading what its lock protects. `ticks` and `opened` are history.
* `Backtest.tla` composes manager and tracker as the backtest engine does: an iteration
  of its loop is `Track`, `SettleClose` for each close event, `Settled`, a signal that
  comes to nothing (`NoEntry`, `Veto`) or goes through `Consider`, `Size`, `Enter` and
  `RecordFill`, and `Sample`. A veto or a refused order skips `Sample`, the last tick's
  too, as the code's `continue` does. The report's sums and drawdown are folds over the
  trades and the curve.
* `MC*.tla` with `*.cfg` are the instances checked.
* Theorems and proofs: `RiskProofs.tla` (RiskGate and PaperPipeline), `Mt5Proofs.tla`
  (LiveSync and Mt5Link), `DispatcherProofs.tla`, `TickLoopProofs.tla`,
  `BacktestProofs.tla`, `JournalProofs.tla`, `SignalPathProofs.tla`. What a tick does to
  a position is proved once, in `TrackerProofs.tla`, for tick loop and backtest. As two
  specifications share a module of proofs, PaperPipeline's is called `PipelineSpec` and
  Mt5Link's `LinkSpec`, with `LinkTypeOK`.

Operators commented "Fault:" are deliberately wrong variants of the operator that
follows. No specification uses them; `PROJECT.json` pairs each with the property
that fails when it takes the operator's place.

## 3. Runs

| Run | Distinct states | Shows |
| --- | --- | --- |
| RiskGate | 1,459,440 | breaker latches, no approval after a breach, a halt lasts the day, an order's lots are the override or within a cap in force since its approval |
| Dispatcher | 129,631 | refinement of OrderDesk, no phantom in-flight entry, guard holds while orders are prompt, every order taken in is answered (so shutdown drains), shutdown completes |
| TickLoop | 839,987 | stops ratchet, stages hold, moved stops do not fire, broker's stops and lots follow |
| TickLoopLive | 7,875 | an overdue position leaves the broker's book |
| PaperPipeline | 2,612 | the total count agrees with the positions, no stacking, at most one late order |
| Mt5Link | 190,857 | answers match their commands, only the current connection is open, the bridge recovers, calls return |
| LiveSync | 146,891 | one position per symbol under its own record, trades recorded once, at most one order after a halt, the books agree again and again |
| Journal | 609,082 | saved trades last seven days, no ticket twice, the lot survives every save, crash and restart |
| SignalPath | 352,161 | rings and candles against their definitions over the tick history, the two candle builders against each other, stops within the limits of the order's trading mode, targets in proportion |
| Backtest | 1,128,510 | one record of the open positions in engine, tracker and slots (`LotsAgree`, `SlotAgrees`); one result in balance, equity and report (`LedgersAgree`); with a trade closed, the report's drawdown is the worst fall of the sampled curve (`DrawdownIsWorst`) |

Two runs show a disagreement between the code and what it says of itself:

| Run | Disagreement |
| --- | --- |
| RiskGateServerTime | Ticks stamped with broker-server time are on another day than the process for hours around midnight. `Evaluate` then resets twice (manager.go:99 and :115), clearing a tripped breaker within the day it was to last. |
| PaperPipelineSlots | The tick goroutine settles closes with `RecordClose`, which names no symbol (main.go:2024): the symbol's slot stays taken and the symbol is refused from then on. |

Met while modelling and not kept as runs:

* `Stop` closes the order channel while the consumer may be between Submit's guard and
  its send (dispatcher.go:102, :89): a panic instead of the graceful shutdown announced
  (main.go:2702). Dispatcher's behaviours include it, as `phase = "crashed"`;
* the profit locker's first stage fires at $3.00 (tracker.go:476), where README.md:132
  keeps the structural stop up to $5.00;
* on a cent account with two symbols, two signals in a row are both approved before
  either fill is counted (manager.go:152), one position more than `MaxOpenPositions`;
* `applyTradingMode` at start-up (main.go:637) replaces the 75 % threshold and the dual
  mode of `config/default.yaml` by the mode's own in every pipeline there is, so range
  signals are always refused while the AI filter is on; a pipeline created later keeps
  the file's settings;
* every tenth snapshot the 24-hour levels are taken from the 30-second snapshots alone
  (main.go:1885-1902), which forgets extremes between two of them;
* in a backtest partial closes lower `openPositions` while the position is open; wall
  clock and tick day reset each other, so that the breaker never holds; and a sample on
  the tick of a partial close counts the part twice, in the balance and in `CurrentPnL`,
  which is taken before the part is closed (engine.go:405). The reported drawdown is that
  of the curve so sampled;
* the report of a backtest that closed no trade says drawdown 0 (metrics.go:73) even if a
  position still open made the sampled curve fall. `DrawdownIsWorst` therefore speaks of
  runs with a closed trade;
* README.md:122 and the comment at main.go:2603 cap the distance of gold's structural stop
  at $6.50. The code multiplies floor and cap by 1.2 in SANTAI mode (main.go:2613), so it
  goes up to $7.80, and down to a floor of $4.20 where the README says $3.50; AGRESIF
  lowers the cap to $5.00. README.md:123 guarantees a target of 2.2 times the risk, the
  code 1.5 times (main.go:2631). `OrdersSound` states what the code keeps, per mode. The
  distance is taken without its sign (main.go:2606): a signal whose stop the price has
  already run through is not dropped, its stop is mirrored to the losing side;
* `Close` of the MT5 server reads the command connection without `cmdMu`, twice
  (server.go:273). A heartbeat that drops it in between leaves a nil to call, a panic in
  the middle of the shutdown, and a connection accepted meanwhile is installed, marked
  ready and outlives `Close`. Both are behaviours of Mt5Link (`closer.at = "crashed"`,
  `Install` after `CloseUnready`);
* a trade the history merge saw first is skipped by `recordCompletedTrade`, file and
  day's figures included; a close after midnight saves the old day's figures under the
  new date; on a later day `LoadDailyState` forgets the lot, which the next save takes
  over from the file again.

### Bounds and why they are enough

* **RiskGate**: two gold symbols, one spelled with the cent suffix; limit two units
  and results of one, so a breach takes several closes and can be followed by wins;
  two days, with a midnight between them (`MaxDay` 2); spreads on both sides of the 35-pip
  limit; computed lots below and above the cap, and two caps to set (`LotCaps`), so that the
  cap can change between the two halves of the sizing. `MaxPositions` 1 fills, with syncs
  and closes that set counts otherwise.
* **Dispatcher**: three orders, two of one symbol, two workers, queue of one. That
  is the smallest instance with a full queue, two workers racing, and an expired
  entry admitting a second order of the symbol. `Window` is two units of the clock,
  `MaxClock` three, so an entry can expire and the next one be admitted.
* **TickLoop**: two positions of any symbol and side; gains below the entry, between
  the thresholds and above each stage; ATRs where the floors or the multiples of the
  ATR decide; a lot that can be split and one that cannot; with and without an
  initial stop. `TickLoopLive` uses one position and more gains and targets. The
  configuration is that of `config/default.yaml`, with the profit locker, trailing
  by ATR and partial take profit; the proofs cover every other one.
* **PaperPipeline**: two symbols, up to four orders, two days. `Prompt` states that an
  order is dealt with before its 90 s spacing and 5 s in-flight entry run out; without
  it `NoStacking` fails, which is the price of guarding with timers. `MaxOrders` 4
  lets each symbol be filled, settled and asked again, with the breaker opening
  between any two steps.
* **Mt5Link**: one caller with one command next to the heartbeats: the mutex already has
  four users, and a heartbeat's late answer can meet the command and the reverse. Two
  faults (a cut, a lost or garbled answer, a silent adviser) use up three connections
  at the most.
* **LiveSync**: one symbol, since symbols only share the mutexes; two tickets, so that a
  position follows another while the list is stale; stops 1 and 2 at the start and 3 the
  tightest, so that a stop can be tightened, loosened by the reconcile and sent late; two
  faults. The spacing ends only after a reconcile cycle that began after the answer
  ("fresh", "listed", "synced"): 90 s against cycles of 500 ms. An outage of the link that
  outlasts the 90 s is thereby excluded.
* **Journal**: three trades for files of two (`Cap`), retention and day of two units in a
  clock of three, so trades expire and days change; one crash, one lot; a trade may come
  in two deals.
* **SignalPath**: six ticks wrap rings of three, two and two entries; the clock moves five
  units or one before a tick, stamped two late, against candles of two, four and eight,
  so candles close, are skipped and are reopened by late ticks. Two prices lie 9 dollars
  apart, more than every stop's floor and cap, so an order is priced before, at and
  beyond its signal's stop. The constants of the code that count candles or ticks (20 and
  50, 100, 2880) are scaled down; those in dollars and percent are the code's own.
  `CandlesAgree` compares the two builders only while no tick came late: the manager's
  ends a candle at any change of period, the pipeline's only at a later one.

* **Backtest**: two positions of gold, so that one follows another; lots that can be
  split and one that cannot; a signal with both levels, clamped to the code's bounds, and
  one without a stop; gains that hit the stop, neither, and both part and target; ticks
  of last year's end that reach today; equity of seven dollars and a limit of three, so
  losses open the breaker; two samples (`MaxSamples`) after the first.

`CHECK_DEADLOCK FALSE` is set everywhere: bounds end the runs of the counters, and the
dispatcher really stops.

### Fairness

* Dispatcher: weak fairness of Submit's later steps, of each worker, of Stop and of
  Exit. Go schedules runnable goroutines, the mock broker's call returns, and main's
  select takes `ctx.Done()` once it is the only case left ready. `Cancel`, new orders
  and the clock have none: nothing makes them happen.
* TickLoop: weak fairness of the tick goroutine's own steps, which never wait for
  anything but themselves. Strong fairness of `Tick` per symbol: the one goroutine
  alternates between ticks and settlements, so a tick of a symbol is enabled again and
  again, and the feed keeps delivering every symbol. `OverdueCloses` needs that: a
  time stop is only looked at when a tick of the symbol arrives.
* Mt5Link: weak fairness of steps that wait for nothing, strong fairness of those that
  take `cmdMu`, which Go's mutex grants in the end (starvation mode); a read ends by its
  deadline without a fault; the adviser's timer fires. Cuts, lost answers, `Close` and
  new commands have none. A panic in `Close` ends the process, which `CallsReturn` allows.
* LiveSync: weak fairness of the reconcile loop, the workers and the sending of stop
  changes, three goroutines with nothing to wait for but commands that return
  (`CallsReturn`). Ticks, signals and users have none. `Settles` needs the faults to end,
  which `MaxFaults` grants.

## 4. Proofs

Every theorem is about the specification its run checks and holds for every value of the
constants. It rests on the modules' named assumptions and, where the table says so, on one
more:

* the modules' assumptions give the types of the constants and subset relations
  (`RiskAssumption`, `GateAssumption`, `DispatcherAssumption`, ...), and keep the markers
  for "nothing" apart from what they replace: `NoOrder`, `None`, `Untracked` (not a
  position), `NoCall` (not a call), `Torn` (not a trade history, not a state), `NoLot`.
  In the code these are nil, an absent map key or a parse error;
* `RemovesClosed`: the tracker drops a position it closes, as main configures it in
  paper mode (main.go:763) and for the backtest (engine.go:81, cmd/backtest/main.go:121).
  In live mode a closed position stays until the terminal's
  list no longer has it, and may raise its close event again at every tick until then;
* `Prompt`, `ClocksAgree`, `BufferBelowStages`, `LevelsBehindPrice`: explained below.

| Theorem | Property | Also assumes |
| --- | --- | --- |
| RiskProofs: `TypeCorrect`, `BreachLatched`, `BreachBlocksApproval`, `LotsRespectCap` | RiskGate: TypeOK, BreachOpensBreaker, NoApprovalAfterBreach, SizedLotsRespectCap | |
| RiskProofs: `HaltOutlastsTheDay` | RiskGate: HaltLastsTheDay | `ClocksAgree` |
| RiskProofs: `TotalIsHeld`, `OneLateOrder` | PaperPipeline: TotalAgrees, AtMostOneLateOrder | |
| RiskProofs: `NeverStacked` | PaperPipeline: NoStacking | `Prompt` |
| DispatcherProofs: `TypesKept`, `NoSymbolStaysBlocked`, `GuardKept`, `DispatcherImplementsDesk` | TypeOK, NoPhantomKey, GuardHoldsWhilePrompt, ImplementsDesk | |
| TickLoopProofs: `StopsNeverLoosen`, `BrokerKeepsUp` | StopsRatchet, BrokerStopFollows | |
| TickLoopProofs: `StagesKeepFloors` | StagesHold | `BufferBelowStages` |
| TickLoopProofs: `MovedStopsWait` | MovedStopNeverFires | `LevelsBehindPrice` |
| TickLoopProofs: `LoopTypes`, `BrokerLotsAgree` | TypeOK, BooksAgree | `RemovesClosed` |
| BacktestProofs: `LedgersTellOneResult`, `ReportedDrawdownIsWorst` | LedgersAgree, DrawdownIsWorst | |
| BacktestProofs: `EngineBooksAgree` | BooksAgree | `RemovesClosed` |
| Mt5Proofs: `AnswersAreOwn`, `ConnectionsClosed` | Mt5Link: AnswersMatch, OnlyCurrentOpen | |
| Mt5Proofs: `LinkTypes` | the types of Mt5Link and one line at a time per connection (`LinkTypeOK`), in no run | |
| Mt5Proofs: `SyncTypes`, `NoStackingLive`, `RecordsKeepTheirTicket`, `HaltStopsOrders`, `TradesRecordedOnce` | LiveSync: TypeOK, OnePerSymbol, OwnTicket, AtMostOneAfterHalt, RecordedOnce | |
| JournalProofs: `TypesKept`, `LotsSurvive`, `TradesSurvive` | TypeOK, LotKept, Durable | |
| SignalPathProofs: `OrdersAlwaysSound`, `RingsHoldTheNewest`, `CandlesSumUp` | OrdersSound, RecentTicks, CandlesAgree | |

### The arguments

**Manager.** The counts stay natural numbers because both decrements are floored.
`BreachOpensBreaker` is inductive given `TypeOK`: `Book` latches whenever the result, and
so `low`, touches the limit; a reset clears `low` with the flag. Only `Evaluate` creates an
order (`ApprovalIsEvaluate`), with the breaker closed after its resets. A halt lasts the
day if ticks and restored state carry the wall clock's day (`ClocksAgree`); without that
it is false, as RiskGateServerTime shows. `SizedLotsRespectCap` is not inductive: the
unlocked second half may find other bounds than the first. `PendingLotsRespectCap` says
what holds of an order in between: its lots are within a cap it has seen, or an override
exists that will replace them, and stays, since no caller sets it back to none. "A cap it
has seen" is the history variable `capInForce`, the largest cap since the approval
(`CapGrows`). Setters are free at any time; what is one step is the second half's own
reads of override and bounds. In the bot an override is in force from start-up on
(main.go:841), so there the first case of the property applies; the other two are the
manager's own promise without one.

**Dispatcher.** `OnePlace`: an order is once in the queue, with one worker, or with Submit,
and in only one of them. Without it two workers could hold one order and run its callback
twice. With it `InFlight` gains and loses exactly the orders Submit takes in, gives back
and `Release` lets go, so each step's effect on the in-flight map is known: an entry goes
when its order goes (`NoPhantomKey`). For the guard, `EntriesFresh` says that while no
order is late, each order in flight still has the entry it made, not expired; a second
order of the symbol is then refused. For the refinement, `Progress` says how far an order
got from where it is: nothing was done for a queued one, and a worker's next step tells
whether broker and callback have been called. Each step of the dispatcher is then one of
OrderDesk's three or a stutter.

**Tick loop.** All of it rests on one relation, `Moves(v, w, gain)`: what a stage of
`OnTick` may do to the work record. Each stage is shown to be a `Moves`
(`PartialTPMoves`, `ProfitLockMoves`, `BreakEvenMoves`, `TrailMoves`), the relation
composes (`MovesTrans`), and `AfterTickOK` adds the exit. `LoopInv` says that positions
and close events are well typed, that a tracked position was filled (so a fill never
overwrites one), and that close events wait only while the goroutine settles them.
Stages keep their floors if the break-even buffer is below 300 pips
(`BufferBelowStages`); no stop fires on the tick that moved it if the configured buffers
and trailing distances lie behind the prices that trigger them (`LevelsBehindPrice`),
and with a buffer above its trigger that is false.
`StopInv` follows a stop to the broker: it is the last one drained, or else the last one
queued, or else the broker's (`Reaches`), and nothing is queued or drained but in the
phase that drains or sends it: otherwise an older stop could be sent after a newer one.
`BookInv` follows the lots: of a position there wait no close events, a part's, the
whole's, or a part's and then the whole's, and the broker holds what they close and what
is left (`Booked`).

**Backtest.** `EngineInv` is the tick loop's `Booked` with the engine's list for the
broker: an entry is in the list as long as a position is tracked or a close event of it
waits (`Live`), and it holds what the waiting events close and what is left. To that it
adds that there is one entry at most, and that the manager's slot is taken from the fill
to the last close. A new position comes in only on an empty slot (`Consider`), so only
on an empty list; parts take one off the manager's total, not off the slot. What
`OnTick` does to `Booked` is shared with the tick loop (`BookedTick`, `BookedSettle`,
`BookedLots`). `LedgerInv`: with every close, balance, equity and the report's gross
profit or loss move by the same result (`LedgersTellOneResult`). The report's figures
are folds over growing sequences; a fold over a sequence with one more entry is the fold
over the sequence and one step (`FoldExists`, `SameByStep`, by a smallest
counterexample). `Tells` says of the drawdown's fold what its two fields promise: the
curve's highest point, and its deepest fall, reached between two points of the curve and
passed by none (`ReportedDrawdownIsWorst`).

**Paper pipeline.** `SlotInv`: an order in flight is spaced, the orders in flight and the
counted positions of a symbol are one together, and the manager has counted no fewer
than are held. Its last part holds because `RecordClose` frees no symbol, the very
disagreement PaperPipelineSlots shows: a symbol is never stacked, and never traded again.
The theorem needs `Prompt`: without it an order still in flight when its timers run out is
followed by a second one. `LateInv`: the late order the dispatcher counts and the one the
consumer holds are one together, since the consumer asks for no other while it holds one
and gets none once the breaker is open. `TotalInv`: the total the manager keeps is the
size of the set of positions filled and not settled (`Positions`). A fill adds one element
and a settlement takes one away (`Cardinality` grows or shrinks by one); the floor under
`RecordClose` never bites, since what is settled is in the set.

**MT5 link.** Nothing compares request numbers, so that an answer is the command's own
must follow from where lines can be. `OneLine`: a connection has one line under way at the
most, in one direction. `QuietBetweenCalls`: while the server is ready and no call is under
way, the current connection is empty; a command that gives up takes `ready` down, and only
`Install` takes it up again, with a connection never used before (`UnusedEmpty`,
`AcceptedOnce`). `Close` only takes `ready` down and closes connections, whichever it
reads. So the line a call finds is its own (`CallOwnsLine`), and what comes back
as done was carried out (`DoneIsExecuted`).

**Live sync.** `LateOrderGone`: an order counts as late only as it leaves the consumer
under a halt, and a halted consumer takes no other. `SyncInv`: a list may be older than
what happened since, so it matters what it can miss: what opened later (`ListComplete`:
not tracked yet). A recorded trade must not come back from a list that still has it
(`RecordedGone`); it was missing from the list that recorded it, and tickets are not
reused (`TicketsIssued`). `AloneInv` adds symbols: each is taken once in the terminal and
in any list (`OneEach`); an order under way has its symbol's spacing fresh and no position
next to it (`OrderAlone`); and when the spacing is not fresh any more, lists have the
symbol's position and a count of zero made of them is true (`CountCovers`). The last one
carries the argument: neither spacing nor count excludes a second position alone. It
uses the spacing's length only through the model's rule that it ends after a whole
reconcile cycle (90 s against 500 ms).

**Journal.** `LotInv` says that the lot in the file is the one last stored, so a save that
names none takes over the right one. `TradesInv`: what was saved is in the order of its
times, up to now and up to the trade being recorded, and the file is an end of it; what is
missing before that is old. Order matters because the file is cut to its last `Cap`
trades: were a trade saved out of order, a recent one could be cut for an old one. That
pruning and cutting keep an end of the saved trades (`RecentOfOK`, `EndsLast`,
`StoreOK`) is proved by smallest counterexamples, in place of induction. For `TypesKept`
the history must stay a sequence of trades through the merge: whichever entries are taken
over, replaced or doubled, and in whatever order equal times end up (`Arrangements`).

**Signal path.** `PathInv`: rings, candles and queue are well formed, a signal is only
taken after a tick, and the order is `Priced` from some signal, tick and mode. The
consumer reads the three at different moments, so nothing is known of how they relate;
that `Priced` keeps the bounds of the mode it was priced under, and the signal's own
distance where it lies between them, is shown for every combination (`StopRange`,
`TargetRange`). `HistoryInv`: a ring's entries, read back from its head, are the end of
what was pushed (`EndOf`), as many as fit (`Holding`). A push appends, whatever head and
count are (`PushEnd`), because it writes over no entry it keeps (`PushBack`); and
cutting the chart's candles to `MaxHistory` does not touch what the strategies' shorter
ring holds (`CutEnd`). From there `Latest`, the walk of the velocity filter and the
swings are computed from the history itself (`LatestIsEnd`, `WindowOK`, `SwingsAreEnd`).
It assumes what the code's constants are: more than one stamp (256), and a strategy's
ring no longer than the chart (10 and 100). `CandleInv` adds the candles. `FramesInv`:
each builder's candle sums up the ticks since `opened`, all but one that is still
pending, and its end is beyond all of them. `NestInv`: if a frame's period divides
another's (the code's M5, M15 and H1 do), its candle lies within the other's: an end of
the large one is an end of the small one, so the large one never ends inside the small
one, whatever gaps and late ticks come. `TrackInv`: while no tick came late, the other
builder's candle of M5 and H1 is the one the frame's builder has, or will have after the
pending tick: a tick lies beyond an end exactly when its period is another one.

### Only model-checked

Liveness and anything about ENABLED, which TLAPS cannot do: `EveryOrderAnswered`,
`ShutdownCompletes`, `OverdueCloses`, `Recovers`, `CallsReturn`, `Settles`. Every invariant
and every action property of the passing runs, and the refinement of OrderDesk, is a
theorem. The theorems use no induction over data, which the provers cannot do; where
the code folds over a sequence, an invariant follows the fold entry by entry.

## 5. Abstractions

Money, lots and prices are integers (units, hundredths, pips, thousandths of a dollar);
quotients are rounded down. In RiskGate and PaperPipeline signals arrive at any time for
any symbol, and a filter may veto any tick; SignalPath models where they come from.
Alerts, logs, telemetry, MFE and MAE do not appear. `RestoreDailyState` restores
consistent snapshots only. The manager's lot override competes with `activeUserLot` of
main, which holds the same value after start-up.

In Mt5Link and LiveSync lines arrive whole: the adviser's `g_cmdBuffer` survives a
reconnect (MT5_Bridge.mq5:846), so half a line would garble the next command. In
LiveSync when to tighten and when to close is any choice (TickLoop has the rules), and a
position leaves the tracker when a list no longer has it. In SignalPath RSI, ATR, HMM
state, confidence and trigger score take any of a few values, the crossover, band and
pullback tests of the strategies are a choice, and pipelines start without cached or
backfilled candles.

## 6. Plan

1. Done: RiskManager, RiskGate, Dispatcher with OrderDesk, PositionTracker, TickLoop,
   PaperPipeline, LiveSync, Mt5Link, Journal, MarketData, SignalPath and Backtest; the
   theorems of section 4.
2. Open, models only: the stream connection with the tick channel; the start-up's cache and
   backfill in SignalPath; the web hub.

## 7. Not modelled

The values of indicators, the HMM and the trigger's score, and lot sizing by volatility:
floating-point numerics; what is decided on them is in SignalPath. The stream connection
(`StreamTicks`) and the full tick channel, which drops the newest tick: any run of ticks
with gaps is a run of TickLoop and SignalPath. `mt5/client.go`: no program uses it. The
correlation guard: switched off, and with one symbol it never blocks. Notifiers,
Telegram, web server and hub, dashboard: input and output around the setters that
RiskGate, LiveSync and Journal drive. Configuration: parsed once. Of the
backtest: the data loader, the tick generator, the ratios of the report; its strategies
and AI filter give any signal and verdict.
`broker/lifecycle.go`: no program uses it.
