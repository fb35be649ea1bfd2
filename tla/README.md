# A TLA+ model of the OKX trading bot

The repository is a Hummingbot fork that trades OKX perpetual contracts with a mean
reversion strategy (`README.md`, `MEAN_REVERSION.md`).  This directory specifies the path
of an order through it: the controller that decides to enter, the queue and the
orchestrator that carry its actions out, the executor that enters a position and gets out
of it, the connector's bookkeeping of the orders, what of all this survives a restart, and
the rate limiter that every request passes.  TLC checks the models on small instances, and
the TLA+ proof system proves their main invariants for every value of the constants.  Line numbers refer to the files under `src/`.

## 1. The system

    pmm_simple (controller) --actions queue--> StrategyV2Base / v2_with_controllers
         |  reads executor infos, positions             | every clock tick
         v                                              v
    candles, order books                      ExecutorOrchestrator --- PositionHold
                                                        | create, early_stop, force_stop
                                                        v
                                               PositionExecutor (control loop)
                                       buy/sell/cancel  |  ^  order events
                                                        v  |
      OkxPerpetualDerivative = ExchangePyBase + ClientOrderTracker + InFlightOrder
                  REST requests |  ^ answers   ^ private user stream
                                v  |           |
                                 OKX  (external)

Everything runs on one asyncio loop, except the database writes.  Hence the unit of
atomicity: the code between two `await`s.  Interleaving happens at each `await`, at each
`safe_ensure_future` (a new task) and at each timer.

| component | state | operations | what makes it hard | what makes it correct |
| --- | --- | --- | --- | --- |
| `ClientOrderTracker`, `InFlightOrder` | active, cached and lost orders, miss counters; per order its state, exchange id and fills | start/stop tracking, order update, trade update, order not found | updates are tasks; one may wait for fills; four sources report the same facts late, twice or never | an order has one home, every fill counts once, every end is announced |
| `ExchangePyBase` (orders) | requests under way, polls | place, cancel, poll status and fills, error handlers | a failure here does not mean a failure there; error handlers run on old snapshots | an order over on the exchange is eventually noticed |
| `OkxPerpetualDerivative` | symbols, positions, last trade timestamp | stream messages, status and trade history requests, positions | an order that is gone raises an error code; each pair overwrites one timestamp | reports are mapped to states once |
| `PositionExecutor` (+ `ExecutorBase`, `RunnableBase`) | status, close type, three order references, retries, held orders | control loop tick, order events, early and forced stop | ticks, events and stops interleave; an order is not cancellable until it is known; a take profit and a market close race | one order of a kind, nothing left behind, every shutdown ends, no reversed position |
| `ExecutorOrchestrator`, `PositionHold` | active executors, held positions, processed ids | execute action, stop with deadline, store, merge held orders | deadline against executors that finish; bounded memory of processed executors | exposure is never dropped nor counted twice |
| `StrategyV2Base`, `v2_with_controllers` | controllers, executor infos, drawdown exits | tick, actions, kill switch, store | acts on infos of a moment ago | a stopped controller trades no more |
| `pmm_simple`, `mean_reversion` | snapshot, cooldown, last entry candle | control task, entry guard, manual close | reads state the orchestrator refreshes later | one executor per pair, one attempt per candle, cooldown |
| `MarketsRecorder` | orders, fills, saved tracking states | event handlers, save, restore | a crash between two saves | a restart takes up every live order |
| perpetual base connector, `PerpetualTrading` | account positions, leverage, funding | position events and polls | a closed position missing from an answer | positions agree with the exchange |
| API throttler | task log, limits | acquire, release | many waiters on shared limits, without an order among them | no limit is exceeded, a waiter whose rivals stop asking gets through |
| `TradingCore`, `ConnectorManager`, clock | started parts | start, stop | stop during start | what was started is stopped |

The other executors (grid, DCA, order, TWAP, XEMM, arbitrage, LP), other connectors, the
gateway, legacy strategies, backtesting, the user interface, the dashboard, the launch scripts and the
market data feeds are listed in `PROJECT.json`.  The deployed configuration does not reach
the first ones, and the last ones only provide inputs that the models leave open.

## 2. The modules

| module | models |
| --- | --- |
| `OrderLifecycle` | abstract: what a connector promises of an order |
| `ClientOrderTracker` | tracker, in-flight orders, and the connector's order requests, stream and polls; implements `OrderLifecycle` |
| `TrackerRecovery` | what of the tracker's orders `MarketsRecorder` saves and a restart restores |
| `ExecutorLifecycle` | abstract: what an executor promises to those who watch it |
| `PositionExecutor` | one position executor among events and stops; implements `ExecutorLifecycle` |
| `ExecutorOrchestrator` | creating, stopping and storing executors, held positions, the shutdown; its executors are `ExecutorLifecycle`'s |
| `MeanReversion` | controller, action queue, strategy tick and kill switch, with the executors they act on |
| `ApiThrottler` | the rate limiters of the bots that share an account |
| `...Proofs` | theorems about the module they are named after (`MeanReversionEntryProofs` extends `MeanReversionProofs`) |
| `FiniteSums` | lemmas about sums and folds over finite sets and sequences, for the modules above |
| `MC...` | the modules TLC starts from; the `MC*.cfg` give the constants |

How they compose.  `PositionExecutor` sees the connector through order events; what it
assumes of them (an end is announced once, fills may come late) is what `OrderLifecycle`
says and `ClientOrderTracker` implements.  The orchestrator and the controller see an
executor through its status, close type and held orders; `ExecutorLifecycle` says how these
change, `PositionExecutor` implements it, `ExecutorOrchestrator` lets its executors take
`ExecutorLifecycle` steps, and `MeanReversion`'s executors, which also carry the position,
are shown to take no others (`FollowLifecycle`).

### ClientOrderTracker

`active`, `cached` and `lost` are the keys of the three dictionaries; `state`, `exId`,
`fills` and `executed` are the fields of the `InFlightOrder` objects, which all three
share.  `created`, `filledEvents` and `terminal` record which events were triggered.  The
size of an order is `Amount` lots, traded lot by lot, so a set of trades stands for the
fills dictionary with its trade ids.  Prices and fees are left out.

* `Schedule` is `process_order_update`: it makes a task, and `queue` holds those that have
  not started.  `RunUpdate` runs the first one up to its end or, for `FILLED`, up to its
  wait; `waiting` counts the updates that wait, and `FillsArrived` and `FillsTimeOut` end the wait
  with the order object the update held all the time.
* `ProcessOrderNotFound` is a whole call of it; its update is awaited in place and cannot
  give way, so it is one step.
* A status poll is two steps: `PollStatus` takes the snapshot of one of the two lists, and
  `PollAnswered` or `PollFails` handles the answer, whatever the order has become.  The error
  handler is chosen by the list of the snapshot.
* The exchange (`Exchange...`) and the loss of stream messages are external: they accept,
  reject, trade, cancel or expire an order in any way OKX may.

Bounds: `MaxQueue` scheduled updates and `MaxWaiting` waiting ones; a step that would exceed them
is disabled, which delays it and loses nothing else.

### TrackerRecovery

`orders` are the tracker's orders of all three dictionaries, with their home; `db` holds
the saved tracking states (`MarketState`), the ids in the table `Order`, those whose end is
recorded, and how many `TradeFill` rows each trade has.  The recorder saves the states of
*all* orders in the transaction of *each* order's event (`DidCreate`, `DidFill`, `DidEnd`), so
that one order's event saves the other.  `Transaction` may commit or fail; a
failed one is logged and the connector goes on.  `Crash` leaves the database alone and may
come between any two steps, `Restart` restores the open and failed orders.  Updates are reduced to what
they change and announce: their interleavings are `ClientOrderTracker`'s.  `abandoned` are the
orders the tracker gives up although they may be open on the exchange: their placement failed or
timed out here, or they were lost and a cancellation that timed out reported them missing once more
(`LostOrderNotFound`, `client_order_tracker.py:250-265`).  Nobody takes them up again, which is
what the code does.  Not modelled: an OPEN update that comes late for a
cached order, and a cancellation that comes before the created event.

### PositionExecutor

`orders` holds all the orders the executor ever placed; `openOrder`, `closeOrder` and
`takeProfit` are ids of orders (0 for None).  `attached` says that an event has set
`TrackedOrder.order`: before, the executor sees no amount, cannot cancel the order and
waits for it.  `RunningTick` is one pass of `control_task` with `control_open_order`, all
the barriers in the code's order, and `evaluate_max_retries` after them.  A tick of the
shutdown is split where the code sleeps for five seconds: `WaitForOrders`, `HoldPosition`,
`Finish` or `CloseAgain` first, `EvaluateMaxRetries` after the sleep.  Each order event is an
action that changes the order and runs the handler.  Prices are nondeterministic: any
barrier that needs one may hold or not.

Switches: `TakeProfitLimit` (LIMIT take profit, the deployed one), `ActivationBounds`
(entry and take profit may be withdrawn), `LateFills` (fills after the end of their order,
which `OrderLifecycle` allows), `StaleStops` (early stops of executors that have ended:
`stop_executor` has no guard, and the kill switch sends them).  `MaxPlaced` bounds entry
and take profit orders; closing orders are bounded by the retries, which is a property.

### ExecutorOrchestrator

`executors` is the list of all executors ever created, `stored` those no longer in
`active_executors`; `positions` are the position holds, each with the orders it has
counted; `remembered` is the deque of processed executors, of `Remembered` entries (50 in
the code).  `Count` is `_update_positions_from_done_executors`, which the tick, the listener and the
shutdown run.  `ProcessOrder` is the arithmetic of `PositionHold` with its branches for
reducing, closing, flipping and adding.  `stop()` is `BeginStop`, one `StopPoll` per turn of
its wait, and `FinishStop`, which has no await in it: force, count, store positions, store
executors.  `rows` is the `Position` table of the market, one row per side; a run begins
with any rows an earlier one may have left.  A tick stores ended executors only while the market data
are ready (`strategy_v2_base.py:320`).  One controller, one market, one-way mode.

### MeanReversion

`infos` is the controller's `executors_info`: a copy taken at the last tick or listener run,
while `executors` go on.  `queue` is `actions_queue`.  The control loop's task is
`ManualClose`, `FixedTakeProfitHit`, `WithdrawEntry` and `ConsiderEntry`, one per return of
the code; `Listen` is the listener, `Tick` the strategy's `on_tick` with the store actions
(skipped while the market data provider is not ready), the drawdown exit and the kill switch.  `position` is what the exchange holds, `seen` what
`account_positions` says, `closing` the controller's own market orders on their way.  The
executors and the exchange are the environment.  Time runs in units of the five seconds of grace
(`Grace`), and within a unit queued actions are executed and market orders end
(`TimePasses`).  A position that changed is seen when a message of the positions channel or a poll
shows it (`SeePosition`).  The message may be lost, and while the private stream is alive the connector
polls every `LONG_POLL_INTERVAL` only (`exchange_py_base.py:42`, `255-265`): time goes on while the
position is unseen, and `unseen` counts the units, up to `PositionDelay`, the length of a poll
interval.  A position that was closed may stay in `account_positions` for ever, for
`_update_positions` removes nothing that is missing from an answer.  Each controller has its
executors, its cooldown and its pair; the model is of one of the ten that are deployed
(`MEAN_REVERSION.md:3`).  They share the actions queue, which the listener empties in one go, so that
none waits for another's batch.

### ApiThrottler

Each bot has its task logs; a log holds a limit, a weight and an age.  `Try` is one turn of
`acquire`'s loop (flush, test of the own and the linked limits, log or sleep), which contains no
await while it holds the lock.  A request travels up to `Delay` units, may be overtaken, and is
counted by the exchange when it arrives.  `Margin` is what `safety_margin_pct` adds to the interval.

## 3. What TLC checks

| run | instance | shows |
| --- | --- | --- |
| `order_tracker` | 1 order of 2 lots, lost at the second miss, 2 queued updates | one home, fills counted once, active orders open, ends announced, created once, `OrderLifecycle` implemented |
| `order_liveness` | 1 order of 1 lot, 1 queued update | an order that is over leaves the tracker, stream or no stream |
| `recovery` | 2 orders of 1 trade, 2 crashes | fills recorded once, recorded orders tracked after every crash but for those the tracker gave up, recorded ends final; an ended order that comes back is forgotten in the end |
| `position_executor` | 2 lots, no retry, 2 entry/take profit orders, late fills, activation bounds | one order of a kind, no orphan, nothing left behind, done closes are filled, closes bounded; a position reversed or entered twice in the named cases only |
| `executor_liveness` | 2 lots that are also the minimum, stale stops | a shutdown ends, nothing is placed after the end, `ExecutorLifecycle` implemented |
| `orchestrator` | 2 executors, a deque and a buffer of 1, rows of earlier runs | held orders counted once although the deque forgets, a stop ends, ends all, and saves what is held |
| `mean_reversion` | 3 executors, 2 candles of 2 units, one close, a cooldown as long as a candle and a longer one, polls of one unit | one executor, cooldowns kept, no candle tried after a trade and tried again only after the grace of an unfilled attempt, entries on a flat position but in two cases although `account_positions` is behind, executors follow `ExecutorLifecycle` |
| `throttler` | 2 bots with half an account each, 3 limits linked to a pool, 4 callers that ask again and again | the account's limits hold, a request that fits is let through once its rivals ask no more |

One order is enough for `ClientOrderTracker` because orders share nothing but the queue, and an
update in the queue concerns one order; two lots are the least that distinguish a partial
fill from a full one, and two queued updates the least that can be in the wrong order.
`TrackerRecovery` needs two orders, because each one's events save the other, and two
crashes, because the second one finds what the first restart restored.  For
the executor two lots again give partial fills; with no retry left the close is still sent twice, and a
take profit and a market close can race.  `MinOrder = 2` in the liveness run makes a
partly filled entry too small to be closed.  In the orchestrator a deque of one entry
forgets as soon as two executors hold, with a buffer of one both stay listed at times and
are stored at others; two executors of either side reduce, close, flip and add to a position.
In the controller two executors are what `OneExecutor` and the cooldown
are about; the candle needs a third (below), and a cooldown as long as a candle is what
the deployed configuration has (300 s, 5 m).  Two units of time are enough for an entry at the end of
a cooldown, one that is too early for a stop loss, and a position unseen for a whole poll; the
cooldown is longer than a poll, as configured (300 s, 120 s).  The throttler's `order` limit rounds
down to one request per bot, `cancel` takes two from the pool and its share is rounded up to one,
`history` takes more of the pool than a bot ever has.

The runs that find a violation state what the repository says and the code does not do:

| run | said | happens |
| --- | --- | --- |
| `fill_is_closed` | `pmm_simple.py:123`: an executor stopped with `keep_position=False` market-closes its own fill | its entry fills partly, is cancelled, and the executor ends as EARLY_STOP with the fill open |
| `stale_stop` | `pmm_simple.py:294`: wait until a shutting-down executor is terminated | the kill switch makes one that has ended SHUTTING_DOWN again, for ever |
| `close_reverses` | `pmm_simple.py:123`: a second order would reverse it | two close requests before the position is seen send two orders |
| `position_rows` | `executor_orchestrator.py:289`: the row is the remaining net position | a position that changed its side leaves its old row behind, and both are loaded |

More divergences are recorded as exceptions within properties that hold.  A resting take profit and
a market close can both fill, and a take profit or a market close that is cancelled partly filled is forgotten
and the next one placed in full (`position_executor.py:697`), although the exit that triggers first should prevail (`MEAN_REVERSION.md:44`,
`ReversedByDoubleCloseOnly`).  An entry that the exchange cancels partly filled is placed
again in full, although the amount is an upper bound (`MEAN_REVERSION.md:18`,
`EnteredTwiceAfterPartialOnly`).  And `HeldIsSaved` excepts an executor whose retries run out
between its end and its counting (`executor_base.py:261` overwrites POSITION_HOLD by FAILED).
`CandleTriedOnce` excepts candles unlocked by an attempt that did not fill (`MEAN_REVERSION.md:40`
says a candle is tried once at most): `_can_enter` goes through every listed executor
(`pmm_simple.py:293-313`), so five seconds after an unfilled attempt its candle is free, as the comment
there says, but so is each later candle as long as that attempt is listed; of a third attempt
neither candle nor grace says anything, only the cooldown, which an unfilled one does not start.
`EntersFlat` excepts, of the rule that nothing is entered while there is a position
(`MEAN_REVERSION.md:38`), a position of a previous run that nothing has shown since the start, and one an
executor forgot within the time of a poll; and it needs a cooldown longer than a poll: with one that is
no longer, TLC finds an entry on top of a position that a closed executor or a market order left and
no message showed.  `CooldownKept` is about executors that traded, as the code is; `MEAN_REVERSION.md:40`
says after each end.  `RecordedIsTracked` excepts the orders the tracker gave up.
`WithinLimits` allows one request more for each bot whose share is below one request, which `set_rate_limits` rounds up;
`EveryRequestGranted` excepts requests that weigh more than a bot's share, which wait for ever, and
those whose rivals never stop: `async_throttler.py:58` speaks of FIFO, but each waiter tries on its own
timer, and without that premise TLC finds one that starves while a lighter request takes the pool
again and again.

Fairness.

* Tracker: the event loop runs each scheduled task and timer (weak fairness of
  `RunUpdate`, `FillsArrived`, `FillsTimeOut`); the status poll is repeated on every poll
  interval (weak fairness of `PollStatus`), each request ends with an answer or an error
  (there is a request timeout), and not every one fails.  The last two are strong because the bound on the
  queue may disable the handling of an answer for a moment.  Nothing is assumed of the stream, the
  exchange or the cancellation.
* Recovery: the process is started again (`Restart`), and the polls of an order are answered
  in the end (`OrderUpdate`, `LostOrderUpdate`).
* Executor: the loop runs its timers (weak fairness of `ControlLoop`); an order that was
  asked to be cancelled, a market order, and the request of a placed order end somehow,
  which the tracker provides: it announces an end of every order it tracks.
* Orchestrator: the wait of `stop()` goes on (`StopPoll`, `FinishStop`); nothing is assumed of executors.
* Throttler: sleepers are woken, the clock goes on, requests arrive.  No fairness among
  waiters is assumed, and callers may ask for ever, as the pollers do; what
  `EveryRequestGranted` needs of them is its own premise.

Deadlock is not checked where orders, executors and strategies come to an end; the
throttler's clock never stops, and there it is.

## 4. What is proved

For every value of the constants that the named assumptions of the modules allow:

* `ClientOrderTrackerProofs`: all the safety invariants of `order_tracker`, and the
  refinement.  None of the invariants is inductive alone.  `HomeInv` adds that an
  order not placed is nowhere (so that `CreateOrder` cannot collide) and that an order
  pending creation has had no created event; `FillInv` adds that the trades in stream
  messages were executed by the exchange, and `TypeInv` that an unfilled order has lots left.
  For `ImplementsLifecycle`, with `phase`, `filled` and `announced`
  computed from the tracker's state, each step is a step of `OrderLifecycle` or a stutter.
* `TrackerRecoveryProofs`: all the safety invariants of `recovery`.  A crash takes the
  tracker away and a failed transaction leaves the tables behind it, so the invariant is in two parts: `TablesFit` says of
  the tables alone what a restart will rely on (a saved state of every order that is
  owed, that is recorded and not given up, no open one of an ended order, the fills of recorded rows), `BookFits` what the
  tracker's orders owe to the tables while the process runs.  `Restart` gets the second from the
  first, a commit the first from the second; a rolled-back transaction keeps both.
* `PositionExecutorProofs`: the inductive invariant is `TypeInv /\ KnownInv /\ EndInv`: a
  RUNNING executor has no close order (hence the amount it closes is what the entry
  filled); the references point at orders of their kind, every live order is referred to
  except the close that a completed take profit replaced, and a take profit in the place of
  the close order is filled; a terminated executor no longer listens, and has no order
  before it starts.  A tick may place two orders, so `KnownInv` is stated of a sequence of
  orders (`Known`), with one lemma per way the sequence changes.  From it follow the
  refinement of `ExecutorLifecycle` and the bookkeeping of live orders.  `CloseInv` adds what a
  close order looks like at each stage and counts the closes against the retries, which gives
  `DoneCloseIsFilled` and `ClosesBounded`.  `KeptInv` is about what is traded in sum: of the
  orders that did not end by cancellation or failure there is one of each kind, the one referred
  to, and whatever closes was sent for no more than some entry had filled.  Hence orders no two of
  which filled (`LotsBounded`), and `ReversedByDoubleCloseOnly` and `EnteredTwiceAfterPartialOnly`.
  The proof of the first found a case the two orders of the run do not reach, the take profit
  placed again after a partial fill; it is one of the property's exceptions now.
* `ExecutorOrchestratorProofs`: all the safety properties of `orchestrator`.  An executor is
  TERMINATED only in the step that ends it, and stored only after that, although stops may make
  it SHUTTING_DOWN again (`Ends`); hence `StopEndsAll`.  `ProcessOrderAdds` says that
  the branches of `_process_order` are one signed sum, `OrdersAddUp` that the orders of an executor
  add up in whatever order they come.  `Accounted` says that only the first position counts
  orders (so none counts one that another has), that the net is the opening plus the sum of those, and
  that every executor that is remembered, or stored as POSITION_HOLD, has its orders among them.  An
  executor the deque forgets is processed again and its orders are skipped, so the bound of the deque does not
  matter.  With `DoneCounted`, what a count leaves behind, `CountedOnce` and `HeldIsSaved` follow.  For
  `OneRowIsTheNet`, there is one position at most unless rows of both sides exist (`RowsMatch`).
  `StopIsBounded` is the safety half of `StopEnds`:
  every turn of the stop's loop counts, nothing sets the count back, and a stop that still waits is below its cap.
* `ApiThrottlerProofs`: `WithinLimits`, for every set of bots.  The invariant (`Covered`) says, of every
  age `k` up to the interval, that what arrived within the last `k` units and what is on its way
  take no more of a limit than the bots logged within the last `k + Delay`; a bot's logs within
  interval and margin take no more than its share (`Capped`).  As the delay is within the margin and
  the shares add up to the whole, the exchange counts no more than the limit and one request for each
  share that is rounded up.  One age would not do: the
  invariant of `k` after a unit of time is that of `k - 1` before.
* `MeanReversionProofs`: `OneExecutor` rests on two facts about what is old: an executor
  that is not listed has ended, and one that an info says is done has ended (`SeenInv`); and on the
  queue never holding more than one batch, with nobody unfinished when that batch creates
  (`OneInv`).  `FollowLifecycle` follows step by step.
* `MeanReversionEntryProofs`: what an info says of an executor that has ended may be
  outrun by a stop only, which never makes a trade of it nor lengthens its cooldown (`InfosInv`; this needs
  that a stop loss's cooldown is no shorter, which the configuration checks).  The newest executor stays
  listed (`NewestInv`; this needs a buffer of at least one) and each older one was considered when the next one
  was created, so `cooldownUntil` covers it (`WaitInv`).  Hence a queued creation has waited for every
  trade (`QueuedInv`), and `CooldownKept` and `CandleTriedOnce` hold.  For `EntersFlat`, `FlatInv` says why a position may
  not have been seen (`Explained`): nothing has shown any since the start, or who moved it has not ended, or ended no longer ago
  than the position is unseen, or was a market order of the controller, which comes with a cooldown.  When
  a creation is queued the cooldowns are over, and as a poll is shorter, only the two exceptions remain.

`FiniteSums` carries the arguments about amounts: the installed provers cannot instantiate the
library's induction theorems, which take a predicate, so induction is stated of a set (if `{}` belongs to
it and every member can grow by one element, the whole finite set belongs to it) and follows from the
well-foundedness of strict inclusion.  From it come that a fold over a finite set has a value,
that a sum does not depend on the order of its terms, and what appending, removing and renaming do to it.

Only model-checked: all liveness (fairness and ENABLED are out of the prover's reach), that is `DoneIsNoticed`,
`EndedIsForgotten`, `ShutdownEnds`, `StopEnds` and `EveryRequestGranted`.  Every other property of the
passing runs is a theorem.

## 5. Not modelled

* Prices, indicators, fees, profit and loss: floating point and decimal arithmetic over market data.  They
  appear as nondeterministic choices wherever control depends on them.
* Of the orchestrator: hedge mode, initial positions given in a configuration, several
  controllers (the ten share the clock, the database and the actions queue), an exception of one executor's forced stop.
* Of the strategy: the global drawdown, which stops the application, and reports.
* Of the connector: balances, trading rules, time synchronisation, network status, funding,
  leverage; the trade timestamp that the ten pairs share
  (`okx_perpetual_derivative.py:583`): a trade history poll brings any part of an order's trades instead.
* A restart of the controller's process: cooldown and last candle are not stored, and no text says
  they are.
* The other executors, exchanges, the gateway and legacy strategies (not reached by the
  deployed configuration), the Cython clock and pubsub (their effect is the interleaving of
  the modelled steps), the user interface, dashboard, backtesting and launch scripts.

What could be added next, in order of importance: the positions channel and polls with several pairs, the start and stop of
`TradingCore`, and the other executors of the same base class.
