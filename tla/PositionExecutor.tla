---------------------------- MODULE PositionExecutor ----------------------------
(***************************************************************************)
(* One PositionExecutor: it enters with a limit order, watches the         *)
(* barriers (stop loss, take profit, cash target, time limit) and closes   *)
(* with a market order, in a control loop that sleeps between ticks.       *)
(* Between two ticks come the connector's order events, the controller's   *)
(* early stops and the orchestrator's forced stop at shutdown.             *)
(*                                                                         *)
(* The connector is the environment: of an order it announces the opening, *)
(* each fill and one end, as OrderLifecycle says.  The executor knows an   *)
(* order by the id it got when placing it; the amounts of the order are    *)
(* visible to it only once an event has attached the connector's object.   *)
(* Prices are nondeterministic: a barrier that needs one may hold or not   *)
(* at any tick.  Amounts are in lots.                                      *)
(***************************************************************************)
EXTENDS Integers, Sequences, FiniteSets, FiniteSetsExt

CONSTANTS Amount,           \* lots of the entry order
          MinOrder,         \* the exchange's minimum order size, in lots
          MaxRetries,       \* max_retries
          TakeProfitLimit,  \* the take profit is a resting LIMIT order
          LateFills,        \* an order may end before all its fills are known
          ActivationBounds, \* the configuration has activation bounds
          StaleStops,       \* an early stop may reach a terminated executor
          MaxPlaced         \* bound: entry and take profit orders ever placed

ASSUME SizeAssumption == Amount \in Nat \ {0} /\ MinOrder \in 1..Amount
ASSUME RetryAssumption == MaxRetries \in Nat /\ MaxPlaced \in Nat
ASSUME ChoiceAssumption == {TakeProfitLimit, ActivationBounds, LateFills, StaleStops} \subseteq BOOLEAN

VARIABLES
  \* the executor
  status,      \* RunnableStatus
  closeType,   \* CloseType, "none" until one is set
  terminated,  \* the terminated event; set, the executor no longer listens to orders
  loop,        \* control_loop: starting, between ticks, in the shutdown sleep, over
  retries,     \* _current_retries
  openOrder, closeOrder, takeProfit,  \* _open_order, _close_order, _take_profit_limit_order
  held,        \* _held_position_orders
  \* the connector
  orders,      \* the orders placed so far; an order's id is its index
  expired      \* the time limit has passed

executorVars == <<status, closeType, terminated, loop, retries, held>>
referenceVars == <<openOrder, closeOrder, takeProfit>>
vars == <<executorVars, referenceVars, orders, expired>>

None == 0
Live == {"pending", "open"}
Ended == {"filled", "canceled", "failed"}
CloseType == {"TIME_LIMIT", "STOP_LOSS", "TAKE_PROFIT", "EXPIRED", "EARLY_STOP",
              "TRAILING_STOP", "INSUFFICIENT_BALANCE", "FAILED", "POSITION_HOLD"}
\* attached: TrackedOrder.order is set; asked: the executor asked to cancel it.
OrderRecord == [role : {"open", "close", "tp"}, size : 1..Amount, filled : 0..Amount,
                state : Live \cup Ended, attached : BOOLEAN, asked : BOOLEAN]

TypeOK ==
  /\ status \in {"RUNNING", "SHUTTING_DOWN", "TERMINATED"}
  /\ closeType \in CloseType \cup {"none"}
  /\ terminated \in BOOLEAN
  /\ loop \in {"starting", "between", "sleeping", "over"}
  /\ retries \in Nat
  /\ orders \in Seq(OrderRecord)
  /\ {openOrder, closeOrder, takeProfit} \subseteq DOMAIN orders \cup {None}
  /\ held \subseteq DOMAIN orders
  /\ expired \in BOOLEAN

\* start(): the loop is scheduled, the events are registered.
Init ==
  /\ status = "RUNNING" /\ closeType = "none" /\ terminated = FALSE
  /\ loop = "starting" /\ retries = 0 /\ held = {}
  /\ openOrder = None /\ closeOrder = None /\ takeProfit = None
  /\ orders = <<>> /\ expired = FALSE
-------------------------------------------------------------------------------
(***************************************************************************)
(* TrackedOrder, and the amounts the executor computes from its three.     *)
(***************************************************************************)
References == {openOrder, closeOrder, takeProfit} \ {None}

Attached(i) == i # None /\ orders[i].attached
Executed(i) == IF Attached(i) THEN orders[i].filled ELSE 0
IsOpen(i) == Attached(i) /\ orders[i].state \in Live
IsFilled(i) ==
  Attached(i) /\ (orders[i].state = "filled" \/ orders[i].filled = orders[i].size)
IsDone(i) == IsFilled(i) \/ (Attached(i) /\ orders[i].state \in Ended)

OpenFilledAmount == Executed(openOrder)
\* Mutant: the entry counts with its whole size.
AmountConfigured ==
  IF openOrder = None THEN 0 ELSE orders[openOrder].size - Executed(closeOrder)

AmountToClose == OpenFilledAmount - Executed(closeOrder)

AllOrdersCompleted == \A i \in References : IsDone(i)
OpenAndCloseVolumeMatch == OpenFilledAmount = 0 \/ IsFilled(closeOrder)

EntryCanBeClosed == IsFilled(openOrder) /\ OpenFilledAmount >= MinOrder

\* place_order: the id is known at once, the order itself only after an event.
Placed(book, role, size) ==
  Append(book, [role |-> role, size |-> size, filled |-> 0, state |-> "pending",
                attached |-> FALSE, asked |-> FALSE])
HasRoom == Cardinality({i \in DOMAIN orders : orders[i].role # "close"}) < MaxPlaced

Withdraw(book, i) == [book EXCEPT ![i].asked = TRUE]

\* cancel_open_orders
CancelOpenOrders(book) ==
  [i \in DOMAIN book |->
     [book[i] EXCEPT !.asked = @ \/ (i \in {openOrder, takeProfit} /\ i \in DOMAIN orders /\ IsOpen(i))]]

\* stop()
Stop(why) == status' = "TERMINATED" /\ terminated' = TRUE /\ closeType' = why
-------------------------------------------------------------------------------
(***************************************************************************)
(* The control loop.                                                       *)
(***************************************************************************)
\* on_start: the balance, then the time limit.  The loop ends here too when a stop came
\* before its task started.
OnStart ==
  /\ loop = "starting"
  /\ \/ ~expired /\ UNCHANGED <<status, closeType, terminated>>
     \/ Stop(IF expired THEN "EXPIRED" ELSE "INSUFFICIENT_BALANCE")
  /\ loop' = IF terminated' THEN "over" ELSE "between"
  /\ UNCHANGED <<retries, held, referenceVars, orders, expired>>

\* Mutant: an amount below the minimum is sent too.
BeginCloseUnchecked(book) ==
  /\ orders' = Placed(CancelOpenOrders(book), "close", AmountToClose)
  /\ closeOrder' = Len(book) + 1

\* place_close_order_and_cancel_open_orders, but for what it sets the status to (a
\* position hold never gets here).
BeginClose(book) ==
  IF AmountToClose >= MinOrder
  THEN /\ orders' = Placed(CancelOpenOrders(book), "close", AmountToClose)
       /\ closeOrder' = Len(book) + 1
  ELSE /\ orders' = CancelOpenOrders(book)
       /\ UNCHANGED closeOrder

\* Mutant: a tick that began to close leaves the executor RUNNING.
EndTickStillRunning(why) ==
  IF retries > MaxRetries THEN Stop("FAILED")
  ELSE /\ closeType' = IF why = "none" THEN closeType ELSE why
       /\ UNCHANGED <<status, terminated>>

\* The end of a RUNNING tick that began to close (or, for "none", did not):
\* evaluate_max_retries overrides it.
EndTick(why) ==
  IF retries > MaxRetries THEN Stop("FAILED")
  ELSE /\ status' = IF why = "none" THEN "RUNNING" ELSE "SHUTTING_DOWN"
       /\ closeType' = IF why = "none" THEN closeType ELSE why
       /\ UNCHANGED terminated

\* control_time_limit is the last barrier; the tick gets there with these orders.
ThenTimeLimit(book) ==
  IF expired THEN BeginClose(book) /\ EndTick("TIME_LIMIT")
  ELSE orders' = book /\ UNCHANGED closeOrder /\ EndTick("none")

\* control_open_order: there is no entry order, so one is placed; nothing can be closed
\* in the same tick.
Enter ==
  /\ openOrder = None /\ HasRoom
  /\ openOrder' = Len(orders) + 1
  /\ ThenTimeLimit(Placed(orders, "open", Amount))
  /\ UNCHANGED takeProfit

\* Mutant: the entry is forgotten before its cancellation is known.
StayOutForgetsEntry ==
  /\ ActivationBounds
  /\ \/ openOrder = None /\ ThenTimeLimit(orders)
     \/ /\ Attached(openOrder) /\ ~IsFilled(openOrder)
        /\ ThenTimeLimit(Withdraw(orders, openOrder))
  /\ openOrder' = None
  /\ UNCHANGED takeProfit

\* The price is outside the activation bounds: no entry, or the entry is cancelled.
StayOut ==
  /\ ActivationBounds
  /\ \/ openOrder = None /\ ThenTimeLimit(orders)
     \/ /\ Attached(openOrder) /\ ~IsFilled(openOrder)
        /\ ThenTimeLimit(Withdraw(orders, openOrder))
  /\ UNCHANGED <<openOrder, takeProfit>>

\* take_profit_quote, partial fills included (or a MARKET take profit).
HitTarget ==
  /\ OpenFilledAmount > 0
  /\ BeginClose(orders) /\ EndTick("TAKE_PROFIT")
  /\ UNCHANGED <<openOrder, takeProfit>>

\* control_stop_loss and control_trailing_stop
HitStop ==
  /\ EntryCanBeClosed
  /\ \E why \in {"STOP_LOSS", "TRAILING_STOP"} : BeginClose(orders) /\ EndTick(why)
  /\ UNCHANGED <<openOrder, takeProfit>>

\* control_take_profit with a LIMIT order: placed once, cancelled outside the bounds.
PlaceTakeProfit ==
  /\ TakeProfitLimit /\ EntryCanBeClosed /\ takeProfit = None /\ HasRoom
  /\ takeProfit' = Len(orders) + 1
  /\ ThenTimeLimit(Placed(orders, "tp", AmountToClose))
  /\ UNCHANGED openOrder

WithdrawTakeProfit ==
  /\ ActivationBounds /\ TakeProfitLimit /\ EntryCanBeClosed
  /\ IsOpen(takeProfit) /\ ~IsFilled(takeProfit)
  /\ ThenTimeLimit(Withdraw(orders, takeProfit))
  /\ UNCHANGED <<openOrder, takeProfit>>

\* No price barrier holds and nothing is placed.
Watch ==
  /\ openOrder # None
  /\ TakeProfitLimit /\ EntryCanBeClosed /\ ~ActivationBounds => takeProfit # None
  /\ ThenTimeLimit(orders)
  /\ UNCHANGED <<openOrder, takeProfit>>

\* Mutant: the loop goes by the status instead of the terminated event.
TickByStatus == loop = "between" /\ status # "TERMINATED"

Tick == loop = "between" /\ ~terminated

\* control_task while RUNNING, and evaluate_max_retries right after it.
RunningTick ==
  /\ Tick /\ status = "RUNNING"
  /\ Enter \/ StayOut \/ HitTarget \/ HitStop \/ PlaceTakeProfit \/ WithdrawTakeProfit \/ Watch
  /\ UNCHANGED <<loop, retries, held, expired>>

ShutdownTick == Tick /\ status = "SHUTTING_DOWN" /\ loop' = "sleeping"

\* Mutant: the orders are waited for and not cancelled.
WaitOnly ==
  /\ ShutdownTick /\ ~AllOrdersCompleted
  /\ UNCHANGED <<status, closeType, terminated, retries, held, referenceVars, orders, expired>>

WaitForOrders ==
  /\ ShutdownTick /\ ~AllOrdersCompleted
  /\ orders' = CancelOpenOrders(orders)
  /\ UNCHANGED <<status, closeType, terminated, retries, held, referenceVars, expired>>

\* Mutant: a hold without anything held.
HoldNothing ==
  /\ ShutdownTick /\ AllOrdersCompleted /\ closeType = "POSITION_HOLD"
  /\ held' = held \cup {i \in {openOrder, closeOrder} : IsFilled(i)}
  /\ Stop("POSITION_HOLD")
  /\ UNCHANGED <<retries, referenceVars, orders, expired>>

HoldPosition ==
  /\ ShutdownTick /\ AllOrdersCompleted /\ closeType = "POSITION_HOLD"
  /\ held' = held \cup {i \in {openOrder, closeOrder} : IsFilled(i)}
  /\ Stop(IF held' = {} THEN "EARLY_STOP" ELSE "POSITION_HOLD")
  /\ UNCHANGED <<retries, referenceVars, orders, expired>>

\* Mutant: the executor does not wait for its orders.
FinishAnyway ==
  /\ ShutdownTick /\ closeType # "POSITION_HOLD"
  /\ OpenAndCloseVolumeMatch
  /\ Stop(closeType)
  /\ UNCHANGED <<retries, held, referenceVars, orders, expired>>

Finish ==
  /\ ShutdownTick /\ AllOrdersCompleted /\ closeType # "POSITION_HOLD"
  /\ OpenAndCloseVolumeMatch
  /\ Stop(closeType)
  /\ UNCHANGED <<retries, held, referenceVars, orders, expired>>

\* Mutant: another attempt to close is not counted.
CloseAgainForEver ==
  /\ ShutdownTick /\ AllOrdersCompleted /\ closeType # "POSITION_HOLD"
  /\ ~OpenAndCloseVolumeMatch
  /\ BeginClose(orders)
  /\ UNCHANGED <<status, closeType, terminated, retries, held, openOrder, takeProfit, expired>>

\* control_close_order: a close order that is left is waited for, else one is placed.
CloseAgain ==
  /\ ShutdownTick /\ AllOrdersCompleted /\ closeType # "POSITION_HOLD"
  /\ ~OpenAndCloseVolumeMatch
  /\ IF closeOrder = None THEN BeginClose(orders) ELSE UNCHANGED <<orders, closeOrder>>
  /\ retries' = retries + 1
  /\ UNCHANGED <<status, closeType, terminated, held, openOrder, takeProfit, expired>>

\* The five seconds are over: evaluate_max_retries, whatever came meanwhile.
EvaluateMaxRetries ==
  /\ loop = "sleeping"
  /\ IF retries > MaxRetries THEN Stop("FAILED")
     ELSE UNCHANGED <<status, closeType, terminated>>
  /\ loop' = "between"
  /\ UNCHANGED <<retries, held, referenceVars, orders, expired>>

LoopEnds ==
  /\ loop = "between" /\ terminated
  /\ loop' = "over"
  /\ UNCHANGED <<status, closeType, terminated, retries, held, referenceVars, orders, expired>>
-------------------------------------------------------------------------------
(***************************************************************************)
(* Stops from outside.                                                     *)
(***************************************************************************)
\* Mutant: the stop forgets the entry it cancels.
EarlyStopForgetsEntry ==
  /\ status # "TERMINATED"
  /\ orders' = CancelOpenOrders(orders) /\ openOrder' = None
  /\ closeType' \in {"EARLY_STOP", "POSITION_HOLD"}
  /\ status' = "SHUTTING_DOWN"
  /\ UNCHANGED <<terminated, loop, retries, held, closeOrder, takeProfit, expired>>

\* early_stop, from a StopExecutorAction whose sender saw an executor info of a
\* moment ago, or none at all (check_manual_kill_switch).
EarlyStop ==
  /\ status # "TERMINATED" \/ StaleStops
  /\ closeType' \in {"EARLY_STOP", "POSITION_HOLD"}
  /\ status' = "SHUTTING_DOWN"
  /\ UNCHANGED <<terminated, loop, retries, held, referenceVars, orders, expired>>

\* force_stop_with_position_hold, at the orchestrator's shutdown deadline.
ForceStop ==
  /\ status # "TERMINATED"
  /\ orders' = CancelOpenOrders(orders)
  /\ held' = held \cup {i \in References : IsFilled(i)}
  /\ Stop(IF held' = {} THEN "FAILED" ELSE "POSITION_HOLD")
  /\ UNCHANGED <<loop, retries, referenceVars, expired>>
-------------------------------------------------------------------------------
(***************************************************************************)
(* The connector's events, and the executor's handlers.                    *)
(***************************************************************************)
Listens(i) == ~terminated /\ i \in References

\* update_tracked_orders_with_order_id, for the order as the event leaves it.
Announce(i, record) ==
  orders' = [orders EXCEPT ![i] = [record EXCEPT !.attached = @ \/ Listens(i)]]

OrderCreated(i) ==
  /\ orders[i].state = "pending"
  /\ Announce(i, [orders[i] EXCEPT !.state = "open"])
  /\ UNCHANGED <<executorVars, referenceVars, expired>>

OrderFilled(i) ==
  /\ orders[i].state \in Live \/ LateFills
  /\ orders[i].filled < orders[i].size
  /\ Announce(i, [orders[i] EXCEPT !.filled = @ + 1])
  /\ UNCHANGED <<executorVars, referenceVars, expired>>

\* The completion of the take profit ends the position.
OrderCompleted(i) ==
  /\ orders[i].state \in Live
  /\ orders[i].filled = orders[i].size \/ LateFills
  /\ Announce(i, [orders[i] EXCEPT !.state = "filled"])
  /\ IF Listens(i) /\ i = takeProfit
     THEN closeType' = "TAKE_PROFIT" /\ closeOrder' = takeProfit /\ status' = "SHUTTING_DOWN"
     ELSE UNCHANGED <<closeType, closeOrder, status>>
  /\ UNCHANGED <<terminated, loop, retries, held, openOrder, takeProfit, expired>>

Drop(ref, i) == IF Listens(i) /\ ref = i THEN None ELSE ref

\* Mutant: the close order is remembered after it was cancelled.
OrderCancelledKeepsClose(i) ==
  /\ orders[i].state \in Live /\ orders[i].filled < orders[i].size
  /\ orders' = [orders EXCEPT ![i].state = "canceled"]
  /\ openOrder' = Drop(openOrder, i)
  /\ takeProfit' = Drop(takeProfit, i)
  /\ UNCHANGED <<executorVars, closeOrder, expired>>

\* A cancelled order is forgotten, with what it had filled.
OrderCancelled(i) ==
  /\ orders[i].state \in Live /\ orders[i].filled < orders[i].size
  /\ orders' = [orders EXCEPT ![i].state = "canceled"]
  /\ openOrder' = Drop(openOrder, i)
  /\ closeOrder' = Drop(closeOrder, i)
  /\ takeProfit' = Drop(takeProfit, i)
  /\ UNCHANGED <<executorVars, expired>>

\* Rejected, or given up as lost; a failed take profit counts as no retry.
OrderFailed(i) ==
  /\ orders[i].state \in Live /\ orders[i].filled < orders[i].size
  /\ orders' = [orders EXCEPT ![i].state = "failed"]
  /\ openOrder' = Drop(openOrder, i)
  /\ closeOrder' = Drop(closeOrder, i)
  /\ takeProfit' = Drop(takeProfit, i)
  /\ retries' = IF Listens(i) /\ i # takeProfit THEN retries + 1 ELSE retries
  /\ UNCHANGED <<status, closeType, terminated, loop, held, expired>>

TimePasses ==
  /\ ~expired
  /\ expired' = TRUE
  /\ UNCHANGED <<executorVars, referenceVars, orders>>
-------------------------------------------------------------------------------
ControlLoop ==
  \/ OnStart \/ RunningTick
  \/ WaitForOrders \/ HoldPosition \/ Finish \/ CloseAgain
  \/ EvaluateMaxRetries \/ LoopEnds

OrderEvent(i) ==
  OrderCreated(i) \/ OrderFilled(i) \/ OrderCompleted(i) \/ OrderCancelled(i) \/ OrderFailed(i)

Next ==
  \/ ControlLoop \/ EarlyStop \/ ForceStop \/ TimePasses
  \/ \E i \in DOMAIN orders : OrderEvent(i)

Spec == Init /\ [][Next]_vars

\* What the connector owes: the end of an order it was asked to cancel and of a market
\* order, and an answer about a placed one.
OrderEnds(i) ==
  /\ i \in DOMAIN orders
  /\ orders[i].asked \/ orders[i].role = "close"
  /\ OrderCompleted(i) \/ OrderCancelled(i) \/ OrderFailed(i)
OrderAnswered(i) ==
  /\ i \in DOMAIN orders
  /\ orders[i].state = "pending"
  /\ OrderCreated(i) \/ OrderCancelled(i) \/ OrderFailed(i)

\* The event loop runs the control loop's timers.
FairSpec ==
  /\ Spec
  /\ WF_vars(ControlLoop)
  /\ \A i \in 1..(MaxPlaced + MaxRetries + 2) : WF_vars(OrderEnds(i)) /\ WF_vars(OrderAnswered(i))
-------------------------------------------------------------------------------
(***************************************************************************)
(* Properties.                                                             *)
(***************************************************************************)
\* Orders that may still trade.
Unfinished ==
  {i \in DOMAIN orders : orders[i].state \in Live /\ orders[i].filled < orders[i].size}

\* Two orders of one kind are never alive at once: two entries would double the
\* position, two market closes would reverse it.
OneOrderOfAKind ==
  \A i, j \in Unfinished : orders[i].role = orders[j].role => i = j

\* An executor that ends by itself (neither out of retries nor forced) leaves no live
\* order behind, except a market close whose place a completed take profit took
\* (process_order_completed_event overwrites _close_order).
NothingLeftBehind ==
  status = "TERMINATED" /\ closeType \notin {"FAILED", "POSITION_HOLD"} =>
    \A i \in Unfinished :
      orders[i].role = "close" /\ closeOrder # None /\ orders[closeOrder].role = "tp"

\* Every live order of the executor is one it knows, with the same exception: what it
\* does not know it would never cancel or wait for.
NoOrphan ==
  \A i \in Unfinished \ References :
    orders[i].role = "close" /\ closeOrder # None /\ orders[closeOrder].role = "tp"

\* A close order that is over and not filled is never kept: control_close_order would
\* wait for it until the retries are exhausted.
DoneCloseIsFilled ==
  ~terminated /\ closeOrder # None /\ IsDone(closeOrder) => IsFilled(closeOrder)

\* The attempts to close are bounded by the retries, whichever way each one ends.
ClosesBounded ==
  Cardinality({i \in DOMAIN orders : orders[i].role = "close"}) <= MaxRetries + 2

\* Once stopped, the executor places no order any more, even when an early stop makes
\* it SHUTTING_DOWN again.
NoOrderAfterStop == [][terminated => Len(orders') = Len(orders)]_vars

Lots(roles) ==
  SumFunction([i \in {j \in DOMAIN orders : orders[j].role \in roles} |-> orders[i].filled])

\* The closing orders trade more than the entries did, that is, they reverse the position,
\* only when one of them ended partly filled (what a take profit or a market close traded
\* before it was cancelled is forgotten, the next one is placed in full), or when a resting
\* take profit and a market close both traded.
\* (MEAN_REVERSION.md:44, 以先触发者为准: the exit that triggers first should prevail.)
ReversedByDoubleCloseOnly ==
  Lots({"close", "tp"}) > Lots({"open"}) =>
    \/ \E i \in DOMAIN orders :
         /\ orders[i].role \in {"close", "tp"} /\ orders[i].state \in {"canceled", "failed"}
         /\ orders[i].filled > 0
    \/ Lots({"close"}) > 0 /\ Lots({"tp"}) > 0

\* More than the configured amount is entered only when an entry ended partly filled:
\* control_open_order then places the next one in full.
\* (MEAN_REVERSION.md:18: the configured amount is an upper bound of the position.)
EnteredTwiceAfterPartialOnly ==
  Lots({"open"}) > Amount =>
    \E i \in DOMAIN orders :
      orders[i].role = "open" /\ orders[i].state \in {"canceled", "failed"} /\ orders[i].filled > 0

\* pmm_simple.py:123, "An active executor market-closes its own fill": an executor that was
\* stopped with keep_position=False, as the controller's manual close does, leaves no part of
\* its entry open when it ends.
FillIsClosed ==
  [][closeType = "EARLY_STOP" /\ closeType' = "EARLY_STOP"
       /\ status = "SHUTTING_DOWN" /\ status' = "TERMINATED"
     => Lots({"open"}) <= Lots({"close", "tp"})]_vars

\* A shutdown comes to an end, unless it is that of an executor that had ended before an
\* early stop reached it.  (pmm_simple.py:294 waits for it before a new entry.)
ShutdownEnds == status = "SHUTTING_DOWN" /\ ~terminated ~> status = "TERMINATED"

\* The executor keeps what ExecutorLifecycle promises to those who watch it: whatever
\* ticks, events and stops come, it holds what it says it holds and ends once.
Lifecycle == INSTANCE ExecutorLifecycle WITH ended <- terminated, holding <- held # {}
LifecycleSpec == Lifecycle!Spec
===============================================================================
