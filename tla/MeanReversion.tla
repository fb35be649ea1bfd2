------------------------------ MODULE MeanReversion ------------------------------
(***************************************************************************)
(* The mean reversion controller of one trading pair (pmm_simple.py) in    *)
(* the strategy that runs it: its control loop decides on the executor     *)
(* infos of a moment ago and puts actions into a queue, a listener task    *)
(* executes them, and the strategy's tick publishes new infos, stores old  *)
(* executors, and stops or restarts the controller (kill switch, drawdown).*)
(* The executors and the exchange are the environment: an executor does    *)
(* what ExecutorLifecycle lets it do, and trades one lot.                  *)
(*                                                                         *)
(* Time is counted in units of the five seconds' grace.  Signals, prices   *)
(* and the pnl are nondeterministic; so is every refusal to enter that     *)
(* depends on them (spread, minimum size, leverage, a held position).      *)
(***************************************************************************)
EXTENDS Integers, Sequences, FiniteSets

CONSTANTS Signal,            \* the signals that come: 0 none, 1 buy, -1 sell
          Barrier,           \* the barriers that are hit
          CandleLength,      \* units of a candle
          Refresh,           \* executor_refresh_time
          Grace,             \* of an attempt that did not fill
          Cooldown,          \* cooldown_time
          StopLossCooldown,  \* stop_loss_cooldown_time
          PositionDelay,     \* units until a poll shows a position that no message did
          Buffer,            \* closed_executors_buffer
          FixedTakeProfit,   \* fixed_unrealized_tp_quote is configured
          ForgetsFills,      \* an executor may forget the fills of a cancelled entry
          MaxExecutors,      \* bound: executors ever created
          MaxCloses,         \* bound: times everything is closed
          MaxTime            \* bound on the time

ASSUME SignalAssumption == Signal \subseteq {-1, 0, 1}
ASSUME BarrierAssumption == Barrier \subseteq {"TIME_LIMIT", "STOP_LOSS", "TAKE_PROFIT", "TRAILING_STOP"}
ASSUME TimeAssumption ==
  /\ {CandleLength, Grace, Cooldown} \subseteq Nat \ {0}
  /\ {Refresh, StopLossCooldown, PositionDelay, MaxTime} \subseteq Nat
\* The configuration refuses a shorter one after a stop loss.
ASSUME CooldownAssumption == Cooldown <= StopLossCooldown
ASSUME BoundAssumption ==
  /\ {MaxExecutors, MaxCloses} \subseteq Nat /\ Buffer \in Nat \ {0}
  /\ {FixedTakeProfit, ForgetsFills} \subseteq BOOLEAN

VARIABLES
  now,
  executors,       \* the executors created so far, in this order
  position, seen,  \* lots held on the exchange, and in account_positions
  unseen,          \* units for which account_positions has not shown the position
  closing,         \* lots of the controller's own market orders in flight
  closes,          \* times everything was closed
  \* the controller
  infos,           \* executors_info
  updated,         \* executors_update_event
  lastEntryCandle, cooldownUntil,
  closeRequest,    \* the dashboard's request file exists
  \* the strategy
  queue,           \* actions_queue
  killSwitch,      \* manual_kill_switch of the controller's config
  exited           \* in drawdown_exited_controllers

exchangeVars == <<position, seen, unseen, closing, closes>>
controllerVars == <<infos, updated, lastEntryCandle, cooldownUntil, closeRequest>>
vars == <<now, executors, exchangeVars, controllerVars, queue, killSwitch, exited>>

Time == 0..MaxTime
Never == -1
NoCandle == -1
Ids == 1..MaxExecutors

\* filled: filled_amount_quote > 0; left: the position it ended without closing.
Executor == [side : {-1, 1}, created : Time, status : {"RUNNING", "SHUTTING_DOWN", "TERMINATED"},
             closeType : Barrier \cup {"none", "EARLY_STOP", "FAILED"}, filled : BOOLEAN,
             ended : BOOLEAN, closed : Time \cup {Never}, left : BOOLEAN, stored : BOOLEAN]
Action == [kind : {"create"}, side : {-1, 1}, created : Time] \cup [kind : {"stop"}, id : Ids]

TypeOK ==
  /\ now \in Time
  /\ executors \in Seq(Executor) /\ Len(executors) <= MaxExecutors
  /\ {position, seen, closing} \subseteq Int /\ unseen \in 0..PositionDelay /\ closes \in 0..MaxCloses
  /\ DOMAIN infos \subseteq DOMAIN executors /\ \A e \in DOMAIN infos : infos[e] \in Executor
  /\ lastEntryCandle \in Time \cup {NoCandle} /\ cooldownUntil \in Nat
  /\ {updated, closeRequest, killSwitch, exited} \subseteq BOOLEAN
  /\ queue \in Seq(SUBSET Action)

\* The position of a previous run may not have been seen yet.
Init ==
  /\ now = 0 /\ executors = <<>>
  /\ position \in {0, 1} /\ seen \in {0, position} /\ unseen = 0 /\ closing = 0 /\ closes = 0
  /\ infos = <<>> /\ updated = TRUE
  /\ lastEntryCandle = NoCandle /\ cooldownUntil = 0 /\ closeRequest = FALSE
  /\ queue = <<>> /\ killSwitch = FALSE /\ exited = FALSE
-------------------------------------------------------------------------------
(***************************************************************************)
(* Executor infos.                                                         *)
(***************************************************************************)
Done(info) == info.status = "TERMINATED"
Active(info) == info.status = "RUNNING"
Listing(book) == [e \in {i \in DOMAIN book : ~book[i].stored} |-> book[e]]

\* Mutant: the stop keeps the position.
StoppedHolding(executor) == [executor EXCEPT !.status = "SHUTTING_DOWN", !.closeType = "POSITION_HOLD"]
Stopped(executor) == [executor EXCEPT !.status = "SHUTTING_DOWN", !.closeType = "EARLY_STOP"]

Larger(a, b) == IF a < b THEN b ELSE a
\* The last closed candle.
Candle == now \div CandleLength

\* is_filled_or_position
Traded(info) == info.filled \/ info.closeType \in {"STOP_LOSS", "TAKE_PROFIT", "TIME_LIMIT"}
\* Mutant: the stop loss has no cooldown of its own.
CooldownOfAny(info) == Cooldown
CooldownOf(info) == IF info.closeType = "STOP_LOSS" THEN StopLossCooldown ELSE Cooldown
-------------------------------------------------------------------------------
(***************************************************************************)
(* The controller's control loop.                                          *)
(***************************************************************************)
\* stop() ends the loop, start() begins another one; a batch that was sent is executed
\* before the loop's next turn, for the listener is woken first.
Running == ~killSwitch /\ ~exited
Awake == Running /\ queue = <<>>

Send(actions) ==
  IF actions = {} THEN UNCHANGED <<queue, updated>>
  ELSE queue' = Append(queue, actions) /\ updated' = FALSE

StopActions(ids) == {[kind |-> "stop", id |-> e] : e \in ids}

\* Mutant: the market order is sent although an executor still closes its own fill.
CloseEverythingTwice ==
  /\ closes < MaxCloses /\ closes' = closes + 1
  /\ cooldownUntil' = Larger(cooldownUntil, now + Cooldown)
  /\ Send(StopActions({e \in DOMAIN infos : Active(infos[e])}))
  /\ closing' = closing - seen

\* Active executors are asked to close; a market order is sent when none owns the position.
CloseEverything ==
  /\ closes < MaxCloses /\ closes' = closes + 1
  /\ cooldownUntil' = Larger(cooldownUntil, now + Cooldown)
  /\ Send(StopActions({e \in DOMAIN infos : Active(infos[e])}))
  /\ closing' = IF \E e \in DOMAIN infos : ~Done(infos[e]) THEN closing ELSE closing - seen

ManualClose ==
  /\ Awake /\ closeRequest
  /\ closeRequest' = FALSE
  /\ CloseEverything
  /\ UNCHANGED <<now, executors, position, seen, unseen, infos, lastEntryCandle, killSwitch, exited>>

FixedTakeProfitHit ==
  /\ Awake /\ ~closeRequest /\ FixedTakeProfit
  /\ seen # 0 \/ \E e \in DOMAIN infos : Active(infos[e]) /\ infos[e].filled
  /\ CloseEverything
  /\ UNCHANGED <<now, executors, position, seen, unseen, infos, lastEntryCandle, closeRequest, killSwitch, exited>>

Decides == Awake /\ ~closeRequest /\ updated

\* stop_actions_proposal: entries not filled that are old, or against the signal.
ToWithdraw(signal) ==
  {e \in DOMAIN infos : /\ Active(infos[e]) /\ ~infos[e].filled
                        /\ signal # infos[e].side \/ now - infos[e].created >= Refresh}

WithdrawEntry ==
  /\ Decides
  /\ \E signal \in Signal : ToWithdraw(signal) # {} /\ Send(StopActions(ToWithdraw(signal)))
  /\ UNCHANGED <<now, executors, exchangeVars, infos, lastEntryCandle, cooldownUntil, closeRequest,
                 killSwitch, exited>>

\* The executors _can_enter looks at before it meets one that is not done.
Considered == {e \in DOMAIN infos : \A d \in DOMAIN infos : d <= e => Done(infos[d])}
Ends == {infos[e].closed + CooldownOf(infos[e]) : e \in {c \in Considered : Traded(infos[c])}}
Cooldowns == Ends \cup {cooldownUntil}
CooledDown == \A t \in Cooldowns : now >= t

\* Mutant: the candle is free at once.
LastAttemptAtOnce ==
  IF lastEntryCandle = Candle /\ \E e \in Considered : ~Traded(infos[e])
  THEN NoCandle ELSE lastEntryCandle

\* After the grace an attempt that did not fill no longer locks its candle.
LastAttempt ==
  IF lastEntryCandle = Candle /\ \E e \in Considered : ~Traded(infos[e]) /\ now >= infos[e].closed + Grace
  THEN NoCandle ELSE lastEntryCandle

\* Mutant: an executor that shuts down does not count.
CanEnterWhileClosing ==
  /\ \A e \in DOMAIN infos : ~Active(infos[e])
  /\ seen = 0 /\ CooledDown /\ LastAttempt # Candle

\* Mutant: the exchange's position is not looked at.
CanEnterBlindly ==
  /\ Considered = DOMAIN infos
  /\ CooledDown /\ LastAttempt # Candle

CanEnter ==
  /\ Considered = DOMAIN infos
  /\ seen = 0 /\ CooledDown /\ LastAttempt # Candle

\* create_actions_proposal: _can_enter remembers the cooldown and frees the candle even
\* when it refuses.
ConsiderEntry ==
  /\ Decides
  /\ \E signal \in Signal \ {0} :
       /\ ToWithdraw(signal) = {}
       /\ \E latest \in Cooldowns : (\A t \in Cooldowns : t <= latest) /\ cooldownUntil' = latest
       /\ \/ lastEntryCandle' = LastAttempt /\ Send({})
          \/ /\ CanEnter /\ Len(executors) < MaxExecutors
             /\ lastEntryCandle' = Candle
             /\ Send({[kind |-> "create", side |-> signal, created |-> now]})
  /\ UNCHANGED <<now, executors, exchangeVars, infos, closeRequest, killSwitch, exited>>
-------------------------------------------------------------------------------
(***************************************************************************)
(* The strategy.                                                           *)
(***************************************************************************)
New(action) ==
  [side |-> action.side, created |-> action.created, status |-> "RUNNING", closeType |-> "none",
   filled |-> FALSE, ended |-> FALSE, closed |-> Never, left |-> FALSE, stored |-> FALSE]

\* execute_actions; an executor that is no longer listed is not found.
Executed(book, actions) ==
  LET asked == {a.id : a \in {b \in actions : b.kind = "stop"}}
      stopped == [e \in DOMAIN book |-> IF e \in asked /\ ~book[e].stored THEN Stopped(book[e]) ELSE book[e]]
      new == {a \in actions : a.kind = "create"}
  IN IF new = {} THEN stopped ELSE Append(stopped, New(CHOOSE a \in new : TRUE))

\* listen_to_executor_actions
Listen ==
  /\ queue # <<>>
  /\ executors' = Executed(executors, Head(queue))
  /\ infos' = Listing(executors') /\ updated' = TRUE
  /\ queue' = Tail(queue)
  /\ UNCHANGED <<now, exchangeVars, lastEntryCandle, cooldownUntil, closeRequest, killSwitch, exited>>

\* store_actions_proposal: of the executors that are done the newest stay.
Store(book) ==
  LET done == {e \in DOMAIN book : ~book[e].stored /\ Done(book[e])}
  IN [e \in DOMAIN book |->
        [book[e] EXCEPT !.stored = @ \/ (e \in done /\ Cardinality({d \in done : d > e}) >= Buffer)]]

\* on_tick: new infos, the controller's configuration, and old executors stored unless the
\* market data are not ready; then the kill switch stops every listed executor, a drawdown
\* those whose entry has not filled.
Tick ==
  \E kill, drawdown, ready \in BOOLEAN :
    LET kept == IF ready THEN Store(executors) ELSE executors
    IN /\ drawdown => ~kill /\ ~exited
       /\ infos' = Listing(executors) /\ updated' = TRUE
       /\ executors' = [e \in DOMAIN kept |->
            IF /\ ~kept[e].stored
               /\ \/ kill /\ Running
                  \/ drawdown /\ Active(kept[e]) /\ ~kept[e].filled
            THEN Stopped(kept[e]) ELSE kept[e]]
       /\ killSwitch' = kill /\ exited' = (exited \/ drawdown)
       /\ UNCHANGED <<now, exchangeVars, lastEntryCandle, cooldownUntil, closeRequest, queue>>
-------------------------------------------------------------------------------
(***************************************************************************)
(* The environment: executors, exchange, dashboard, time.                  *)
(***************************************************************************)
\* The account's position becomes p; a message or a poll will show it.
Moves(p) ==
  position' = p /\ unseen' = IF position \in {0, seen} THEN 0 ELSE unseen
Stays == UNCHANGED <<position, unseen>>

ExecutorStep(e, change) ==
  /\ ~executors[e].ended
  /\ executors' = [executors EXCEPT ![e] = change]
  /\ UNCHANGED <<now, seen, closing, closes, controllerVars, queue, killSwitch, exited>>

EntryFills(e) ==
  /\ ~executors[e].filled
  /\ ExecutorStep(e, [executors[e] EXCEPT !.filled = TRUE])
  /\ Moves(position + executors[e].side)

HitsBarrier(e) ==
  /\ \E why \in Barrier :
       /\ executors[e].filled \/ why = "TIME_LIMIT"
       /\ executors[e].status = "RUNNING"
       /\ ExecutorStep(e, [executors[e] EXCEPT !.status = "SHUTTING_DOWN", !.closeType = why])
  /\ Stays

Over(executor, why) ==
  [executor EXCEPT !.status = "TERMINATED", !.closeType = why, !.ended = TRUE, !.closed = now]

\* Mutant: an executor ends without shutting down.
FinishesAtOnce(e) ==
  /\ ExecutorStep(e, Over(executors[e], executors[e].closeType))
  /\ IF executors[e].filled THEN Moves(position - executors[e].side) ELSE Stays

\* The entry is cancelled, or what it filled is closed.
Finishes(e) ==
  /\ executors[e].status = "SHUTTING_DOWN"
  /\ ExecutorStep(e, Over(executors[e], executors[e].closeType))
  /\ IF executors[e].filled THEN Moves(position - executors[e].side) ELSE Stays

\* The cancellation of a partly filled entry (PositionExecutor, OrderCancelled).
ForgetsFill(e) ==
  /\ ForgetsFills
  /\ executors[e].status = "SHUTTING_DOWN" /\ executors[e].filled
  /\ ExecutorStep(e, [Over(executors[e], executors[e].closeType) EXCEPT !.filled = FALSE, !.left = TRUE])
  /\ Stays

\* The retries are exhausted.
GivesUp(e) ==
  /\ ExecutorStep(e, [Over(executors[e], "FAILED") EXCEPT !.left = executors[e].filled])
  /\ Stays

\* A market order of the controller fills, or fails.
MarketOrderEnds ==
  /\ closing # 0
  /\ LET lot == IF closing > 0 THEN 1 ELSE -1
     IN closing' = closing - lot /\ (Stays \/ Moves(position + lot))
  /\ UNCHANGED <<now, executors, seen, closes, controllerVars, queue, killSwitch, exited>>

\* The positions channel, or a poll.
SeePosition ==
  /\ seen # position
  /\ seen' = position
  /\ UNCHANGED <<now, executors, position, unseen, closing, closes, controllerVars, queue, killSwitch, exited>>

RequestClose ==
  /\ ~closeRequest /\ closes < MaxCloses
  /\ closeRequest' = TRUE
  /\ UNCHANGED <<now, executors, exchangeVars, infos, updated, lastEntryCandle, cooldownUntil, queue,
                 killSwitch, exited>>

\* Within a unit of time actions are executed and market orders end.  A message of the
\* positions channel may be lost, but a poll shows the position in time; a closed position
\* that is missing from its answer may stay in account_positions.
TimePasses ==
  /\ now < MaxTime /\ queue = <<>> /\ closing = 0
  /\ IF position \in {0, seen} THEN unseen' = 0
     ELSE unseen < PositionDelay /\ unseen' = unseen + 1
  /\ now' = now + 1
  /\ UNCHANGED <<executors, position, seen, closing, closes, controllerVars, queue, killSwitch, exited>>
-------------------------------------------------------------------------------
Control == ManualClose \/ FixedTakeProfitHit \/ WithdrawEntry \/ ConsiderEntry

ExecutorActs(e) ==
  EntryFills(e) \/ HitsBarrier(e) \/ Finishes(e) \/ ForgetsFill(e) \/ GivesUp(e)

Next ==
  \/ Control \/ Listen \/ Tick
  \/ \E e \in DOMAIN executors : ExecutorActs(e)
  \/ MarketOrderEnds \/ SeePosition \/ RequestClose \/ TimePasses

Spec == Init /\ [][Next]_vars
-------------------------------------------------------------------------------
(***************************************************************************)
(* Properties.                                                             *)
(***************************************************************************)
Unfinished == {e \in DOMAIN executors : ~executors[e].ended}

\* MEAN_REVERSION.md:38, 每品种最多一个执行器: there is at most one executor that has not
\* ended, the one of a queued action included.
OneExecutor ==
  Cardinality(Unfinished)
    + Cardinality({i \in DOMAIN queue : \E a \in queue[i] : a.kind = "create"}) <= 1

Entered(e) == e \notin DOMAIN executors /\ e \in DOMAIN executors'

\* The cooldown after an executor that traded is kept, whatever is asked, stored, stopped
\* or restarted meanwhile.  (MEAN_REVERSION.md:40 says after each end; the code, and this,
\* counts the ends of executors that traded: pmm_simple.py:304.)
CooldownKept ==
  [][\A f \in Ids : Entered(f) =>
       \A e \in DOMAIN executors :
         Traded(executors[e]) /\ executors[e].ended =>
           now - executors[e].closed
             >= IF executors[e].closeType = "STOP_LOSS" THEN StopLossCooldown ELSE Cooldown]_vars

\* What the environment does with an executor, and the strategy to it, is what
\* ExecutorLifecycle, which PositionExecutor implements, says of one without held orders.
Lifecycle(e) ==
  INSTANCE ExecutorLifecycle WITH
    status <- executors[e].status, closeType <- executors[e].closeType,
    ended <- executors[e].ended, holding <- FALSE
FollowLifecycle ==
  [][\A e \in DOMAIN executors : [Lifecycle(e)!Next]_(Lifecycle(e)!executorVars)]_vars

\* MEAN_REVERSION.md:40, 同一根信号 K 线最多尝试一次: a candle is tried again only after an
\* attempt, of this candle or an older one, that ended without a trade a grace ago; and
\* never after a trade, if the cooldown is as long as a candle (as it is configured).
CandleTriedOnce ==
  \A e, f \in DOMAIN executors :
    /\ e < f
    /\ executors[e].created \div CandleLength = executors[f].created \div CandleLength
    => /\ \E d \in 1..(f - 1) :
            ~Traded(executors[d]) /\ executors[f].created >= executors[d].closed + Grace
       /\ Cooldown >= CandleLength => ~Traded(executors[e])

\* MEAN_REVERSION.md:38, 已有仓位、部分成交或正在平仓时不新开仓: nothing is entered on top of a
\* position, although account_positions is behind by a poll, if the cooldown is longer than
\* that (as it is configured: 300 s and 120 s).  The code does not see, and the text does not
\* except, a position of a previous run that no poll has shown since the start, nor one that an
\* executor forgot within the time of a poll.
EntersFlat ==
  [][\A f \in Ids : Entered(f) /\ PositionDelay < Cooldown =>
       \/ position = 0
       \/ unseen = now
       \/ \E e \in DOMAIN executors :
            executors[e].left /\ ~executors[e].filled /\ now - executors[e].closed <= PositionDelay]_vars

\* pmm_simple.py:123, "A second order would reverse it": the controller's market orders
\* never trade more than the position there is.
CloseNeverReverses == position * (position + closing) >= 0

\* pmm_simple.py:294, "A shutting-down executor can still hold exposure. Wait until it is
\* terminated.": an executor the controller waits for has not ended.
WaitsForLiveOnly == \A e \in DOMAIN executors : executors[e].ended => Done(executors[e])
===============================================================================
