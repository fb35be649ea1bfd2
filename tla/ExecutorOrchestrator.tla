--------------------------- MODULE ExecutorOrchestrator ---------------------------
(***************************************************************************)
(* The orchestrator of one controller's executors on one market            *)
(* (executor_orchestrator.py), and the rows of the Position table it keeps *)
(* across restarts: it creates, stops and stores executors, turns what     *)
(* they end up holding into a held position, and at shutdown waits for     *)
(* them, forces the ones that are late, and saves the position.            *)
(*                                                                         *)
(* Executors do what ExecutorLifecycle lets them do.  An executor holds its*)
(* entry order, its close order or both; amounts are whole lots.  The rows *)
(* of earlier runs are the initial state; a crash saves nothing, so it     *)
(* leaves the rows a run began with.                                       *)
(***************************************************************************)
EXTENDS Integers, Sequences, FiniteSets, FiniteSetsExt, SequencesExt

CONSTANTS CloseTypes,    \* the close types that executors choose
          Sizes,         \* lots of an entry
          Remembered,    \* maxlen of executors_ids_position_held
          Buffer,        \* closed_executors_buffer
          StallBudget,   \* of a stop, in polls
          MinCap,        \* hard_cap is at least this
          Amounts,       \* in the rows of earlier runs
          MaxExecutors   \* bound: executors ever created

ASSUME SizeAssumption == Sizes \subseteq Nat \ {0} /\ Amounts \subseteq Nat
ASSUME CloseTypeAssumption ==
  {"EARLY_STOP", "POSITION_HOLD", "FAILED"} \subseteq CloseTypes
ASSUME CountAssumption ==
  /\ {Remembered, Buffer, MinCap, MaxExecutors} \subseteq Nat
  /\ StallBudget \in Nat \ {0}

VARIABLES
  phase,            \* running, stopping (waiting), finishing or stopped
  executors,        \* in the order they were created
  remembered,       \* executors_ids_position_held
  positions,        \* positions_held
  opening,          \* net of the positions at the start
  elapsed, stalled, signature,  \* of stop()
  saved,            \* net of the positions when they are stored
  rows              \* amount of the Position rows of the two sides

stopVars == <<elapsed, stalled, signature>>
vars == <<phase, executors, remembered, positions, opening, stopVars, saved, rows>>

Ids == 1..MaxExecutors
Kind == {"entry", "close"}
Order == Ids \X Kind
NoRow == -1
HardCap == IF MinCap < StallBudget THEN StallBudget ELSE MinCap
Statuses == {"RUNNING", "SHUTTING_DOWN", "TERMINATED"}

Executor == [side : {-1, 1}, size : Sizes, status : Statuses, closeType : CloseTypes \cup {"none"},
             ended : BOOLEAN, held : SUBSET Kind, stored : BOOLEAN]
Position == [net : Int, orders : SUBSET Order]

TypeOK ==
  /\ phase \in {"running", "stopping", "finishing", "stopped"}
  /\ executors \in Seq(Executor) /\ Len(executors) <= MaxExecutors
  /\ remembered \in Seq(Ids) /\ Len(remembered) <= Remembered
  /\ positions \in Seq(Position)
  /\ elapsed \in 0..HardCap /\ stalled \in 0..StallBudget
  /\ DOMAIN signature \subseteq Ids
  /\ {opening, saved} \subseteq Int
  /\ rows \in [{"BUY", "SELL"} -> Nat \cup {NoRow}]

RowNet(side) == IF side = "BUY" THEN rows["BUY"] ELSE -rows["SELL"]
Present == {side \in {"BUY", "SELL"} : rows[side] # NoRow}
RowsNet == SumFunction([side \in Present |-> RowNet(side)])

RowPosition(side) ==
  IF side \in Present THEN <<[net |-> RowNet(side), orders |-> {}]>> ELSE <<>>

\* _initialize_cached_performance: each row becomes a position.
Init ==
  /\ phase = "running"
  /\ executors = <<>> /\ remembered = <<>>
  /\ elapsed = 0 /\ stalled = 0 /\ signature = <<>>
  /\ rows \in [{"BUY", "SELL"} -> Amounts \cup {NoRow}]
  /\ positions = RowPosition("BUY") \o RowPosition("SELL")
  /\ opening = RowsNet /\ saved = RowsNet
-------------------------------------------------------------------------------
(***************************************************************************)
(* Held positions.                                                         *)
(***************************************************************************)
Smaller(a, b) == IF a < b THEN a ELSE b
Abs(n) == IF n < 0 THEN -n ELSE n

\* PositionHold._process_order: reduce, close or flip the position, or add to it.
ProcessOrder(net, isBuy, amount) ==
  LET matched == Smaller(amount, Abs(net))
      excess == amount - matched
      reducing == (net > 0 /\ ~isBuy) \/ (net < 0 /\ isBuy)
  IN CASE amount = 0 -> net
       [] amount # 0 /\ reducing /\ excess > 0 -> IF isBuy THEN excess ELSE -excess
       [] amount # 0 /\ reducing /\ excess <= 0 -> IF net > 0 THEN net - matched ELSE net + matched
       [] amount # 0 /\ ~reducing -> IF isBuy THEN Abs(net) + amount ELSE -(Abs(net) + amount)

IsBuy(book, order) == (book[order[1]].side = 1) = (order[2] = "entry")
Signed(book, order) == IF IsBuy(book, order) THEN book[order[1]].size ELSE -book[order[1]].size
HeldOrders(book, ids) == {order \in Order : order[1] \in ids /\ order[2] \in book[order[1]].held}

Processed(book, net, orders) ==
  FoldSet(LAMBDA order, sum : ProcessOrder(sum, IsBuy(book, order), book[order[1]].size), net, orders)

\* Mutant: an order already counted is added again.
AddOrdersAgain(book, position, orders) ==
  [net |-> Processed(book, position.net, orders), orders |-> position.orders \cup orders]

\* add_orders_from_executor
AddOrders(book, position, orders) ==
  [net |-> Processed(book, position.net, orders \ position.orders),
   orders |-> position.orders \cup orders]

Done(executor) == executor.status = "TERMINATED"
Active(book) == {e \in DOMAIN book : ~book[e].stored}
Counted == UNION {positions[i].orders : i \in DOMAIN positions}

\* The executors _update_positions_from_done_executors has not processed, or has forgotten.
ToCount(book) ==
  {e \in Active(book) : Done(book[e]) /\ book[e].closeType = "POSITION_HOLD" /\ e \notin Range(remembered)}

\* In the order they were created.
Listed(ids) ==
  LET listed[n \in 0..MaxExecutors] ==
        IF n = 0 THEN <<>>
        ELSE IF n \in ids THEN Append(listed[n - 1], n) ELSE listed[n - 1]
  IN listed[MaxExecutors]

\* Mutant: the deque has no maxlen.
LatestAll(ids) == ids

Latest(ids) == SubSeq(ids, 1 + Len(ids) - Smaller(Len(ids), Remembered), Len(ids))

\* In one-way mode everything goes to the first position of the market.
PositionsWith(book) ==
  LET orders == HeldOrders(book, ToCount(book))
  IN CASE ToCount(book) = {} -> positions
       [] ToCount(book) # {} /\ positions = <<>> -> <<AddOrders(book, [net |-> 0, orders |-> {}], orders)>>
       [] ToCount(book) # {} /\ positions # <<>> -> [positions EXCEPT ![1] = AddOrders(book, @, orders)]

\* _update_positions_from_done_executors
Count(book) ==
  /\ positions' = PositionsWith(book)
  /\ remembered' = Latest(remembered \o Listed(ToCount(book)))
-------------------------------------------------------------------------------
(***************************************************************************)
(* Actions of the controllers, and the strategy's tick.                    *)
(***************************************************************************)
\* early_stop
Stopped(executor, keepPosition) ==
  [executor EXCEPT !.status = "SHUTTING_DOWN",
                   !.closeType = IF keepPosition THEN "POSITION_HOLD" ELSE "EARLY_STOP"]

\* The listener publishes new infos after it executed.
CreateExecutor ==
  /\ phase = "running" /\ Len(executors) < MaxExecutors
  /\ \E side \in {-1, 1}, size \in Sizes :
       executors' = Append(executors,
         [side |-> side, size |-> size, status |-> "RUNNING", closeType |-> "none", ended |-> FALSE,
          held |-> {}, stored |-> FALSE])
  /\ Count(executors')
  /\ UNCHANGED <<phase, opening, stopVars, saved, rows>>

\* stop_executor does not look at the status; the kill switch publishes nothing after it.
StopExecutor ==
  /\ phase = "running"
  /\ \E e \in Active(executors), keepPosition \in BOOLEAN :
       executors' = [executors EXCEPT ![e] = Stopped(@, keepPosition)]
  /\ Count(executors') \/ UNCHANGED <<positions, remembered>>
  /\ UNCHANGED <<phase, opening, stopVars, saved, rows>>

\* on_tick; nothing is stored while the market data are not ready, nor once the strategy stops.
Tick ==
  /\ phase \in {"running", "stopping"}
  /\ Count(executors)
  /\ LET done == {e \in Active(executors) : Done(executors[e])}
         old == {e \in done : Cardinality({d \in done : d > e}) >= Buffer}
     IN \E stores \in IF phase = "running" THEN BOOLEAN ELSE {FALSE} :
          executors' = [e \in DOMAIN executors |->
            IF stores /\ e \in old THEN [executors[e] EXCEPT !.stored = TRUE] ELSE executors[e]]
  /\ UNCHANGED <<phase, opening, stopVars, saved, rows>>
-------------------------------------------------------------------------------
(***************************************************************************)
(* Executors.                                                              *)
(***************************************************************************)
Lifecycle(e) ==
  INSTANCE ExecutorLifecycle WITH
    status <- executors[e].status, closeType <- executors[e].closeType,
    ended <- executors[e].ended, holding <- executors[e].held # {}

\* What its loop does five seconds after it ended comes after a tick of the strategy.
ExecutorStep ==
  /\ phase \in {"running", "stopping"}
  /\ \E e \in Active(executors) :
       /\ \E status \in Statuses, why \in CloseTypes, ended \in BOOLEAN, held \in SUBSET Kind :
            /\ executors[e].held \subseteq held
            /\ executors' = [executors EXCEPT ![e].status = status, ![e].closeType = why,
                                              ![e].ended = ended, ![e].held = held]
       /\ Lifecycle(e)!OwnStep
       /\ executors'[e].held # executors[e].held => Lifecycle(e)!Hold
       /\ Done(executors[e]) => e \notin ToCount(executors)
  /\ UNCHANGED <<phase, remembered, positions, opening, stopVars, saved, rows>>
-------------------------------------------------------------------------------
(***************************************************************************)
(* Shutdown.                                                               *)
(***************************************************************************)
Net(held) == SumFunction([i \in DOMAIN held |-> held[i].net])

SideOf(net) == IF net < 0 THEN "SELL" ELSE "BUY"

\* Mutant: the row keeps what it has.
StoreMore(table, position) ==
  LET side == SideOf(position.net)
  IN [table EXCEPT ![side] = IF @ = NoRow THEN Abs(position.net) ELSE @ + Abs(position.net)]

\* update_or_store_position: the row of the side the position has now.
StorePosition(table, position) == [table EXCEPT ![SideOf(position.net)] = Abs(position.net)]

\* force_stop_with_position_hold; the orders of an executor that holds already are all over.
Forced(executor, fills) ==
  LET held == IF executor.held = {} THEN fills ELSE executor.held
  IN [executor EXCEPT !.status = "TERMINATED", !.ended = TRUE, !.held = held,
                      !.closeType = IF held # {} THEN "POSITION_HOLD" ELSE "FAILED"]

Unfinished == {e \in Active(executors) : ~Done(executors[e])}
Ended(e, fills) == IF e \in Unfinished THEN Forced(executors[e], fills[e]) ELSE executors[e]

\* Mutant: positions are stored before what the executors hold is counted.
FinishStopUncounted ==
  /\ phase = "finishing"
  /\ \E fills \in [Unfinished -> SUBSET Kind] :
       executors' = [e \in DOMAIN executors |-> [Ended(e, fills) EXCEPT !.stored = TRUE]]
  /\ rows' = FoldLeft(StorePosition, rows, positions) /\ saved' = Net(positions)
  /\ phase' = "stopped"
  /\ UNCHANGED <<positions, remembered, opening, stopVars>>

\* Mutant: unfinished executors are stored as they are.
FinishStopUnforced ==
  /\ phase = "finishing"
  /\ executors' = [e \in DOMAIN executors |-> [executors[e] EXCEPT !.stored = TRUE]]
  /\ Count(executors)
  /\ rows' = FoldLeft(StorePosition, rows, positions') /\ saved' = Net(positions')
  /\ phase' = "stopped"
  /\ UNCHANGED <<opening, stopVars>>

\* The end of stop(), without a pause after the wait: force the unfinished ones, count,
\* store the positions and the executors.
FinishStop ==
  /\ phase = "finishing"
  /\ \E fills \in [Unfinished -> SUBSET Kind] :
       /\ Count([e \in DOMAIN executors |-> Ended(e, fills)])
       /\ executors' = [e \in DOMAIN executors |-> [Ended(e, fills) EXCEPT !.stored = TRUE]]
  /\ rows' = FoldLeft(StorePosition, rows, positions') /\ saved' = Net(positions')
  /\ phase' = "stopped"
  /\ UNCHANGED <<opening, stopVars>>

\* _executors_shutdown_signature
SignatureOf(book) == [e \in Active(book) |-> <<book[e].status, book[e].closeType>>]

AllDone(book) == \A e \in Active(book) : Done(book[e])

\* Only executors neither closed nor shutting down get a close type from the stop.
StoppedRunning(book) ==
  [e \in DOMAIN book |->
     IF book[e].stored \/ Done(book[e]) \/ book[e].status = "SHUTTING_DOWN"
     THEN book[e] ELSE Stopped(book[e], FALSE)]

BeginStop ==
  /\ phase = "running"
  /\ executors' = StoppedRunning(executors)
  /\ phase' = IF AllDone(executors') THEN "finishing" ELSE "stopping"
  /\ signature' = SignatureOf(executors')
  /\ UNCHANGED <<remembered, positions, opening, elapsed, stalled, saved, rows>>

\* Mutant: the wait has no deadline.
NeverOutOfTime(polls, still) == FALSE

OutOfTime(polls, still) == still >= StallBudget \/ polls >= HardCap

\* A turn of stop()'s loop, after its sleep.
StopPoll ==
  /\ phase = "stopping"
  /\ elapsed' = Smaller(elapsed + 1, HardCap)
  /\ stalled' = IF SignatureOf(executors) = signature THEN Smaller(stalled + 1, StallBudget) ELSE 0
  /\ signature' = SignatureOf(executors)
  /\ phase' = IF AllDone(executors) \/ OutOfTime(elapsed', stalled') THEN "finishing" ELSE phase
  /\ UNCHANGED <<executors, remembered, positions, opening, saved, rows>>

Next == CreateExecutor \/ StopExecutor \/ Tick \/ ExecutorStep \/ BeginStop \/ StopPoll \/ FinishStop

Spec == Init /\ [][Next]_vars
\* The wait of stop() goes on.
FairSpec == Spec /\ WF_vars(StopPoll) /\ WF_vars(FinishStop)
-------------------------------------------------------------------------------
(***************************************************************************)
(* Properties.                                                             *)
(***************************************************************************)
Sum(book, orders) == SumFunction([order \in orders |-> Signed(book, order)])

\* executor_orchestrator.py:118, "Skip if we've already processed this order": the held net
\* is what it began with and every counted order once, whatever the deque of
\* processed executors forgets and whatever executors are stored meanwhile.
CountedOnce == Net(positions) = opening + Sum(executors, Counted)

\* executor_orchestrator.py:401, "so no exposure goes untracked": what a stop saves holds
\* every order any executor held, but for one that gave up after it was
\* stopped in the moment between its end and its counting.
HeldIsSaved ==
  phase = "stopped" /\ (\A e \in DOMAIN executors : executors[e].held # {} => executors[e].closeType # "FAILED")
    => saved = opening + Sum(executors, HeldOrders(executors, DOMAIN executors))

\* A stop leaves no executor that has not ended, whatever the order of ends, stops and polls.
StopEndsAll == phase = "stopped" => \A e \in DOMAIN executors : Done(executors[e]) /\ executors[e].ended

\* Unless rows of both sides exist, the next run opens with what the last stop saved.
OneRowIsTheNet == phase = "stopped" /\ Cardinality(Present) = 1 => RowsNet = saved

\* executor_orchestrator.py:289, "we reconstruct the PositionHold with the assumption that it
\* represents the remaining net position".
RowsAreTheNet == phase = "stopped" => RowsNet = saved

\* executor_orchestrator.py:415, "extending the deadline while any of them makes observable
\* progress", under a hard cap: the stop ends.
StopEnds == phase = "stopping" ~> phase = "stopped"
===============================================================================
