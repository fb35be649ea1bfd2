-------------------------- MODULE ClientOrderTracker --------------------------
(***************************************************************************)
(* The connector's view of its orders: ClientOrderTracker and the          *)
(* InFlightOrder objects it holds, driven by the four sources that feed    *)
(* it, all coroutines of one event loop:                                   *)
(*   - the REST answers to placing and to cancelling an order,             *)
(*   - the private user stream (order events that also carry a fill),      *)
(*   - the REST status poll, over the active orders and over the lost      *)
(*     ones, whose answers are snapshots taken before an await,            *)
(*   - the REST fill polls (per order, and the account's trade history).   *)
(* An order update is a task of its own (safe_ensure_future): the updates  *)
(* wait in queue, in the order they were scheduled, and a FILLED one may   *)
(* give way again while it waits for the fills.  A trade update is         *)
(* applied inside the handler that received it.                            *)
(*                                                                         *)
(* The size of an order is Amount lots and the exchange trades it lot by   *)
(* lot: trade t of an order is its t-th lot.                               *)
(***************************************************************************)
EXTENDS Naturals, Sequences, FiniteSets

CONSTANTS Order,      \* client order ids the connector will ever use
          Amount,     \* lots of every order
          LostLimit,  \* lost_order_count_limit
          MaxQueue,   \* bound: scheduled order updates not started yet
          MaxWaiting  \* bound: updates of one order awaiting its fills at once

ASSUME AmountAssumption == Amount \in Nat \ {0}
ASSUME LostLimitAssumption == LostLimit \in Nat
ASSUME BoundsAssumption == MaxQueue \in Nat \ {0} /\ MaxWaiting \in Nat \ {0}

VARIABLES
  \* the exchange (not in the repository) and what travels to and from it
  exStatus,    \* exStatus[o]: the order on the exchange
  exTrades,    \* exTrades[o]: its trades, as the exchange executed them
  stream,      \* user stream messages sent and not read yet
  placing,     \* placing[o]: the request that places the order
  cancelling,  \* cancelling[o]: the request that cancels it
  polls,       \* status answers on their way back, each a snapshot
  \* the event loop
  queue,       \* scheduled _process_order_update tasks, in order
  waiting,     \* waiting[o]: started FILLED updates awaiting the fills
  \* ClientOrderTracker
  active, cached, lost,  \* keys of _in_flight_orders, _cached_orders, _lost_orders
  misses,      \* _order_not_found_records
  \* InFlightOrder, one object per order
  state, exId, fills, executed,
  \* events triggered on the connector since the order exists
  created, filledEvents, terminal

exchangeVars == <<exStatus, exTrades, stream, placing, cancelling, polls>>
loopVars == <<queue, waiting>>
homeVars == <<active, cached, lost, misses>>
orderVars == <<state, exId, created, terminal>>
fillVars == <<fills, executed, filledEvents>>
vars == <<exchangeVars, loopVars, homeVars, orderVars, fillVars>>

Trade == 1..Amount

OpenStates == {"PENDING_CREATE", "OPEN", "PARTIALLY_FILLED", "PENDING_CANCEL"}
TerminalStates == {"CANCELED", "FILLED", "FAILED"}
OrderState == OpenStates \cup TerminalStates
ReportedState == {"OPEN", "PARTIALLY_FILLED", "FILLED", "CANCELED"}
ListName == {"active", "lost"}

OrderUpdate == [order : Order, state : OrderState \ {"PENDING_CREATE"}, ex : BOOLEAN]
StreamMessage == [order : Order, state : ReportedState, trades : SUBSET Trade]
Poll == [order : Order, list : ListName, state : ReportedState \cup {"ABSENT"}]

TypeOK ==
  /\ exStatus \in [Order -> {"absent", "live", "filled", "canceled"}]
  /\ exTrades \in [Order -> SUBSET Trade]
  /\ stream \in Seq(StreamMessage)
  /\ placing \in [Order -> {"no", "sent", "accepted", "rejected", "done"}]
  /\ cancelling \in [Order -> {"no", "sent", "ok", "error"}]
  /\ polls \subseteq Poll
  /\ queue \in Seq(OrderUpdate)
  /\ waiting \in [Order -> Nat]
  /\ active \subseteq Order /\ cached \subseteq Order /\ lost \subseteq Order
  /\ misses \in [Order -> Nat]
  /\ state \in [Order -> OrderState]
  /\ exId \in [Order -> BOOLEAN]
  /\ fills \in [Order -> SUBSET Trade]
  /\ executed \in [Order -> Nat]
  /\ created \in [Order -> Nat]
  /\ filledEvents \in [Order -> Nat]
  /\ terminal \in [Order -> SUBSET {"Cancelled", "Completed", "Failure"}]

Init ==
  /\ exStatus = [o \in Order |-> "absent"]
  /\ exTrades = [o \in Order |-> {}]
  /\ stream = <<>>
  /\ placing = [o \in Order |-> "no"]
  /\ cancelling = [o \in Order |-> "no"]
  /\ polls = {}
  /\ queue = <<>>
  /\ waiting = [o \in Order |-> 0]
  /\ active = {} /\ cached = {} /\ lost = {}
  /\ misses = [o \in Order |-> 0]
  /\ state = [o \in Order |-> "PENDING_CREATE"]
  /\ exId = [o \in Order |-> FALSE]
  /\ fills = [o \in Order |-> {}]
  /\ executed = [o \in Order |-> 0]
  /\ created = [o \in Order |-> 0]
  /\ filledEvents = [o \in Order |-> 0]
  /\ terminal = [o \in Order |-> {}]
-------------------------------------------------------------------------------
(***************************************************************************)
(* Operations of InFlightOrder and ClientOrderTracker.                     *)
(***************************************************************************)
AllOrders == active \cup cached
FillableOrders == active \cup cached \cup lost
UpdatableOrders == active \cup lost

FullyExecuted(o) == executed[o] >= Amount
IsDone(o) == state[o] \in TerminalStates \/ FullyExecuted(o)

\* The states whose arrival on a PENDING_CREATE order triggers the created event.
CreatingStates == {"OPEN", "PARTIALLY_FILLED", "FILLED"}

\* Mutant: the event is named after the state.
CompletionEventNamesState(o, s) == s

\* The completion event of an order whose state has just become s.
CompletionEvent(o, s) ==
  IF s = "CANCELED" THEN "Cancelled"
  ELSE IF s = "FILLED" \/ FullyExecuted(o) THEN "Completed"
  ELSE "Failure"

Updates(o, s, ex) == s # state[o] \/ (ex /\ ~exId[o])

\* Mutant: a pending cancel does not count as news of the order's creation.
UpdateOrderCreatesAgain(o, s, ex) ==
  /\ state' = [state EXCEPT ![o] = s]
  /\ exId' = [exId EXCEPT ![o] = @ \/ ex]
  /\ created' = IF state[o] \in {"PENDING_CREATE", "PENDING_CANCEL"} /\ s \in CreatingStates
                THEN [created EXCEPT ![o] = @ + 1]
                ELSE created
  /\ terminal' = IF Updates(o, s, ex) /\ s \notin OpenStates
                 THEN [terminal EXCEPT ![o] = @ \cup {CompletionEvent(o, s)}]
                 ELSE terminal

\* update_with_order_update, then the creation and completion events.
UpdateOrder(o, s, ex) ==
  /\ state' = [state EXCEPT ![o] = s]
  /\ exId' = [exId EXCEPT ![o] = @ \/ ex]
  /\ created' = IF Updates(o, s, ex) /\ state[o] = "PENDING_CREATE" /\ s \in CreatingStates
                THEN [created EXCEPT ![o] = @ + 1]
                ELSE created
  /\ terminal' = IF Updates(o, s, ex) /\ s \notin OpenStates
                 THEN [terminal EXCEPT ![o] = @ \cup {CompletionEvent(o, s)}]
                 ELSE terminal

\* Mutant: the order is copied to the cache and not deleted from the active ones.
StopTrackingKeepsActive(o) ==
  /\ cached' = IF o \in active THEN cached \cup {o} ELSE cached
  /\ misses' = IF o \in active THEN [misses EXCEPT ![o] = 0] ELSE misses
  /\ UNCHANGED active

\* stop_tracking_order
StopTracking(o) ==
  /\ active' = active \ {o}
  /\ cached' = IF o \in active THEN cached \cup {o} ELSE cached
  /\ misses' = IF o \in active THEN [misses EXCEPT ![o] = 0] ELSE misses

\* Mutant: an order whose fills are incomplete goes on being tracked.
ApplyUpdateKeepsUnfilled(o, s, ex) ==
  /\ UpdateOrder(o, s, ex)
  /\ IF Updates(o, s, ex) /\ s \notin OpenStates /\ (s # "FILLED" \/ FullyExecuted(o))
     THEN StopTracking(o)
     ELSE UNCHANGED <<active, cached, misses>>

\* The second half of _process_order_update, after the wait for the fills if any.
ApplyUpdate(o, s, ex) ==
  /\ UpdateOrder(o, s, ex)
  /\ IF Updates(o, s, ex) /\ s \notin OpenStates
     THEN StopTracking(o)
     ELSE UNCHANGED <<active, cached, misses>>

\* Mutant: trade ids that were recorded before are counted again.
RecordTradesAgain(o, T) ==
  IF o \in FillableOrders
  THEN /\ fills' = [fills EXCEPT ![o] = @ \cup T]
       /\ executed' = [executed EXCEPT ![o] = @ + Cardinality(T)]
       /\ filledEvents' = [filledEvents EXCEPT ![o] = @ + Cardinality(T)]
  ELSE UNCHANGED fillVars

\* process_trade_update for every trade of T, in one handler.
RecordTrades(o, T) ==
  IF o \in FillableOrders
  THEN /\ fills' = [fills EXCEPT ![o] = @ \cup T]
       /\ executed' = [executed EXCEPT ![o] = @ + Cardinality(T \ fills[o])]
       /\ filledEvents' = [filledEvents EXCEPT ![o] = @ + Cardinality(T \ fills[o])]
  ELSE UNCHANGED fillVars

\* A miss within the limit, or of an order that is over, is only counted.
MissCounted(o) ==
  /\ o \in active
  /\ misses[o] + 1 <= LostLimit \/ state[o] \in TerminalStates
  /\ misses' = [misses EXCEPT ![o] = @ + 1]
  /\ UNCHANGED <<active, cached, lost, orderVars>>

\* The miss beyond the limit: FAILED, no longer tracked, and from the cache to the
\* lost orders.
OrderLost(o) ==
  /\ o \in active
  /\ misses[o] + 1 > LostLimit /\ state[o] \notin TerminalStates
  /\ UpdateOrder(o, "FAILED", FALSE)
  /\ active' = active \ {o}
  /\ cached' = cached \ {o}
  /\ lost' = lost \cup {o}
  /\ misses' = [misses EXCEPT ![o] = 0]

\* The miss of a lost order forgets it; of any other order it is ignored.
UntrackedMissed(o) ==
  /\ o \notin active
  /\ lost' = lost \ {o}  \* never a cached order too: OneHome
  /\ UNCHANGED <<active, cached, misses, orderVars>>

ProcessOrderNotFound(o) == MissCounted(o) \/ OrderLost(o) \/ UntrackedMissed(o)

\* process_order_update: one more task for the event loop.
Schedule(o, s, ex) ==
  /\ Len(queue) < MaxQueue
  /\ queue' = Append(queue, [order |-> o, state |-> s, ex |-> ex])
-------------------------------------------------------------------------------
(***************************************************************************)
(* The exchange, as the connector uses it.                                 *)
(***************************************************************************)
\* The state the exchange reports of an order, through ORDER_STATE.
Report(o) ==
  CASE exStatus[o] = "filled" -> "FILLED"
    [] exStatus[o] = "canceled" -> "CANCELED"
    [] exStatus[o] = "live" /\ exTrades[o] = {} -> "OPEN"
    [] exStatus[o] = "live" /\ exTrades[o] # {} -> "PARTIALLY_FILLED"
    [] OTHER -> "ABSENT"

Message(o, s, T) == [order |-> o, state |-> s, trades |-> T]

ExchangeAccepts(o) ==
  /\ placing[o] = "sent"
  /\ placing' = [placing EXCEPT ![o] = "accepted"]
  /\ exStatus' = [exStatus EXCEPT ![o] = "live"]
  /\ stream' = Append(stream, Message(o, "OPEN", {}))
  /\ UNCHANGED <<exTrades, cancelling, polls, loopVars, homeVars, orderVars, fillVars>>

ExchangeRejects(o) ==
  /\ placing[o] = "sent"
  /\ placing' = [placing EXCEPT ![o] = "rejected"]
  /\ UNCHANGED <<exStatus, exTrades, stream, cancelling, polls,
                 loopVars, homeVars, orderVars, fillVars>>

ExchangeTrades(o) ==
  /\ exStatus[o] = "live"
  /\ LET t == Cardinality(exTrades[o]) + 1
         s == IF t = Amount THEN "FILLED" ELSE "PARTIALLY_FILLED"
     IN /\ exTrades' = [exTrades EXCEPT ![o] = @ \cup {t}]
        /\ exStatus' = [exStatus EXCEPT ![o] = IF t = Amount THEN "filled" ELSE @]
        /\ stream' = Append(stream, Message(o, s, {t}))
  /\ UNCHANGED <<placing, cancelling, polls, loopVars, homeVars, orderVars, fillVars>>

\* A cancel request reaches the exchange.  It reports success for an order it
\* cancels now, has canceled before or does not know (_place_cancel accepts those
\* codes); a filled order is unknown or an error, depending on its age.
ExchangeCancels(o) ==
  /\ cancelling[o] = "sent"
  /\ IF exStatus[o] = "live"
     THEN /\ exStatus' = [exStatus EXCEPT ![o] = "canceled"]
          /\ stream' = Append(stream, Message(o, "CANCELED", {}))
     ELSE UNCHANGED <<exStatus, stream>>
  /\ \E answer \in IF exStatus[o] = "filled" THEN {"ok", "error"} ELSE {"ok"} :
       cancelling' = [cancelling EXCEPT ![o] = answer]
  /\ UNCHANGED <<exTrades, placing, polls, loopVars, homeVars, orderVars, fillVars>>

\* The exchange closes an order by itself: the part of an IOC order the book cannot
\* fill, a post-only order that would cross, a market maker protection cancel.
ExchangeExpires(o) ==
  /\ exStatus[o] = "live"
  /\ exStatus' = [exStatus EXCEPT ![o] = "canceled"]
  /\ stream' = Append(stream, Message(o, "CANCELED", {}))
  /\ UNCHANGED <<exTrades, placing, cancelling, polls,
                 loopVars, homeVars, orderVars, fillVars>>

\* The websocket is down while a message is sent: nothing replays it later.
StreamLoses ==
  /\ stream # <<>>
  /\ stream' = Tail(stream)
  /\ UNCHANGED <<exStatus, exTrades, placing, cancelling, polls,
                 loopVars, homeVars, orderVars, fillVars>>
-------------------------------------------------------------------------------
(***************************************************************************)
(* ExchangePyBase and OkxPerpetualDerivative.                              *)
(***************************************************************************)
\* _create_order up to its first await; the order is rejected locally when it is
\* below the exchange's minimum size or notional, or of an unsupported type.
CreateOrder(o) ==
  /\ placing[o] = "no"
  /\ active' = active \cup {o}
  /\ \/ placing' = [placing EXCEPT ![o] = "sent"] /\ UNCHANGED queue
     \/ placing' = [placing EXCEPT ![o] = "done"] /\ Schedule(o, "FAILED", FALSE)
  /\ UNCHANGED <<exStatus, exTrades, stream, cancelling, polls, waiting,
                 cached, lost, misses, orderVars, fillVars>>

\* _place_order_and_process_update: the exchange's order id is known.
PlaceAnswered(o) ==
  /\ placing[o] = "accepted"
  /\ placing' = [placing EXCEPT ![o] = "done"]
  /\ Schedule(o, "OPEN", TRUE)
  /\ UNCHANGED <<exStatus, exTrades, stream, cancelling, polls, waiting,
                 homeVars, orderVars, fillVars>>

\* _on_order_failure: rejected, or any network error, the answer to an accepted
\* order being lost included.
PlaceFails(o) ==
  /\ placing[o] \in {"sent", "accepted", "rejected"}
  /\ placing' = [placing EXCEPT ![o] = "done"]
  /\ Schedule(o, "FAILED", FALSE)
  /\ UNCHANGED <<exStatus, exTrades, stream, cancelling, polls, waiting,
                 homeVars, orderVars, fillVars>>

\* _execute_cancel of an active order, _cancel_lost_orders of a lost one.
Cancel(o) ==
  /\ o \in UpdatableOrders
  /\ cancelling[o] = "no"
  /\ cancelling' = [cancelling EXCEPT ![o] = "sent"]
  /\ UNCHANGED <<exStatus, exTrades, stream, placing, polls,
                 loopVars, homeVars, orderVars, fillVars>>

\* Mutant: the tracking stops when the exchange accepts the cancel request.
CancelAnsweredStopsTracking(o) ==
  /\ cancelling[o] = "ok"
  /\ cancelling' = [cancelling EXCEPT ![o] = "no"]
  /\ StopTracking(o)
  /\ UNCHANGED <<exStatus, exTrades, stream, placing, polls, loopVars,
                 lost, orderVars, fillVars>>

\* _execute_order_cancel_and_process_update: cancelling is asynchronous on OKX.
CancelAnswered(o) ==
  /\ cancelling[o] = "ok"
  /\ cancelling' = [cancelling EXCEPT ![o] = "no"]
  /\ Schedule(o, "PENDING_CANCEL", FALSE)
  /\ UNCHANGED <<exStatus, exTrades, stream, placing, polls, waiting,
                 homeVars, orderVars, fillVars>>

\* _execute_order_cancel, any exception but a timeout: logged only, because OKX's
\* _is_order_not_found_during_cancelation_error is always false.
CancelFails(o) ==
  /\ cancelling[o] \in {"sent", "error"}
  /\ cancelling' = [cancelling EXCEPT ![o] = "no"]
  /\ UNCHANGED <<exStatus, exTrades, stream, placing, polls,
                 loopVars, homeVars, orderVars, fillVars>>

\* _execute_order_cancel, a timeout: it counts as a miss of the order.
CancelTimesOut(o) ==
  /\ cancelling[o] \in {"sent", "ok", "error"}
  /\ cancelling' = [cancelling EXCEPT ![o] = "no"]
  /\ ProcessOrderNotFound(o)
  /\ UNCHANGED <<exStatus, exTrades, stream, placing, polls, loopVars, fillVars>>

\* _user_stream_event_listener: _process_order_event_message schedules the status
\* update and then applies the fill, which therefore always comes first.
StreamDelivers ==
  /\ stream # <<>>
  /\ LET m == Head(stream) IN
     /\ IF m.order \in UpdatableOrders
        THEN Schedule(m.order, m.state, TRUE)
        ELSE UNCHANGED queue
     /\ RecordTrades(m.order, m.trades)
  /\ stream' = Tail(stream)
  /\ UNCHANGED <<exStatus, exTrades, placing, cancelling, polls, waiting,
                 homeVars, orderVars>>

\* _update_orders_fills: the fills of one order whose exchange id is known; the
\* answer is as old as the request, so any part of the trades may be in it.
PollFills(o) ==
  /\ o \in FillableOrders /\ exId[o]
  /\ \E T \in SUBSET exTrades[o] : RecordTrades(o, T)
  /\ UNCHANGED <<exchangeVars, loopVars, homeVars, orderVars>>

\* _update_trade_history and _process_trade_event_message: the latest trades of the
\* account, matched by client order id.
PollTradeHistory(o) ==
  /\ o \in FillableOrders
  /\ \E T \in SUBSET exTrades[o] : RecordTrades(o, T)
  /\ UNCHANGED <<exchangeVars, loopVars, homeVars, orderVars>>

\* _update_orders (active orders) and _update_lost_orders: ask for a status; the
\* list was copied before, and the answer is a snapshot.
PollStatus(o) ==
  /\ \E list \in ListName :
       /\ o \in IF list = "active" THEN active ELSE lost
       /\ \A p \in polls : p.order = o => p.list # list
       /\ polls' = polls \cup {[order |-> o, list |-> list, state |-> Report(o)]}
  /\ UNCHANGED <<exStatus, exTrades, stream, placing, cancelling,
                 loopVars, homeVars, orderVars, fillVars>>

PollAnswered(p) ==
  /\ p.state # "ABSENT"
  /\ polls' = polls \ {p}
  /\ Schedule(p.order, p.state, TRUE)
  /\ UNCHANGED <<exStatus, exTrades, stream, placing, cancelling, waiting,
                 homeVars, orderVars, fillVars>>

\* Mutant: an error makes a lost order active again, to be retried.
PollFailsRetracks(p) ==
  /\ Len(queue) < MaxQueue
  /\ polls' = polls \ {p}
  /\ IF p.list = "active"
     THEN ProcessOrderNotFound(p.order)
     ELSE /\ active' = active \cup ({p.order} \cap lost)
          /\ lost' = lost \ {p.order}
          /\ UNCHANGED <<cached, misses, orderVars>>
  /\ UNCHANGED <<exStatus, exTrades, stream, placing, cancelling, loopVars, fillVars>>

\* _handle_update_error_for_active_order: every error is a miss.
\* _handle_update_error_for_lost_order: nothing, because OKX's
\* _is_order_not_found_during_status_update_error is always false.
\* (Bound: like an answer, an error comes only while queue has room.)
PollFails(p) ==
  /\ Len(queue) < MaxQueue
  /\ polls' = polls \ {p}
  /\ IF p.list = "active"
     THEN ProcessOrderNotFound(p.order)
     ELSE UNCHANGED <<homeVars, orderVars>>
  /\ UNCHANGED <<exStatus, exTrades, stream, placing, cancelling, loopVars, fillVars>>
-------------------------------------------------------------------------------
(***************************************************************************)
(* The event loop.                                                         *)
(***************************************************************************)
\* _process_order_update, from its start to its end or to the wait for fills.
RunUpdate ==
  /\ queue # <<>>
  /\ queue' = Tail(queue)
  /\ LET o == Head(queue).order
         s == Head(queue).state
         ex == Head(queue).ex
     IN \/ /\ o \in AllOrders /\ s = "FILLED" /\ ~IsDone(o)
           /\ waiting[o] < MaxWaiting
           /\ waiting' = [waiting EXCEPT ![o] = @ + 1]
           /\ UNCHANGED <<homeVars, orderVars>>
        \/ /\ o \in AllOrders /\ (s # "FILLED" \/ IsDone(o))
           /\ ApplyUpdate(o, s, ex)
           /\ UNCHANGED <<lost, waiting>>
        \/ /\ o \notin AllOrders
           /\ lost' = IF s \in TerminalStates THEN lost \ {o} ELSE lost
           /\ UNCHANGED <<active, cached, misses, waiting, orderVars>>
  /\ UNCHANGED <<exchangeVars, fillVars>>

\* The update that waited goes on with the order object it fetched before the wait,
\* wherever the order is now.
FinishFilled(o) ==
  /\ waiting[o] > 0
  /\ waiting' = [waiting EXCEPT ![o] = @ - 1]
  /\ ApplyUpdate(o, "FILLED", TRUE)
  /\ UNCHANGED <<exchangeVars, queue, lost, fillVars>>

FillsArrived(o) == FullyExecuted(o) /\ FinishFilled(o)

\* Mutant: the update is dropped when its fills do not arrive in time.
FillsTimeOutDrops(o) ==
  /\ waiting[o] > 0 /\ ~FullyExecuted(o)
  /\ waiting' = [waiting EXCEPT ![o] = @ - 1]
  /\ UNCHANGED <<exchangeVars, queue, homeVars, orderVars, fillVars>>

\* TRADE_FILLS_WAIT_TIMEOUT: processed with incomplete information.
FillsTimeOut(o) == ~FullyExecuted(o) /\ FinishFilled(o)

\* CACHED_ORDER_TTL (or MAX_CACHE_SIZE).
CacheExpires(o) ==
  /\ o \in cached
  /\ cached' = cached \ {o}
  /\ UNCHANGED <<exchangeVars, loopVars, active, lost, misses, orderVars, fillVars>>
-------------------------------------------------------------------------------
Next ==
  \/ StreamLoses \/ StreamDelivers \/ RunUpdate
  \/ \E o \in Order :
       \/ ExchangeAccepts(o) \/ ExchangeRejects(o) \/ ExchangeTrades(o)
       \/ ExchangeCancels(o) \/ ExchangeExpires(o)
       \/ CreateOrder(o) \/ PlaceAnswered(o) \/ PlaceFails(o)
       \/ Cancel(o) \/ CancelAnswered(o) \/ CancelFails(o) \/ CancelTimesOut(o)
       \/ PollFills(o) \/ PollTradeHistory(o) \/ PollStatus(o)
       \/ FillsArrived(o) \/ FillsTimeOut(o) \/ CacheExpires(o)
  \/ \E p \in polls : PollAnswered(p) \/ PollFails(p)

Spec == Init /\ [][Next]_vars

PollEnds(o, list) ==
  \E p \in polls :
    /\ p.order = o /\ p.list = list
    /\ PollAnswered(p) \/ PollFails(p)

\* The loop runs every task it has scheduled and every timer it has started; the
\* status polls go on for ever, each ends with an answer or an error, and the
\* exchange does not fail the ones of an order for ever.
FairSpec ==
  /\ Spec
  /\ WF_vars(RunUpdate)
  /\ \A o \in Order :
       /\ WF_vars(FillsArrived(o))
       /\ WF_vars(FillsTimeOut(o))
       /\ WF_vars(PollStatus(o))
       /\ \A list \in ListName : SF_vars(PollEnds(o, list))
       /\ SF_vars(\E p \in polls : p.order = o /\ PollAnswered(p))
-------------------------------------------------------------------------------
(***************************************************************************)
(* Properties.                                                             *)
(***************************************************************************)
\* An order is in at most one of the three dictionaries.  process_order_not_found
\* relies on it: it deletes from the cache what stop_tracking_order just put there
\* (client_order_tracker.py:247-249), and all_fillable_orders merges the three.
OneHome ==
  /\ active \cap cached = {}
  /\ active \cap lost = {}
  /\ cached \cap lost = {}

\* Every fill is counted once whichever of the three sources brings it, and in
\* whatever order: the executed amount is the number of distinct trades recorded,
\* all of them executed by the exchange, and one filled event was triggered for each.
FillsCountedOnce ==
  \A o \in Order :
    /\ fills[o] \subseteq exTrades[o]
    /\ executed[o] = Cardinality(fills[o])
    /\ filledEvents[o] = executed[o]

\* An actively tracked order is open and has had no completion event, however stale
\* the updates that reached it: a terminal state ends the tracking in the same step.
ActiveIsOpen ==
  \A o \in active : state[o] \in OpenStates /\ terminal[o] = {}

\* Nobody is left waiting: an order that is no longer tracked has had a completion
\* event (its executor listens for nothing else), and a lost one is in a final state.
EndIsAnnounced ==
  /\ \A o \in Order \ active : placing[o] # "no" => terminal[o] # {}
  /\ \A o \in lost : state[o] \in TerminalStates

\* The created event is triggered at most once, although the REST answer, the user
\* stream and the status poll all bring the news, in any order.
CreatedOnce == \A o \in Order : created[o] <= 1

\* The tracker implements the life cycle its clients rely on.
phaseBar ==
  [o \in Order |-> IF o \in active THEN "tracked"
                   ELSE IF o \in lost THEN "lost"
                   ELSE IF placing[o] # "no" THEN "closed" ELSE "new"]
announcedBar == [o \in Order |-> terminal[o] # {}]
Lifecycle == INSTANCE OrderLifecycle
               WITH phase <- phaseBar, filled <- executed, announced <- announcedBar
LifecycleSpec == Lifecycle!Spec

\* An order that is over on the exchange is eventually neither tracked nor lost,
\* even if the user stream loses every message and the fills never arrive.
DoneIsNoticed ==
  \A o \in Order :
    exStatus[o] \in {"filled", "canceled"} ~> o \notin UpdatableOrders
===============================================================================
