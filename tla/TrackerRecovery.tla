----------------------------- MODULE TrackerRecovery -----------------------------
(***************************************************************************)
(* What of a connector's orders survives a restart: MarketsRecorder saves  *)
(* the tracking states in its handlers of the order events, in the         *)
(* transaction of the event's own rows, and TradingCore restores the last  *)
(* saved ones.  ClientOrderTracker's updates are reduced to what they      *)
(* change and announce (that module has their interleavings); any number   *)
(* of polls may miss an order.  A transaction may fail: the pubsub logs    *)
(* the handler's exception and the connector goes on.                      *)
(***************************************************************************)
EXTENDS Naturals, Functions

CONSTANTS Order,       \* client order ids
          Trade,       \* the trades an order can have
          MaxCrashes   \* bound

ASSUME BoundAssumption == MaxCrashes \in Nat

VARIABLES
  exStatus, exTrades,  \* of each order on the exchange
  up,                  \* the process runs
  placing,             \* orders whose placement has not been answered in this run
  orders,              \* the tracker's orders, of all three dictionaries
  db,                  \* the tables MarketState, Order and TradeFill
  abandoned,           \* orders given up here: not placed, or lost and missed again
  crashes

exchangeVars == <<exStatus, exTrades>>
vars == <<exchangeVars, up, placing, orders, db, abandoned, crashes>>

OpenStates == {"PENDING_CREATE", "OPEN"}
State == OpenStates \cup {"FILLED", "CANCELED", "FAILED"}
Over == {"filled", "canceled"}

InFlightOrder == [home : {"active", "lost", "cached"}, state : State, fills : SUBSET Trade]

\* Orders are tracked in any state, but the active ones are open and the lost ones failed.
TypeOK ==
  /\ exStatus \in [Order -> Over \cup {"none", "sent", "rejected", "live"}]
  /\ exTrades \in [Order -> SUBSET Trade]
  /\ up \in BOOLEAN /\ placing \subseteq Order /\ abandoned \subseteq Order /\ crashes \in 0..MaxCrashes
  /\ DOMAIN orders \subseteq Order
  /\ \A o \in DOMAIN orders :
       /\ orders[o] \in InFlightOrder
       /\ orders[o].home = "active" => orders[o].state \in OpenStates
       /\ orders[o].home = "lost" => orders[o].state = "FAILED"
  /\ DOMAIN db.states \subseteq Order
  /\ \A o \in DOMAIN db.states : db.states[o] \in [state : State, fills : SUBSET Trade]
  /\ db.ended \subseteq db.records /\ db.records \subseteq Order
  /\ db.fills \in [Order -> [Trade -> Nat]]

Nothing == [o \in {} |-> {}]

Init ==
  /\ exStatus = [o \in Order |-> "none"] /\ exTrades = [o \in Order |-> {}]
  /\ up = TRUE /\ placing = {} /\ orders = Nothing /\ abandoned = {} /\ crashes = 0
  /\ db = [states |-> Nothing, records |-> {}, ended |-> {},
           fills |-> [o \in Order |-> [t \in Trade |-> 0]]]
-------------------------------------------------------------------------------
(***************************************************************************)
(* The recorder.                                                           *)
(***************************************************************************)
\* Mutant: the lost orders are not saved.
ActiveStates(book) ==
  [o \in {p \in DOMAIN book : book[p].home = "active"} |->
     [state |-> book[o].state, fills |-> book[o].fills]]

\* tracking_states: all_updatable_orders.
TrackingStates(book) ==
  [o \in {p \in DOMAIN book : book[p].home \in {"active", "lost"}} |->
     [state |-> book[o].state, fills |-> book[o].fills]]

\* _did_create_order
DidCreate(tables, book, o) ==
  [tables EXCEPT !.records = @ \cup {o}, !.states = TrackingStates(book)]

\* Mutant: the fill is recorded before the states hold it.
DidFillFirst(tables, book, o, t) == [tables EXCEPT !.fills[o][t] = @ + 1]

\* _did_fill_order: recorded even if the order is not.
DidFill(tables, book, o, t) ==
  [tables EXCEPT !.fills[o][t] = @ + 1, !.states = TrackingStates(book)]

\* Mutant: the end is recorded, the states are not saved.
DidEndOnly(tables, book, o) ==
  IF o \notin tables.records THEN tables ELSE [tables EXCEPT !.ended = @ \cup {o}]

\* _update_order_status: only if the order is recorded.
DidEnd(tables, book, o) ==
  IF o \notin tables.records THEN tables
  ELSE [tables EXCEPT !.ended = @ \cup {o}, !.states = TrackingStates(book)]

\* A transaction commits or is rolled back.
Transaction(before, after) == {before, after}
-------------------------------------------------------------------------------
(***************************************************************************)
(* The tracker.                                                            *)
(***************************************************************************)
Active(o) == up /\ o \in DOMAIN orders /\ orders[o].home = "active"
Lost(o) == up /\ o \in DOMAIN orders /\ orders[o].home = "lost"
\* fetch_order finds the cached orders too.
Fetched(o) == up /\ o \in DOMAIN orders /\ orders[o].home # "lost"
Without(o) == [p \in DOMAIN orders \ {o} |-> orders[p]]

InState(o, state) == [orders EXCEPT ![o].state = state]

\* _create_order
Create(o) ==
  /\ up /\ exStatus[o] = "none"
  /\ orders' = [p \in DOMAIN orders \cup {o} |->
       IF p = o THEN [home |-> "active", state |-> "PENDING_CREATE", fills |-> {}] ELSE orders[p]]
  /\ placing' = placing \cup {o}
  /\ exStatus' = [exStatus EXCEPT ![o] = "sent"]
  /\ UNCHANGED <<exTrades, up, db, abandoned, crashes>>

\* The answer, the user stream or a poll says that the order is open.
Opened(o) ==
  /\ Active(o) /\ orders[o].state = "PENDING_CREATE" /\ exStatus[o] \in Over \cup {"live"}
  /\ orders' = InState(o, "OPEN")
  /\ db' \in Transaction(db, DidCreate(db, orders', o))
  /\ UNCHANGED <<exchangeVars, up, placing, abandoned, crashes>>

PlaceAnswered(o) ==
  /\ up /\ o \in placing /\ exStatus[o] \in Over \cup {"live"}
  /\ placing' = placing \ {o}
  /\ UNCHANGED <<exchangeVars, up, orders, db, abandoned, crashes>>

\* update_with_order_update with a final state, the events, and stop_tracking_order.
Completed(o, state) ==
  /\ \E created \in IF orders[o].state = "PENDING_CREATE" /\ state = "FILLED"
                    THEN Transaction(db, DidCreate(db, InState(o, state), o)) ELSE {db} :
       db' \in Transaction(created, DidEnd(created, InState(o, state), o))
  /\ orders' = [InState(o, state) EXCEPT ![o].home = "cached"]

\* _on_order_failure: rejected, or no answer; the order may be open all the same.
PlaceFails(o) ==
  /\ up /\ o \in placing
  /\ placing' = placing \ {o} /\ abandoned' = abandoned \cup {o}
  /\ IF Fetched(o) THEN Completed(o, "FAILED") ELSE orders' = Without(o) /\ UNCHANGED db
  /\ UNCHANGED <<exchangeVars, up, crashes>>

\* process_trade_update, from any source.
TradeUpdate(o, t) ==
  /\ up /\ o \in DOMAIN orders
  /\ t \in exTrades[o] \ orders[o].fills
  /\ orders' = [orders EXCEPT ![o].fills = @ \cup {t}]
  /\ db' \in Transaction(db, DidFill(db, orders', o, t))
  /\ UNCHANGED <<exchangeVars, up, placing, abandoned, crashes>>

\* _process_order_update with the exchange's final state; a completely filled order may
\* be completed before its fills are known.
OrderUpdate(o) ==
  /\ Fetched(o) /\ exStatus[o] \in Over
  /\ LET final == IF exStatus[o] = "filled" THEN "FILLED" ELSE "CANCELED"
     IN orders[o].state # final /\ Completed(o, final)
  /\ UNCHANGED <<exchangeVars, up, placing, abandoned, crashes>>

\* Mutant: FILLED is not a final state of a lost order.
LostOrderCanceled(o) ==
  /\ Lost(o) /\ exStatus[o] = "canceled"
  /\ orders' = Without(o)
  /\ UNCHANGED <<exchangeVars, up, placing, db, abandoned, crashes>>

\* The end of a lost order: nothing is announced, nothing is saved.
LostOrderUpdate(o) ==
  /\ Lost(o) /\ exStatus[o] \in Over
  /\ orders' = Without(o)
  /\ UNCHANGED <<exchangeVars, up, placing, db, abandoned, crashes>>

\* process_order_not_found, the last miss.
OrderNotFound(o) ==
  /\ Active(o)
  /\ db' \in Transaction(db, DidEnd(db, InState(o, "FAILED"), o))
  /\ orders' = [InState(o, "FAILED") EXCEPT ![o].home = "lost"]
  /\ UNCHANGED <<exchangeVars, up, placing, abandoned, crashes>>

\* process_order_not_found of a lost order, after a cancellation that timed out: it is given
\* up, open or not.  Nothing is announced, nothing is saved.
LostOrderNotFound(o) ==
  /\ Lost(o)
  /\ orders' = Without(o) /\ abandoned' = abandoned \cup {o}
  /\ UNCHANGED <<exchangeVars, up, placing, db, crashes>>

CacheExpires(o) ==
  /\ up /\ o \in DOMAIN orders /\ orders[o].home = "cached"
  /\ orders' = Without(o)
  /\ UNCHANGED <<exchangeVars, up, placing, db, abandoned, crashes>>

\* Mutant: every saved order is tracked again.
RestoredAsSaved(states) ==
  [o \in DOMAIN states |->
     [home |-> IF states[o].state = "FAILED" THEN "lost" ELSE "active",
      state |-> states[o].state, fills |-> states[o].fills]]

\* restore_tracking_states
Restored(states) ==
  [o \in {p \in DOMAIN states : states[p].state \in OpenStates \cup {"FAILED"}} |->
     [home |-> IF states[o].state = "FAILED" THEN "lost" ELSE "active",
      state |-> states[o].state, fills |-> states[o].fills]]

\* Nothing but the database is left.
Crash ==
  /\ up /\ crashes < MaxCrashes
  /\ up' = FALSE /\ crashes' = crashes + 1
  /\ orders' = Nothing /\ placing' = {}
  /\ UNCHANGED <<exchangeVars, db, abandoned>>

\* restore_market_states
Restart ==
  /\ ~up
  /\ up' = TRUE /\ orders' = Restored(db.states)
  /\ UNCHANGED <<exchangeVars, placing, db, abandoned, crashes>>
-------------------------------------------------------------------------------
(***************************************************************************)
(* The exchange, whether the process runs or not.                          *)
(***************************************************************************)
ExchangeAnswers(o) ==
  /\ exStatus[o] = "sent"
  /\ \E status \in {"live", "rejected"} : exStatus' = [exStatus EXCEPT ![o] = status]
  /\ UNCHANGED <<exTrades, up, placing, orders, db, abandoned, crashes>>

ExchangeTrades(o) ==
  /\ exStatus[o] = "live"
  /\ \E t \in Trade \ exTrades[o] :
       /\ exTrades' = [exTrades EXCEPT ![o] = @ \cup {t}]
       /\ exStatus' = [exStatus EXCEPT ![o] = IF exTrades'[o] = Trade THEN "filled" ELSE "live"]
  /\ UNCHANGED <<up, placing, orders, db, abandoned, crashes>>

ExchangeCancels(o) ==
  /\ exStatus[o] = "live"
  /\ exStatus' = [exStatus EXCEPT ![o] = "canceled"]
  /\ UNCHANGED <<exTrades, up, placing, orders, db, abandoned, crashes>>

OrderStep(o) ==
  \/ Create(o) \/ Opened(o) \/ PlaceAnswered(o) \/ PlaceFails(o)
  \/ \E t \in Trade : TradeUpdate(o, t)
  \/ OrderUpdate(o) \/ LostOrderUpdate(o) \/ OrderNotFound(o) \/ LostOrderNotFound(o) \/ CacheExpires(o)
  \/ ExchangeAnswers(o) \/ ExchangeTrades(o) \/ ExchangeCancels(o)

Next == Crash \/ Restart \/ \E o \in Order : OrderStep(o)
Spec == Init /\ [][Next]_vars
\* The process is started again, and the status polls go on and are answered.
FairSpec ==
  /\ Spec /\ WF_vars(Restart)
  /\ \A o \in Order : WF_vars(OrderUpdate(o)) /\ WF_vars(LostOrderUpdate(o))
-------------------------------------------------------------------------------
(***************************************************************************)
(* Properties.                                                             *)
(***************************************************************************)
\* Every trade has at most one row in TradeFill, and what the rows of a tracked order say it
\* executed the order knows, across crashes and failed transactions: a restored order
\* does not announce a recorded fill again.
FillsRecordedOnce ==
  \A o \in Order, t \in Trade :
    /\ db.fills[o][t] <= 1
    /\ o \in DOMAIN orders /\ db.fills[o][t] = 1 => t \in orders[o].fills

\* exchange_py_base.py:591, "pick up on where it left off": an order the database knows is
\* tracked while it is open on the exchange, after every crash, unless it was given up: its
\* placement failed, or as a lost order it was missed again.
RecordedIsTracked ==
  \A o \in db.records \ abandoned : up /\ exStatus[o] = "live" => Active(o) \/ Lost(o)

\* An order whose end is in the database does not come back as an active one.
EndedStaysEnded == \A o \in db.ended : ~Active(o)

\* An order that ended while the process was down, and one that is taken for lost because a
\* restart found it failed, is no longer tracked some time after its end.
EndedIsForgotten ==
  \A o \in Order : exStatus[o] \in Over /\ (Active(o) \/ Lost(o)) ~> up /\ ~Active(o) /\ ~Lost(o)
===============================================================================
