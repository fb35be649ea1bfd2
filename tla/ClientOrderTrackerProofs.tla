----------------------- MODULE ClientOrderTrackerProofs -----------------------
(***************************************************************************)
(* Proofs about ClientOrderTracker, for every set of orders, every order   *)
(* size, miss limit and bound.                                             *)
(***************************************************************************)
EXTENDS ClientOrderTracker, FiniteSetTheorems, TLAPS

\* A set of trades of an order is finite, has a natural cardinality, and no more
\* members than the order has lots.
LEMMA TradesAreCounted ==
  ASSUME NEW T \in SUBSET Trade
  PROVE  IsFiniteSet(T) /\ Cardinality(T) \in Nat /\ Cardinality(T) <= Amount
<1>1. IsFiniteSet(Trade) /\ Cardinality(Trade) = Amount
  BY AmountAssumption, FS_Interval DEF Trade
<1>2. QED
  BY <1>1, FS_Subset, FS_CardinalityType

\* Recording trades adds to the executed amount exactly what it adds to the set of
\* recorded trades (update_with_trade_update dedups by trade id).
LEMMA RecordingCounts ==
  ASSUME NEW S \in SUBSET Trade, NEW T \in SUBSET Trade
  PROVE  /\ Cardinality(S \cup T) = Cardinality(S) + Cardinality(T \ S)
         /\ Cardinality(S) \in Nat
         /\ Cardinality(T \ S) \in Nat
<1>1. IsFiniteSet(S) /\ IsFiniteSet(T \ S)
  BY TradesAreCounted
<1>2. S \cap (T \ S) = {} /\ S \cup (T \ S) = S \cup T
  OBVIOUS
<1>3. Cardinality(S \cup (T \ S)) = Cardinality(S) + Cardinality(T \ S) - Cardinality(S \cap (T \ S))
  BY <1>1, FS_Union
<1>4. Cardinality(S \cap (T \ S)) = 0
  BY <1>2, FS_EmptySet
<1>5. Cardinality(S) \in Nat /\ Cardinality(T \ S) \in Nat
  BY TradesAreCounted
<1>6. Cardinality(S \cup (T \ S)) = Cardinality(S) + Cardinality(T \ S)
  BY <1>3, <1>4, <1>5
<1>7. QED
  BY <1>2, <1>5, <1>6
-------------------------------------------------------------------------------
(***************************************************************************)
(* Type correctness.                                                       *)
(***************************************************************************)
OrderTypeOK ==
  /\ state \in [Order -> OrderState]
  /\ exId \in [Order -> BOOLEAN]
  /\ created \in [Order -> Nat]
  /\ terminal \in [Order -> SUBSET {"Cancelled", "Completed", "Failure"}]

HomeTypeOK ==
  /\ active \subseteq Order /\ cached \subseteq Order /\ lost \subseteq Order
  /\ misses \in [Order -> Nat]

FillTypeOK ==
  /\ fills \in [Order -> SUBSET Trade]
  /\ executed \in [Order -> Nat]
  /\ filledEvents \in [Order -> Nat]

LEMMA UpdateOrderType ==
  ASSUME OrderTypeOK, NEW o \in Order, NEW s \in OrderState, NEW ex \in BOOLEAN,
         UpdateOrder(o, s, ex)
  PROVE  OrderTypeOK'
<1>1. CompletionEvent(o, s) \in {"Cancelled", "Completed", "Failure"}
  BY DEF CompletionEvent
<1>2. state' \in [Order -> OrderState] /\ exId' \in [Order -> BOOLEAN]
  BY DEF UpdateOrder, OrderTypeOK
<1>3. created' \in [Order -> Nat]
  BY DEF UpdateOrder, OrderTypeOK
<1>4. terminal' \in [Order -> SUBSET {"Cancelled", "Completed", "Failure"}]
  BY <1>1 DEF UpdateOrder, OrderTypeOK
<1>5. QED
  BY <1>2, <1>3, <1>4 DEF OrderTypeOK

LEMMA ApplyUpdateType ==
  ASSUME OrderTypeOK, HomeTypeOK, NEW o \in Order, NEW s \in OrderState,
         NEW ex \in BOOLEAN, ApplyUpdate(o, s, ex), UNCHANGED lost
  PROVE  OrderTypeOK' /\ HomeTypeOK'
BY UpdateOrderType DEF ApplyUpdate, StopTracking, HomeTypeOK

LEMMA NotFoundType ==
  ASSUME OrderTypeOK, HomeTypeOK, NEW o \in Order, ProcessOrderNotFound(o)
  PROVE  OrderTypeOK' /\ HomeTypeOK'
<1>1. CASE MissCounted(o)
  BY <1>1 DEF MissCounted, OrderTypeOK, HomeTypeOK, orderVars
<1>2. CASE OrderLost(o)
  <2>1. OrderTypeOK'
    BY <1>2, UpdateOrderType DEF OrderLost, OrderState, TerminalStates
  <2>2. HomeTypeOK'
    BY <1>2 DEF OrderLost, HomeTypeOK
  <2>3. QED
    BY <2>1, <2>2
<1>3. CASE UntrackedMissed(o)
  BY <1>3 DEF UntrackedMissed, OrderTypeOK, HomeTypeOK, orderVars
<1>4. QED
  BY <1>1, <1>2, <1>3 DEF ProcessOrderNotFound

LEMMA RecordTradesType ==
  ASSUME FillTypeOK, NEW o \in Order, NEW T \in SUBSET Trade, RecordTrades(o, T)
  PROVE  FillTypeOK'
<1>1. T \ fills[o] \in SUBSET Trade /\ fills[o] \cup T \in SUBSET Trade
  BY DEF FillTypeOK
<1>2. Cardinality(T \ fills[o]) \in Nat
  BY <1>1, TradesAreCounted
<1>3. CASE o \in FillableOrders
  <2>1. fills' \in [Order -> SUBSET Trade]
    BY <1>1, <1>3 DEF FillTypeOK, RecordTrades
  <2>2. executed' \in [Order -> Nat]
    BY <1>2, <1>3 DEF FillTypeOK, RecordTrades
  <2>3. filledEvents' \in [Order -> Nat]
    BY <1>2, <1>3 DEF FillTypeOK, RecordTrades
  <2>4. QED
    BY <2>1, <2>2, <2>3 DEF FillTypeOK
<1>4. CASE o \notin FillableOrders
  BY <1>4 DEF FillTypeOK, RecordTrades, fillVars
<1>5. QED
  BY <1>3, <1>4

LEMMA ScheduleType ==
  ASSUME queue \in Seq(OrderUpdate), NEW o \in Order,
         NEW s \in OrderState \ {"PENDING_CREATE"}, NEW ex \in BOOLEAN, Schedule(o, s, ex)
  PROVE  queue' \in Seq(OrderUpdate)
<1>1. [order |-> o, state |-> s, ex |-> ex] \in OrderUpdate
  BY DEF OrderUpdate
<1>2. QED
  BY <1>1 DEF Schedule

ExchangeTypeOK ==
  /\ exStatus \in [Order -> {"absent", "live", "filled", "canceled"}]
  /\ exTrades \in [Order -> SUBSET Trade]
  /\ stream \in Seq(StreamMessage)
  /\ placing \in [Order -> {"no", "sent", "accepted", "rejected", "done"}]
  /\ cancelling \in [Order -> {"no", "sent", "ok", "error"}]
  /\ polls \subseteq Poll

LoopTypeOK ==
  /\ queue \in Seq(OrderUpdate)
  /\ waiting \in [Order -> Nat]

\* What the type of the exchange's trades rests on: an order that is not filled has
\* lots left to trade, and an order the exchange has not answered is unknown to it.
LotsLeft ==
  \A o \in Order :
    /\ exStatus[o] # "filled" => Cardinality(exTrades[o]) < Amount
    /\ placing[o] \in {"no", "sent"} => exStatus[o] = "absent"

TypeInv ==
  ExchangeTypeOK /\ LoopTypeOK /\ HomeTypeOK /\ OrderTypeOK /\ FillTypeOK /\ LotsLeft

LEMMA TypeInvIsTypeOK == TypeInv <=> TypeOK /\ LotsLeft
BY DEF TypeInv, TypeOK, ExchangeTypeOK, LoopTypeOK, HomeTypeOK, OrderTypeOK, FillTypeOK

LEMMA TypeInit == Init => TypeInv
<1> SUFFICES ASSUME Init PROVE TypeInv
  OBVIOUS
<1>1. ExchangeTypeOK
  BY DEF Init, ExchangeTypeOK
<1>2. LoopTypeOK /\ HomeTypeOK /\ OrderTypeOK /\ FillTypeOK
  BY DEF Init, LoopTypeOK, HomeTypeOK, OrderTypeOK, FillTypeOK, OrderState, OpenStates
<1>3. LotsLeft
  BY AmountAssumption, FS_EmptySet DEF Init, LotsLeft
<1>4. QED
  BY <1>1, <1>2, <1>3 DEF TypeInv

\* A message of a known order is appended to the stream.
LEMMA SendingType ==
  ASSUME stream \in Seq(StreamMessage), NEW o \in Order, NEW s \in ReportedState,
         NEW T \in SUBSET Trade, stream' = Append(stream, Message(o, s, T))
  PROVE  stream' \in Seq(StreamMessage)
<1>1. Message(o, s, T) \in StreamMessage
  BY DEF Message, StreamMessage
<1>2. QED
  BY <1>1

LEMMA ReportType ==
  ASSUME ExchangeTypeOK, NEW o \in Order
  PROVE  Report(o) \in ReportedState \cup {"ABSENT"}
BY DEF ExchangeTypeOK, Report, ReportedState

\* The next lot of a live order exists.
LEMMA NextLot ==
  ASSUME ExchangeTypeOK, LotsLeft, NEW o \in Order, exStatus[o] = "live"
  PROVE  /\ Cardinality(exTrades[o]) + 1 \in Trade
         /\ Cardinality(exTrades[o] \cup {Cardinality(exTrades[o]) + 1})
              <= Cardinality(exTrades[o]) + 1
<1>1. exTrades[o] \in SUBSET Trade
  BY DEF ExchangeTypeOK
<1>2. IsFiniteSet(exTrades[o]) /\ Cardinality(exTrades[o]) \in Nat
  BY <1>1, TradesAreCounted
<1>3. Cardinality(exTrades[o]) < Amount
  BY DEF LotsLeft
<1>4. Cardinality(exTrades[o]) + 1 \in Trade
  BY <1>2, <1>3, AmountAssumption DEF Trade
<1>5. \A x : Cardinality(exTrades[o] \cup {x}) = Cardinality(exTrades[o])
           \/ Cardinality(exTrades[o] \cup {x}) = Cardinality(exTrades[o]) + 1
  BY <1>2, FS_AddElement
<1>6. QED
  BY <1>2, <1>4, <1>5

\* The steps of the exchange keep the types.
LEMMA ExchangeStepType ==
  ASSUME TypeInv, NEW o \in Order,
         \/ ExchangeAccepts(o) \/ ExchangeRejects(o) \/ ExchangeTrades(o)
         \/ ExchangeCancels(o) \/ ExchangeExpires(o) \/ StreamLoses
  PROVE  TypeInv'
<1> USE DEF TypeInv
<1>1. LoopTypeOK' /\ HomeTypeOK' /\ OrderTypeOK' /\ FillTypeOK'
  BY DEF LoopTypeOK, HomeTypeOK, OrderTypeOK, FillTypeOK, loopVars, homeVars, orderVars,
         fillVars, ExchangeAccepts, ExchangeRejects, ExchangeTrades, ExchangeCancels,
         ExchangeExpires, StreamLoses
<1>2. {} \in SUBSET Trade
      /\ {"OPEN", "CANCELED", "FILLED", "PARTIALLY_FILLED"} \subseteq ReportedState
  BY DEF ReportedState
<1>3. CASE ExchangeAccepts(o)
  <2>1. stream' \in Seq(StreamMessage)
    BY <1>2, <1>3, SendingType DEF ExchangeTypeOK, ExchangeAccepts
  <2>2. ExchangeTypeOK' /\ LotsLeft'
    BY <1>3, <2>1 DEF ExchangeTypeOK, LotsLeft, ExchangeAccepts
  <2>3. QED
    BY <1>1, <2>2
<1>4. CASE ExchangeRejects(o)
  BY <1>1, <1>4 DEF ExchangeTypeOK, LotsLeft, ExchangeRejects
<1>5. CASE ExchangeTrades(o)
  <2> DEFINE t == Cardinality(exTrades[o]) + 1
             s == IF t = Amount THEN "FILLED" ELSE "PARTIALLY_FILLED"
  <2>1. t \in Trade /\ Cardinality(exTrades[o] \cup {t}) <= t
    BY <1>5, NextLot DEF ExchangeTrades
  <2>2. s \in ReportedState /\ {t} \in SUBSET Trade /\ exTrades[o] \cup {t} \in SUBSET Trade
    BY <2>1 DEF ReportedState, ExchangeTypeOK
  <2>3. stream' = Append(stream, Message(o, s, {t}))
    BY <1>5 DEF ExchangeTrades
  <2>4. stream' \in Seq(StreamMessage)
    <3> HIDE DEF t, s
    <3> QED BY <2>2, <2>3, SendingType DEF ExchangeTypeOK
  <2>5. exTrades' = [exTrades EXCEPT ![o] = @ \cup {t}]
        /\ exStatus' = [exStatus EXCEPT ![o] = IF t = Amount THEN "filled" ELSE @]
        /\ UNCHANGED <<placing, cancelling, polls>>
    BY <1>5 DEF ExchangeTrades
  <2>6. ExchangeTypeOK'
    <3> HIDE DEF t
    <3> QED BY <2>2, <2>4, <2>5 DEF ExchangeTypeOK
  <2>7. Cardinality(exTrades[o] \cup {t}) \in Nat /\ t \in Nat
    BY <2>1, <2>2, TradesAreCounted DEF Trade
  <2>8. LotsLeft'
    <3> SUFFICES ASSUME NEW q \in Order
                 PROVE  /\ exStatus'[q] # "filled" => Cardinality(exTrades'[q]) < Amount
                        /\ placing'[q] \in {"no", "sent"} => exStatus'[q] = "absent"
      BY DEF LotsLeft
    <3>1. CASE q # o
      BY <3>1, <2>5 DEF LotsLeft, ExchangeTypeOK
    <3>2. CASE q = o
      <4>1. exTrades'[o] = exTrades[o] \cup {t}
        BY <2>5 DEF ExchangeTypeOK
      <4>2. exStatus'[o] = IF t = Amount THEN "filled" ELSE "live"
        BY <1>5, <2>5 DEF ExchangeTypeOK, ExchangeTrades
      <4>3. t # Amount => t < Amount
        BY <2>1, AmountAssumption DEF Trade
      <4>4. placing[o] \notin {"no", "sent"}
        BY <1>5 DEF ExchangeTrades, LotsLeft
      <4> HIDE DEF t
      <4>5. QED
        BY <3>2, <2>1, <2>5, <2>7, <4>1, <4>2, <4>3, <4>4, AmountAssumption
    <3>3. QED
      BY <3>1, <3>2
  <2>9. QED
    BY <1>1, <2>6, <2>8
<1>6. CASE ExchangeCancels(o)
  <2>1. CASE exStatus[o] = "live"
    <3>1. stream' \in Seq(StreamMessage)
      BY <1>2, <1>6, <2>1, SendingType DEF ExchangeTypeOK, ExchangeCancels
    <3>2. ExchangeTypeOK'
      BY <1>6, <2>1, <3>1 DEF ExchangeTypeOK, ExchangeCancels
    <3>3. LotsLeft'
      BY <1>6, <2>1 DEF ExchangeTypeOK, LotsLeft, ExchangeCancels
    <3>4. QED
      BY <1>1, <3>2, <3>3
  <2>2. CASE exStatus[o] # "live"
    BY <1>1, <1>6, <2>2 DEF ExchangeTypeOK, LotsLeft, ExchangeCancels
  <2>3. QED
    BY <2>1, <2>2
<1>7. CASE ExchangeExpires(o)
  <2>1. stream' \in Seq(StreamMessage)
    BY <1>2, <1>7, SendingType DEF ExchangeTypeOK, ExchangeExpires
  <2>2. ExchangeTypeOK' /\ LotsLeft'
    BY <1>7, <2>1 DEF ExchangeTypeOK, LotsLeft, ExchangeExpires
  <2>3. QED
    BY <1>1, <2>2
<1>8. CASE StreamLoses
  BY <1>1, <1>8 DEF ExchangeTypeOK, LotsLeft, StreamLoses
<1>9. QED
  BY <1>3, <1>4, <1>5, <1>6, <1>7, <1>8

\* The steps of the connector and of the event loop keep the types.
LEMMA ConnectorStepType ==
  ASSUME TypeInv, NEW o \in Order,
         \/ CreateOrder(o) \/ PlaceAnswered(o) \/ PlaceFails(o)
         \/ Cancel(o) \/ CancelAnswered(o) \/ CancelFails(o) \/ CancelTimesOut(o)
  PROVE  TypeInv'
<1> USE DEF TypeInv
<1>1. {"OPEN", "PENDING_CANCEL", "FAILED"} \subseteq OrderState \ {"PENDING_CREATE"}
  BY DEF OrderState, OpenStates, TerminalStates
<1>2. FillTypeOK'
  BY DEF FillTypeOK, fillVars, CreateOrder, PlaceAnswered, PlaceFails, Cancel,
         CancelAnswered, CancelFails, CancelTimesOut
<1>3. CASE CreateOrder(o)
  <2>1. queue' \in Seq(OrderUpdate)
    BY <1>1, <1>3, ScheduleType DEF CreateOrder, LoopTypeOK
  <2>2. ExchangeTypeOK' /\ LotsLeft'
    BY <1>3 DEF CreateOrder, ExchangeTypeOK, LotsLeft
  <2>3. LoopTypeOK' /\ HomeTypeOK' /\ OrderTypeOK'
    BY <1>3, <2>1 DEF CreateOrder, LoopTypeOK, HomeTypeOK, OrderTypeOK, orderVars
  <2>4. QED
    BY <1>2, <2>2, <2>3
<1>4. CASE PlaceAnswered(o)
  <2>1. queue' \in Seq(OrderUpdate)
    BY <1>1, <1>4, ScheduleType DEF PlaceAnswered, LoopTypeOK
  <2>2. ExchangeTypeOK' /\ LotsLeft'
    BY <1>4 DEF PlaceAnswered, ExchangeTypeOK, LotsLeft
  <2>3. LoopTypeOK' /\ HomeTypeOK' /\ OrderTypeOK'
    BY <1>4, <2>1 DEF PlaceAnswered, LoopTypeOK, HomeTypeOK, OrderTypeOK, orderVars, homeVars
  <2>4. QED
    BY <1>2, <2>2, <2>3
<1>5. CASE PlaceFails(o)
  <2>1. queue' \in Seq(OrderUpdate)
    BY <1>1, <1>5, ScheduleType DEF PlaceFails, LoopTypeOK
  <2>2. ExchangeTypeOK' /\ LotsLeft'
    BY <1>5 DEF PlaceFails, ExchangeTypeOK, LotsLeft
  <2>3. LoopTypeOK' /\ HomeTypeOK' /\ OrderTypeOK'
    BY <1>5, <2>1 DEF PlaceFails, LoopTypeOK, HomeTypeOK, OrderTypeOK, orderVars, homeVars
  <2>4. QED
    BY <1>2, <2>2, <2>3
<1>6. CASE Cancel(o)
  BY <1>2, <1>6 DEF Cancel, ExchangeTypeOK, LotsLeft, LoopTypeOK, HomeTypeOK, OrderTypeOK,
                    loopVars, homeVars, orderVars
<1>7. CASE CancelAnswered(o)
  <2>1. queue' \in Seq(OrderUpdate)
    BY <1>1, <1>7, ScheduleType DEF CancelAnswered, LoopTypeOK
  <2>2. ExchangeTypeOK' /\ LotsLeft'
    BY <1>7 DEF CancelAnswered, ExchangeTypeOK, LotsLeft
  <2>3. LoopTypeOK' /\ HomeTypeOK' /\ OrderTypeOK'
    BY <1>7, <2>1 DEF CancelAnswered, LoopTypeOK, HomeTypeOK, OrderTypeOK, orderVars, homeVars
  <2>4. QED
    BY <1>2, <2>2, <2>3
<1>8. CASE CancelFails(o)
  BY <1>2, <1>8 DEF CancelFails, ExchangeTypeOK, LotsLeft, LoopTypeOK, HomeTypeOK,
                    OrderTypeOK, loopVars, homeVars, orderVars
<1>9. CASE CancelTimesOut(o)
  <2>1. OrderTypeOK' /\ HomeTypeOK'
    BY <1>9, NotFoundType DEF CancelTimesOut
  <2>2. ExchangeTypeOK' /\ LotsLeft' /\ LoopTypeOK'
    BY <1>9 DEF CancelTimesOut, ExchangeTypeOK, LotsLeft, LoopTypeOK, loopVars
  <2>3. QED
    BY <1>2, <2>1, <2>2
<1>10. QED
  BY <1>3, <1>4, <1>5, <1>6, <1>7, <1>8, <1>9

\* The first message of the stream and the first scheduled update are well typed, and
\* so is what they leave behind.
LEMMA HeadsTyped ==
  ASSUME TypeInv
  PROVE  /\ stream # <<>> => Head(stream) \in StreamMessage /\ Tail(stream) \in Seq(StreamMessage)
         /\ queue # <<>> => Head(queue) \in OrderUpdate /\ Tail(queue) \in Seq(OrderUpdate)
BY DEF TypeInv, ExchangeTypeOK, LoopTypeOK

LEMMA ReportedIsSchedulable == ReportedState \subseteq OrderState \ {"PENDING_CREATE"}
BY DEF ReportedState, OrderState, OpenStates, TerminalStates

\* Reading the stream and polling keep the types.
LEMMA FeedStepType ==
  ASSUME TypeInv,
         \/ StreamDelivers
         \/ \E o \in Order : PollFills(o) \/ PollTradeHistory(o) \/ PollStatus(o)
         \/ \E p \in polls : PollAnswered(p) \/ PollFails(p)
  PROVE  TypeInv'
<1> USE DEF TypeInv
<1>1. CASE StreamDelivers
  <2> DEFINE m == Head(stream)
  <2>1. m.order \in Order /\ m.state \in OrderState \ {"PENDING_CREATE"}
        /\ m.trades \in SUBSET Trade /\ stream' \in Seq(StreamMessage)
    BY <1>1, HeadsTyped, ReportedIsSchedulable DEF StreamDelivers, StreamMessage
  <2>2. FillTypeOK'
    BY <1>1, <2>1, RecordTradesType DEF StreamDelivers
  <2>3. queue' \in Seq(OrderUpdate)
    BY <1>1, <2>1, ScheduleType DEF StreamDelivers, LoopTypeOK
  <2>4. ExchangeTypeOK' /\ LotsLeft'
    BY <1>1, <2>1 DEF StreamDelivers, ExchangeTypeOK, LotsLeft
  <2>5. LoopTypeOK' /\ HomeTypeOK' /\ OrderTypeOK'
    BY <1>1, <2>3 DEF StreamDelivers, LoopTypeOK, HomeTypeOK, OrderTypeOK, homeVars, orderVars
  <2>6. QED
    BY <2>2, <2>4, <2>5
<1>2. ASSUME NEW o \in Order, PollFills(o) \/ PollTradeHistory(o)
      PROVE  TypeInv'
  <2>1. PICK T \in SUBSET exTrades[o] : RecordTrades(o, T)
    BY <1>2 DEF PollFills, PollTradeHistory
  <2>2. FillTypeOK'
    BY <2>1, RecordTradesType DEF ExchangeTypeOK
  <2>3. ExchangeTypeOK' /\ LotsLeft' /\ LoopTypeOK' /\ HomeTypeOK' /\ OrderTypeOK'
    BY <1>2 DEF PollFills, PollTradeHistory, ExchangeTypeOK, LotsLeft, LoopTypeOK,
                HomeTypeOK, OrderTypeOK, exchangeVars, loopVars, homeVars, orderVars
  <2>4. QED
    BY <2>2, <2>3
<1>3. ASSUME NEW o \in Order, PollStatus(o)
      PROVE  TypeInv'
  <2>1. PICK list \in ListName :
          polls' = polls \cup {[order |-> o, list |-> list, state |-> Report(o)]}
    BY <1>3 DEF PollStatus
  <2>2. polls' \subseteq Poll
    BY <2>1, ReportType DEF ExchangeTypeOK, Poll
  <2>3. ExchangeTypeOK' /\ LotsLeft' /\ LoopTypeOK' /\ HomeTypeOK' /\ OrderTypeOK'
        /\ FillTypeOK'
    BY <1>3, <2>2 DEF PollStatus, ExchangeTypeOK, LotsLeft, LoopTypeOK, HomeTypeOK,
                      OrderTypeOK, FillTypeOK, loopVars, homeVars, orderVars, fillVars
  <2>4. QED
    BY <2>3
<1>4. ASSUME NEW p \in polls, PollAnswered(p)
      PROVE  TypeInv'
  <2>1. p.order \in Order /\ p.state \in OrderState \ {"PENDING_CREATE"}
    BY <1>4, ReportedIsSchedulable DEF PollAnswered, ExchangeTypeOK, Poll
  <2>2. queue' \in Seq(OrderUpdate)
    BY <1>4, <2>1, ScheduleType DEF PollAnswered, LoopTypeOK
  <2>3. ExchangeTypeOK' /\ LotsLeft' /\ LoopTypeOK' /\ HomeTypeOK' /\ OrderTypeOK'
        /\ FillTypeOK'
    BY <1>4, <2>2 DEF PollAnswered, ExchangeTypeOK, LotsLeft, LoopTypeOK, HomeTypeOK,
                      OrderTypeOK, FillTypeOK, homeVars, orderVars, fillVars
  <2>4. QED
    BY <2>3
<1>5. ASSUME NEW p \in polls, PollFails(p)
      PROVE  TypeInv'
  <2>1. p.order \in Order
    BY DEF ExchangeTypeOK, Poll
  <2>2. OrderTypeOK' /\ HomeTypeOK'
    <3>1. CASE p.list = "active"
      BY <1>5, <2>1, <3>1, NotFoundType DEF PollFails
    <3>2. CASE p.list # "active"
      BY <1>5, <3>2 DEF PollFails, HomeTypeOK, OrderTypeOK, homeVars, orderVars
    <3>3. QED
      BY <3>1, <3>2
  <2>3. ExchangeTypeOK' /\ LotsLeft' /\ LoopTypeOK' /\ FillTypeOK'
    BY <1>5 DEF PollFails, ExchangeTypeOK, LotsLeft, LoopTypeOK, FillTypeOK, loopVars, fillVars
  <2>4. QED
    BY <2>2, <2>3
<1>6. QED
  BY <1>1, <1>2, <1>3, <1>4, <1>5

\* Running updates and expiring cached orders keep the types.
LEMMA LoopStepType ==
  ASSUME TypeInv,
         \/ RunUpdate
         \/ \E o \in Order : FillsArrived(o) \/ FillsTimeOut(o) \/ CacheExpires(o)
  PROVE  TypeInv'
<1> USE DEF TypeInv
<1>1. CASE RunUpdate
  <2> DEFINE o == Head(queue).order
             s == Head(queue).state
             ex == Head(queue).ex
  <2>1. o \in Order /\ s \in OrderState /\ ex \in BOOLEAN /\ queue' \in Seq(OrderUpdate)
    BY <1>1, HeadsTyped DEF RunUpdate, OrderUpdate
  <2>2. ExchangeTypeOK' /\ LotsLeft' /\ FillTypeOK'
    BY <1>1 DEF RunUpdate, ExchangeTypeOK, LotsLeft, FillTypeOK, exchangeVars, fillVars
  <2>3. \/ waiting' = [waiting EXCEPT ![o] = @ + 1] /\ UNCHANGED <<homeVars, orderVars>>
        \/ ApplyUpdate(o, s, ex) /\ UNCHANGED <<lost, waiting>>
        \/ lost' \subseteq lost /\ UNCHANGED <<active, cached, misses, waiting, orderVars>>
    BY <1>1 DEF RunUpdate
  <2> HIDE DEF o, s, ex
  <2>4. CASE waiting' = [waiting EXCEPT ![o] = @ + 1] /\ UNCHANGED <<homeVars, orderVars>>
    BY <2>1, <2>2, <2>4 DEF LoopTypeOK, HomeTypeOK, OrderTypeOK, homeVars, orderVars
  <2>5. CASE ApplyUpdate(o, s, ex) /\ UNCHANGED <<lost, waiting>>
    <3>1. HomeTypeOK' /\ OrderTypeOK'
      BY <2>1, <2>5, ApplyUpdateType
    <3>2. QED
      BY <2>1, <2>2, <2>5, <3>1 DEF LoopTypeOK
  <2>6. CASE lost' \subseteq lost /\ UNCHANGED <<active, cached, misses, waiting, orderVars>>
    BY <2>1, <2>2, <2>6 DEF LoopTypeOK, HomeTypeOK, OrderTypeOK, orderVars
  <2>7. QED
    BY <2>3, <2>4, <2>5, <2>6
<1>2. ASSUME NEW o \in Order, FinishFilled(o)
      PROVE  TypeInv'
  <2>1. "FILLED" \in OrderState /\ TRUE \in BOOLEAN
    BY DEF OrderState, TerminalStates
  <2>2. HomeTypeOK' /\ OrderTypeOK'
    BY <1>2, <2>1, ApplyUpdateType DEF FinishFilled
  <2>3. waiting' \in [Order -> Nat]
    BY <1>2 DEF FinishFilled, LoopTypeOK
  <2>4. ExchangeTypeOK' /\ LotsLeft' /\ LoopTypeOK' /\ FillTypeOK'
    BY <1>2, <2>3 DEF FinishFilled, ExchangeTypeOK, LotsLeft, LoopTypeOK, FillTypeOK,
                      exchangeVars, fillVars
  <2>5. QED
    BY <2>2, <2>4
<1>3. ASSUME NEW o \in Order, CacheExpires(o)
      PROVE  TypeInv'
  BY <1>3 DEF CacheExpires, ExchangeTypeOK, LotsLeft, LoopTypeOK, HomeTypeOK, OrderTypeOK,
              FillTypeOK, exchangeVars, loopVars, orderVars, fillVars
<1>4. QED
  BY <1>1, <1>2, <1>3 DEF FillsArrived, FillsTimeOut

LEMMA TypeStep == TypeInv /\ [Next]_vars => TypeInv'
<1> SUFFICES ASSUME TypeInv, [Next]_vars PROVE TypeInv'
  OBVIOUS
<1>1. CASE UNCHANGED vars
  BY <1>1 DEF TypeInv, ExchangeTypeOK, LotsLeft, LoopTypeOK, HomeTypeOK, OrderTypeOK,
              FillTypeOK, vars, exchangeVars, loopVars, homeVars, orderVars, fillVars
<1>2. CASE StreamLoses
  BY <1>2 DEF StreamLoses, TypeInv, ExchangeTypeOK, LotsLeft, LoopTypeOK, HomeTypeOK,
              OrderTypeOK, FillTypeOK, loopVars, homeVars, orderVars, fillVars
<1>3. CASE Next /\ ~StreamLoses
  BY <1>3, ExchangeStepType, ConnectorStepType, FeedStepType, LoopStepType DEF Next
<1>4. QED
  BY <1>1, <1>2, <1>3

\* Every reachable state of the connector, the exchange and the event loop is typed:
\* in particular an order never trades more than its lots.
THEOREM TypeCorrect == Spec => []TypeOK
<1>1. TypeInv => TypeOK
  BY TypeInvIsTypeOK
<1>2. QED
  BY <1>1, TypeInit, TypeStep, PTL DEF Spec
-------------------------------------------------------------------------------
(***************************************************************************)
(* Where an order is, what state it is in and what was announced of it.    *)
(***************************************************************************)
\* Nothing is known of an order that was not placed.
NotPlaced ==
  \A o \in Order : placing[o] = "no" =>
    /\ o \notin active \cup cached \cup lost
    /\ waiting[o] = 0
    /\ state[o] = "PENDING_CREATE"
    /\ terminal[o] = {}

\* An order whose creation is pending was not announced as created.
PendingNotCreated == \A o \in Order : state[o] = "PENDING_CREATE" => created[o] = 0

\* None of the five is inductive without the others.
HomeInv ==
  OneHome /\ ActiveIsOpen /\ EndIsAnnounced /\ CreatedOnce /\ NotPlaced /\ PendingNotCreated

LEMMA HomeInit == Init => HomeInv
BY DEF Init, HomeInv, OneHome, ActiveIsOpen, EndIsAnnounced, CreatedOnce, NotPlaced,
       PendingNotCreated

\* What a state update does to its order and to the others.
LEMMA UpdateOrderEffect ==
  ASSUME OrderTypeOK, NEW o \in Order, NEW s \in OrderState, NEW ex \in BOOLEAN,
         UpdateOrder(o, s, ex)
  PROVE  /\ state'[o] = s
         /\ \A q \in Order \ {o} : /\ state'[q] = state[q]
                                   /\ created'[q] = created[q]
                                   /\ terminal'[q] = terminal[q]
         /\ terminal[o] \subseteq terminal'[o]
         /\ s \in OpenStates => terminal'[o] = terminal[o]
         /\ Updates(o, s, ex) /\ s \notin OpenStates => terminal'[o] # {}
         /\ \/ created'[o] = created[o]
            \/ created'[o] = created[o] + 1 /\ state[o] = "PENDING_CREATE"
BY DEF UpdateOrder, OrderTypeOK

\* An update applied to a placed order, wherever it is by then.
LEMMA ApplyKeepsHomes ==
  ASSUME TypeInv, HomeInv,
         NEW o \in Order, NEW s \in OrderState \ {"PENDING_CREATE"}, NEW ex \in BOOLEAN,
         placing[o] # "no", o \in lost => s \in TerminalStates,
         ApplyUpdate(o, s, ex), UNCHANGED <<lost, placing>>,
         \A q \in Order : placing[q] = "no" => waiting'[q] = waiting[q]
  PROVE  HomeInv'
<1> USE DEF TypeInv, HomeInv
<1>1. UpdateOrder(o, s, ex)
  BY DEF ApplyUpdate
<1>2. /\ state'[o] = s
      /\ \A q \in Order \ {o} : /\ state'[q] = state[q]
                                /\ created'[q] = created[q]
                                /\ terminal'[q] = terminal[q]
      /\ terminal[o] \subseteq terminal'[o]
      /\ s \in OpenStates => terminal'[o] = terminal[o]
      /\ Updates(o, s, ex) /\ s \notin OpenStates => terminal'[o] # {}
      /\ \/ created'[o] = created[o]
         \/ created'[o] = created[o] + 1 /\ state[o] = "PENDING_CREATE"
  BY <1>1, UpdateOrderEffect
<1>3. active' \subseteq active /\ active \ {o} \subseteq active'
      /\ cached' = cached \cup (active \ active')
  BY DEF ApplyUpdate, StopTracking
<1>4. o \in active => (o \in active' <=> s \in OpenStates)
  <2>1. o \in active /\ s \notin OpenStates => Updates(o, s, ex)
    BY DEF ActiveIsOpen, Updates
  <2>2. QED
    BY <2>1 DEF ApplyUpdate, StopTracking
<1>5. OneHome'
  BY <1>3 DEF OneHome
<1>6. ActiveIsOpen'
  BY <1>2, <1>3, <1>4 DEF ActiveIsOpen, HomeTypeOK
<1>7. EndIsAnnounced'
  <2>1. \A q \in Order \ active' : placing'[q] # "no" => terminal'[q] # {}
    <3> SUFFICES ASSUME NEW q \in Order, q \notin active', placing[q] # "no"
                 PROVE  terminal'[q] # {}
      OBVIOUS
    <3>1. CASE q # o
      BY <3>1, <1>2, <1>3 DEF EndIsAnnounced
    <3>2. CASE q = o /\ o \in active
      <4>1. s \notin OpenStates /\ Updates(o, s, ex)
        BY <3>2, <1>4 DEF ActiveIsOpen, Updates
      <4>2. QED
        BY <4>1, <3>2, <1>2
    <3>3. CASE q = o /\ o \notin active
      BY <3>3, <1>2 DEF EndIsAnnounced
    <3>4. QED
      BY <3>1, <3>2, <3>3
  <2>2. \A q \in lost' : state'[q] \in TerminalStates
    BY <1>2 DEF EndIsAnnounced, HomeTypeOK
  <2>3. QED
    BY <2>1, <2>2 DEF EndIsAnnounced
<1>8. CreatedOnce' /\ PendingNotCreated'
  BY <1>2 DEF CreatedOnce, PendingNotCreated, OrderTypeOK
<1>9. NotPlaced'
  BY <1>2, <1>3 DEF NotPlaced
<1>10. QED
  BY <1>5, <1>6, <1>7, <1>8, <1>9

LEMMA NotFoundKeepsHomes ==
  ASSUME TypeInv, HomeInv, NEW o \in Order, ProcessOrderNotFound(o),
         UNCHANGED <<placing, waiting>>
  PROVE  HomeInv'
<1> USE DEF TypeInv, HomeInv
<1>1. CASE MissCounted(o)
  BY <1>1 DEF MissCounted, orderVars, OneHome, ActiveIsOpen, EndIsAnnounced, CreatedOnce,
              NotPlaced, PendingNotCreated
<1>2. CASE UntrackedMissed(o)
  BY <1>2 DEF UntrackedMissed, orderVars, OneHome, ActiveIsOpen, EndIsAnnounced, CreatedOnce,
              NotPlaced, PendingNotCreated
<1>3. CASE OrderLost(o)
  <2>1. "FAILED" \in OrderState /\ "FAILED" \notin OpenStates /\ FALSE \in BOOLEAN
        /\ "FAILED" \in TerminalStates
    BY DEF OrderState, TerminalStates, OpenStates
  <2>2. UpdateOrder(o, "FAILED", FALSE)
    BY <1>3 DEF OrderLost
  <2>3. /\ state'[o] = "FAILED"
        /\ \A q \in Order \ {o} : /\ state'[q] = state[q]
                                  /\ created'[q] = created[q]
                                  /\ terminal'[q] = terminal[q]
        /\ Updates(o, "FAILED", FALSE) => terminal'[o] # {}
        /\ \/ created'[o] = created[o]
           \/ created'[o] = created[o] + 1 /\ state[o] = "PENDING_CREATE"
    BY <2>1, <2>2, UpdateOrderEffect
  <2>4. Updates(o, "FAILED", FALSE) /\ placing[o] # "no"
    BY <1>3, <2>1 DEF OrderLost, Updates, NotPlaced
  <2>5. active' = active \ {o} /\ cached' = cached \ {o} /\ lost' = lost \cup {o}
    BY <1>3 DEF OrderLost
  <2>6. OneHome' /\ ActiveIsOpen'
    BY <2>3, <2>5 DEF OneHome, ActiveIsOpen, HomeTypeOK
  <2>7. EndIsAnnounced'
    <3>1. \A q \in Order \ active' : placing'[q] # "no" => terminal'[q] # {}
      BY <2>3, <2>4, <2>5 DEF EndIsAnnounced
    <3>2. \A q \in lost' : state'[q] \in TerminalStates
      BY <2>1, <2>3, <2>5 DEF EndIsAnnounced, HomeTypeOK
    <3>3. QED
      BY <3>1, <3>2 DEF EndIsAnnounced
  <2>8. CreatedOnce' /\ PendingNotCreated'
    BY <2>3 DEF CreatedOnce, PendingNotCreated, OrderTypeOK
  <2>9. NotPlaced'
    BY <2>3, <2>4, <2>5 DEF NotPlaced
  <2>10. QED
    BY <2>6, <2>7, <2>8, <2>9
<1>4. QED
  BY <1>1, <1>2, <1>3 DEF ProcessOrderNotFound

\* Steps that neither move nor update an order.
LEMMA QuietKeepsHomes ==
  ASSUME TypeInv, HomeInv, UNCHANGED <<active, cached, lost, orderVars>>,
         \A o \in Order : (placing'[o] = "no") <=> (placing[o] = "no"),
         \A o \in Order : placing[o] = "no" => waiting'[o] = waiting[o]
  PROVE  HomeInv'
BY DEF HomeInv, orderVars, OneHome, ActiveIsOpen, EndIsAnnounced, CreatedOnce, NotPlaced,
       PendingNotCreated

LEMMA HomeStep == TypeInv /\ HomeInv /\ [Next]_vars => HomeInv'
<1> SUFFICES ASSUME TypeInv, HomeInv, [Next]_vars PROVE HomeInv'
  OBVIOUS
<1> USE DEF TypeInv
<1>1. CASE UNCHANGED vars
  BY <1>1, QuietKeepsHomes DEF vars, exchangeVars, loopVars, homeVars
<1>2. CASE StreamLoses \/ StreamDelivers
  BY <1>2, QuietKeepsHomes DEF StreamLoses, StreamDelivers, loopVars, homeVars
<1>3. CASE RunUpdate
  <2> DEFINE o == Head(queue).order
             s == Head(queue).state
             ex == Head(queue).ex
  <2>1. o \in Order /\ s \in OrderState \ {"PENDING_CREATE"} /\ ex \in BOOLEAN
    BY <1>3, HeadsTyped DEF RunUpdate, OrderUpdate
  <2>2. UNCHANGED placing
    BY <1>3 DEF RunUpdate, exchangeVars
  <2>3. \/ /\ o \in AllOrders
           /\ waiting' = [waiting EXCEPT ![o] = @ + 1]
           /\ UNCHANGED <<homeVars, orderVars>>
        \/ o \in AllOrders /\ ApplyUpdate(o, s, ex) /\ UNCHANGED <<lost, waiting>>
        \/ /\ o \notin AllOrders
           /\ lost' \subseteq lost
           /\ UNCHANGED <<active, cached, misses, waiting, orderVars>>
    BY <1>3 DEF RunUpdate
  <2> HIDE DEF o, s, ex
  <2>4. CASE o \in AllOrders /\ waiting' = [waiting EXCEPT ![o] = @ + 1]
             /\ UNCHANGED <<homeVars, orderVars>>
    <3>1. \A q \in Order : placing[q] = "no" => waiting'[q] = waiting[q]
      BY <2>1, <2>4 DEF AllOrders, HomeInv, NotPlaced, LoopTypeOK
    <3>2. QED
      BY <2>2, <2>4, <3>1, QuietKeepsHomes DEF homeVars
  <2>5. CASE o \in AllOrders /\ ApplyUpdate(o, s, ex) /\ UNCHANGED <<lost, waiting>>
    <3>1. placing[o] # "no" /\ o \notin lost
      BY <2>1, <2>5 DEF AllOrders, HomeInv, NotPlaced, OneHome
    <3>2. QED
      BY <2>1, <2>2, <2>5, <3>1, ApplyKeepsHomes
  <2>6. CASE lost' \subseteq lost /\ UNCHANGED <<active, cached, misses, waiting, orderVars>>
    BY <2>2, <2>6 DEF HomeInv, orderVars, OneHome, ActiveIsOpen, EndIsAnnounced, CreatedOnce,
                      NotPlaced, PendingNotCreated
  <2>7. QED
    BY <2>3, <2>4, <2>5, <2>6
<1>4. ASSUME NEW o \in Order,
             \/ ExchangeAccepts(o) \/ ExchangeRejects(o) \/ ExchangeTrades(o)
             \/ ExchangeCancels(o) \/ ExchangeExpires(o)
      PROVE  HomeInv'
  BY <1>4, QuietKeepsHomes DEF ExchangeTypeOK, ExchangeAccepts, ExchangeRejects,
     ExchangeTrades, ExchangeCancels, ExchangeExpires, loopVars, homeVars
<1>5. ASSUME NEW o \in Order, CreateOrder(o)
      PROVE  HomeInv'
  <2>1. /\ o \notin active \cup cached \cup lost
        /\ state[o] = "PENDING_CREATE" /\ terminal[o] = {}
    BY <1>5 DEF CreateOrder, HomeInv, NotPlaced
  <2>2. /\ placing'[o] # "no"
        /\ \A q \in Order \ {o} : placing'[q] = placing[q]
        /\ active' = active \cup {o}
        /\ UNCHANGED <<waiting, cached, lost, state, created, terminal>>
    BY <1>5 DEF CreateOrder, ExchangeTypeOK, orderVars
  <2>3. OneHome' /\ ActiveIsOpen' /\ CreatedOnce' /\ PendingNotCreated'
    BY <2>1, <2>2 DEF HomeInv, OneHome, ActiveIsOpen, CreatedOnce, PendingNotCreated, OpenStates
  <2>4. EndIsAnnounced' /\ NotPlaced'
    BY <2>1, <2>2 DEF HomeInv, EndIsAnnounced, NotPlaced
  <2>5. QED
    BY <2>3, <2>4 DEF HomeInv
<1>6. ASSUME NEW o \in Order, PlaceAnswered(o) \/ PlaceFails(o)
      PROVE  HomeInv'
  BY <1>6, QuietKeepsHomes DEF PlaceAnswered, PlaceFails, ExchangeTypeOK, homeVars
<1>7. ASSUME NEW o \in Order, Cancel(o) \/ CancelAnswered(o) \/ CancelFails(o)
      PROVE  HomeInv'
  BY <1>7, QuietKeepsHomes DEF Cancel, CancelAnswered, CancelFails, loopVars, homeVars
<1>8. ASSUME NEW o \in Order, CancelTimesOut(o)
      PROVE  HomeInv'
  BY <1>8, NotFoundKeepsHomes DEF CancelTimesOut, loopVars
<1>9. ASSUME NEW o \in Order, PollFills(o) \/ PollTradeHistory(o) \/ PollStatus(o)
      PROVE  HomeInv'
  BY <1>9, QuietKeepsHomes DEF PollFills, PollTradeHistory, PollStatus, exchangeVars,
     loopVars, homeVars
<1>10. ASSUME NEW o \in Order, FinishFilled(o)
       PROVE  HomeInv'
  <2>1. placing[o] # "no"
    BY <1>10 DEF FinishFilled, HomeInv, NotPlaced
  <2>2. "FILLED" \in OrderState \ {"PENDING_CREATE"} /\ "FILLED" \in TerminalStates
    BY DEF OrderState, TerminalStates
  <2>3. \A q \in Order : placing[q] = "no" => waiting'[q] = waiting[q]
    BY <1>10, <2>1 DEF FinishFilled, LoopTypeOK
  <2>4. QED
    BY <1>10, <2>1, <2>2, <2>3, ApplyKeepsHomes DEF FinishFilled, exchangeVars
<1>11. ASSUME NEW o \in Order, CacheExpires(o)
       PROVE  HomeInv'
  BY <1>11 DEF CacheExpires, exchangeVars, loopVars, HomeInv, orderVars, OneHome, ActiveIsOpen,
               EndIsAnnounced, CreatedOnce, NotPlaced, PendingNotCreated
<1>12. ASSUME NEW p \in polls, PollAnswered(p)
       PROVE  HomeInv'
  BY <1>12, QuietKeepsHomes DEF PollAnswered, homeVars
<1>13. ASSUME NEW p \in polls, PollFails(p)
       PROVE  HomeInv'
  <2>1. p.order \in Order
    BY DEF ExchangeTypeOK, Poll
  <2>2. CASE p.list = "active"
    BY <1>13, <2>1, <2>2, NotFoundKeepsHomes DEF PollFails, loopVars
  <2>3. CASE p.list # "active"
    BY <1>13, <2>3, QuietKeepsHomes DEF PollFails, homeVars, loopVars
  <2>4. QED
    BY <2>2, <2>3
<1>14. QED
  BY <1>1, <1>2, <1>3, <1>4, <1>5, <1>6, <1>7, <1>8, <1>9, <1>10, <1>11, <1>12, <1>13
     DEF Next, FillsArrived, FillsTimeOut

LEMMA HomesAlways == Spec => []HomeInv
BY TypeInit, TypeStep, HomeInit, HomeStep, PTL DEF Spec

\* No order is in two dictionaries.
THEOREM HomesCorrect == Spec => []OneHome
<1>1. HomeInv => OneHome
  BY DEF HomeInv
<1>2. QED
  BY <1>1, HomesAlways, PTL

\* An active order is open and its end has not been announced.
THEOREM ActiveAreOpen == Spec => []ActiveIsOpen
<1>1. HomeInv => ActiveIsOpen
  BY DEF HomeInv
<1>2. QED
  BY <1>1, HomesAlways, PTL

\* The end of an order is announced when its tracking ends, so nobody is left waiting.
THEOREM EndsAnnounced == Spec => []EndIsAnnounced
<1>1. HomeInv => EndIsAnnounced
  BY DEF HomeInv
<1>2. QED
  BY <1>1, HomesAlways, PTL

\* The created event comes once at most, whichever sources bring the news.
THEOREM CreatedAtMostOnce == Spec => []CreatedOnce
<1>1. HomeInv => CreatedOnce
  BY DEF HomeInv
<1>2. QED
  BY <1>1, HomesAlways, PTL
-------------------------------------------------------------------------------
(***************************************************************************)
(* The fills.                                                              *)
(***************************************************************************)
\* The user stream carries trades that were executed only.
StreamTold ==
  \A i \in 1..Len(stream) : stream[i].trades \subseteq exTrades[stream[i].order]

FillInv == FillsCountedOnce /\ StreamTold

LEMMA FillInit == Init => FillInv
BY FS_EmptySet DEF Init, FillInv, FillsCountedOnce, StreamTold

\* Recording executed trades.
LEMMA RecordKeepsCount ==
  ASSUME TypeInv, FillsCountedOnce, NEW o \in Order, NEW T \in SUBSET Trade,
         T \subseteq exTrades[o], RecordTrades(o, T), UNCHANGED exTrades
  PROVE  FillsCountedOnce'
<1> USE DEF TypeInv
<1>1. fills[o] \in SUBSET Trade
  BY DEF FillTypeOK
<1>2. Cardinality(fills[o] \cup T) = Cardinality(fills[o]) + Cardinality(T \ fills[o])
  BY <1>1, RecordingCounts
<1>3. CASE o \in FillableOrders
  <2> SUFFICES ASSUME NEW q \in Order
               PROVE  /\ fills'[q] \subseteq exTrades[q]
                      /\ executed'[q] = Cardinality(fills'[q])
                      /\ filledEvents'[q] = executed'[q]
    BY DEF FillsCountedOnce
  <2>1. CASE q = o
    <3>1. /\ fills'[o] = fills[o] \cup T
          /\ executed'[o] = executed[o] + Cardinality(T \ fills[o])
          /\ filledEvents'[o] = filledEvents[o] + Cardinality(T \ fills[o])
      BY <1>3 DEF RecordTrades, FillTypeOK
    <3>2. fills[o] \subseteq exTrades[o] /\ executed[o] = Cardinality(fills[o])
          /\ filledEvents[o] = executed[o]
      BY DEF FillsCountedOnce
    <3>3. QED
      BY <2>1, <3>1, <3>2, <1>2
  <2>2. CASE q # o
    BY <1>3, <2>2 DEF RecordTrades, FillTypeOK, FillsCountedOnce
  <2>3. QED
    BY <2>1, <2>2
<1>4. CASE o \notin FillableOrders
  BY <1>4 DEF RecordTrades, fillVars, FillsCountedOnce
<1>5. QED
  BY <1>3, <1>4

\* A message is sent whose trades were executed.
LEMMA SendingKeepsTold ==
  ASSUME TypeInv, StreamTold, NEW o \in Order, NEW s \in ReportedState,
         NEW T \in SUBSET Trade, stream' = Append(stream, Message(o, s, T)),
         T \subseteq exTrades'[o],
         \A q \in Order : exTrades[q] \subseteq exTrades'[q]
  PROVE  StreamTold'
<1>0. Message(o, s, T) \in StreamMessage
  BY DEF Message, StreamMessage
<1>1. stream \in Seq(StreamMessage)
  BY DEF TypeInv, ExchangeTypeOK
<1>2. ASSUME NEW i \in 1..Len(stream')
      PROVE  stream'[i].trades \subseteq exTrades'[stream'[i].order]
  <2>1. CASE i \in 1..Len(stream)
    <3>1. stream'[i] = stream[i] /\ stream[i] \in StreamMessage
      BY <1>1, <1>0, <2>1
    <3>2. QED
      BY <2>1, <3>1 DEF StreamTold, StreamMessage
  <2>2. CASE i = Len(stream) + 1
    <3>1. stream'[i] = Message(o, s, T)
      BY <1>0, <1>1, <2>2
    <3>2. QED
      BY <3>1 DEF Message
  <2>3. QED
    BY <1>0, <1>1, <2>1, <2>2
<1>3. QED
  BY <1>2 DEF StreamTold

LEMMA FillStep == TypeInv /\ FillInv /\ [Next]_vars => FillInv'
<1> SUFFICES ASSUME TypeInv, FillInv, [Next]_vars PROVE FillInv'
  OBVIOUS
<1> USE DEF FillInv
<1>1. ASSUME UNCHANGED fillVars, UNCHANGED <<exTrades, stream>>
      PROVE  FillInv'
  BY <1>1 DEF fillVars, FillsCountedOnce, StreamTold
<1>2. CASE UNCHANGED vars
  BY <1>1, <1>2 DEF vars, exchangeVars
<1>3. ASSUME stream # <<>>, stream' = Tail(stream), UNCHANGED exTrades
      PROVE  StreamTold'
  <2>1. \A i \in 1..Len(stream') : i + 1 \in 1..Len(stream) /\ stream'[i] = stream[i + 1]
    BY <1>3 DEF TypeInv, ExchangeTypeOK
  <2>2. QED
    BY <1>3, <2>1 DEF StreamTold
<1>4. CASE StreamLoses
  BY <1>3, <1>4 DEF StreamLoses, fillVars, FillsCountedOnce
<1>5. CASE StreamDelivers
  <2> DEFINE m == Head(stream)
  <2>1. m.order \in Order /\ m.trades \in SUBSET Trade
    BY <1>5, HeadsTyped DEF StreamDelivers, StreamMessage
  <2>2. m.trades \subseteq exTrades[m.order]
    BY <1>5 DEF StreamDelivers, StreamTold, TypeInv, ExchangeTypeOK
  <2>3. FillsCountedOnce'
    BY <1>5, <2>1, <2>2, RecordKeepsCount DEF StreamDelivers
  <2>4. QED
    BY <1>3, <1>5, <2>3 DEF StreamDelivers
<1>6. ASSUME NEW o \in Order, ExchangeAccepts(o) \/ ExchangeExpires(o) \/ ExchangeCancels(o)
      PROVE  FillInv'
  <2>1. FillsCountedOnce' /\ UNCHANGED exTrades
    BY <1>6 DEF ExchangeAccepts, ExchangeExpires, ExchangeCancels, fillVars, FillsCountedOnce
  <2>2. \/ UNCHANGED stream
        \/ \E s \in {"OPEN", "CANCELED"} : stream' = Append(stream, Message(o, s, {}))
    BY <1>6 DEF ExchangeAccepts, ExchangeExpires, ExchangeCancels
  <2>3. CASE UNCHANGED stream
    BY <2>1, <2>3 DEF StreamTold
  <2>4. CASE \E s \in {"OPEN", "CANCELED"} : stream' = Append(stream, Message(o, s, {}))
    BY <2>1, <2>4, SendingKeepsTold DEF ReportedState
  <2>5. QED
    BY <2>1, <2>2, <2>3, <2>4
<1>7. ASSUME NEW o \in Order, ExchangeTrades(o)
      PROVE  FillInv'
  <2>1. PICK t \in Trade, s \in ReportedState :
          /\ exTrades' = [exTrades EXCEPT ![o] = @ \cup {t}]
          /\ stream' = Append(stream, Message(o, s, {t}))
          /\ UNCHANGED fillVars
    BY <1>7, NextLot DEF ExchangeTrades, ReportedState, TypeInv
  <2>2. \A q \in Order : exTrades[q] \subseteq exTrades'[q]
    BY <2>1 DEF TypeInv, ExchangeTypeOK
  <2>3. {t} \subseteq exTrades'[o]
    BY <2>1 DEF TypeInv, ExchangeTypeOK
  <2>4. StreamTold'
    BY <2>1, <2>2, <2>3, SendingKeepsTold
  <2>5. FillsCountedOnce'
    BY <2>1, <2>2 DEF fillVars, FillsCountedOnce
  <2>6. QED
    BY <2>4, <2>5
<1>8. ASSUME NEW o \in Order, PollFills(o) \/ PollTradeHistory(o)
      PROVE  FillInv'
  <2>1. PICK T \in SUBSET exTrades[o] : RecordTrades(o, T)
    BY <1>8 DEF PollFills, PollTradeHistory
  <2>2. T \in SUBSET Trade
    BY DEF TypeInv, ExchangeTypeOK
  <2>3. UNCHANGED <<exTrades, stream>>
    BY <1>8 DEF PollFills, PollTradeHistory, exchangeVars
  <2>4. FillsCountedOnce'
    BY <2>1, <2>2, <2>3, RecordKeepsCount
  <2>5. QED
    BY <2>3, <2>4 DEF StreamTold
<1>9. ASSUME NEW o \in Order,
             \/ ExchangeRejects(o) \/ CreateOrder(o) \/ PlaceAnswered(o) \/ PlaceFails(o)
             \/ Cancel(o) \/ CancelAnswered(o) \/ CancelFails(o) \/ CancelTimesOut(o)
             \/ PollStatus(o) \/ FinishFilled(o) \/ CacheExpires(o)
      PROVE  FillInv'
  BY <1>1, <1>9 DEF ExchangeRejects, CreateOrder, PlaceAnswered, PlaceFails, Cancel,
     CancelAnswered, CancelFails, CancelTimesOut, PollStatus, FinishFilled, CacheExpires,
     exchangeVars
<1>10. CASE RunUpdate \/ \E p \in polls : PollAnswered(p) \/ PollFails(p)
  BY <1>1, <1>10 DEF RunUpdate, PollAnswered, PollFails, exchangeVars
<1>11. QED
  BY <1>2, <1>4, <1>5, <1>6, <1>7, <1>8, <1>9, <1>10 DEF Next, FillsArrived, FillsTimeOut

\* Whatever the sources and the order in which they bring them, the executed amount of
\* an order is the number of distinct trades recorded, all of which were executed.
THEOREM FillsCorrect == Spec => []FillsCountedOnce
<1>1. FillInv => FillsCountedOnce
  BY DEF FillInv
<1>2. QED
  BY <1>1, TypeInit, TypeStep, FillInit, FillStep, PTL DEF Spec
-------------------------------------------------------------------------------
(***************************************************************************)
(* The tracker implements OrderLifecycle.                                  *)
(***************************************************************************)
\* Nothing was filled of an order that was not placed.
NothingFilled == \A o \in Order : placing[o] = "no" => executed[o] = 0

Inv == TypeInv /\ HomeInv /\ FillInv /\ NothingFilled

LEMMA NothingFilledStep ==
  ASSUME TypeInv, HomeInv, NothingFilled, [Next]_vars
  PROVE  NothingFilled'
<1>1. \A o \in Order : placing'[o] = "no" => placing[o] = "no"
  BY DEF TypeInv, ExchangeTypeOK, Next, vars, exchangeVars, StreamLoses, StreamDelivers,
     RunUpdate, ExchangeAccepts, ExchangeRejects, ExchangeTrades, ExchangeCancels,
     ExchangeExpires, CreateOrder, PlaceAnswered, PlaceFails, Cancel, CancelAnswered,
     CancelFails, CancelTimesOut, PollFills, PollTradeHistory, PollStatus, FillsArrived,
     FillsTimeOut, FinishFilled, CacheExpires, PollAnswered, PollFails
<1>2. ASSUME NEW o \in Order, NEW T, RecordTrades(o, T)
      PROVE  \A q \in Order : placing[q] = "no" => executed'[q] = executed[q]
  BY <1>2 DEF RecordTrades, fillVars, FillableOrders, HomeInv, NotPlaced, TypeInv, FillTypeOK
<1>3. CASE UNCHANGED executed
  BY <1>1, <1>3 DEF NothingFilled
<1>4. CASE \E o \in Order, T \in SUBSET Trade : RecordTrades(o, T)
  BY <1>1, <1>2, <1>4 DEF NothingFilled
<1>5. UNCHANGED executed \/ \E o \in Order, T \in SUBSET Trade : RecordTrades(o, T)
  <2>1. CASE StreamDelivers
    BY <2>1, HeadsTyped DEF StreamDelivers, StreamMessage
  <2>2. CASE \E o \in Order : PollFills(o) \/ PollTradeHistory(o)
    BY <2>2 DEF PollFills, PollTradeHistory, TypeInv, ExchangeTypeOK
  <2>3. CASE UNCHANGED fillVars
    BY <2>3 DEF fillVars
  <2>4. QED
    BY <2>1, <2>2, <2>3 DEF Next, vars, StreamLoses, RunUpdate, ExchangeAccepts,
       ExchangeRejects, ExchangeTrades, ExchangeCancels, ExchangeExpires, CreateOrder,
       PlaceAnswered, PlaceFails, Cancel, CancelAnswered, CancelFails, CancelTimesOut,
       PollStatus, FillsArrived, FillsTimeOut, FinishFilled, CacheExpires, PollAnswered,
       PollFails
<1>6. QED
  BY <1>3, <1>4, <1>5

LEMMA InvInit == Init => Inv
BY TypeInit, HomeInit, FillInit DEF Inv, Init, NothingFilled

LEMMA InvStep == Inv /\ [Next]_vars => Inv'
BY TypeStep, HomeStep, FillStep, NothingFilledStep DEF Inv

\* A step that moves no order between the dictionaries, places none and changes neither
\* a filled amount nor whether an order's end was announced is invisible to the clients.
LEMMA Invisible ==
  ASSUME UNCHANGED <<active, executed>>,
         \A q \in Order :
           /\ (q \in lost') <=> (q \in lost)
           /\ (placing'[q] = "no") <=> (placing[q] = "no")
           /\ (terminal'[q] = {}) <=> (terminal[q] = {})
  PROVE  UNCHANGED <<phaseBar, executed, announcedBar>>
<1>1. UNCHANGED phaseBar
  BY DEF phaseBar
<1>2. UNCHANGED announcedBar
  BY DEF announcedBar
<1>3. QED
  BY <1>1, <1>2

LEMMA QuietIsInvisible ==
  ASSUME UNCHANGED <<active, lost, executed, terminal>>,
         \A q \in Order : (placing'[q] = "no") <=> (placing[q] = "no")
  PROVE  UNCHANGED <<phaseBar, executed, announcedBar>>
BY Invisible

\* An update that is applied ends the tracking of an active order, and announces it, or
\* is invisible.
LEMMA ApplyRefines ==
  ASSUME Inv, NEW o \in Order, NEW s \in OrderState, NEW ex \in BOOLEAN, placing[o] # "no",
         ApplyUpdate(o, s, ex), UNCHANGED <<lost, placing, fillVars>>
  PROVE  Lifecycle!GiveUp(o) \/ UNCHANGED <<phaseBar, executed, announcedBar>>
<1> USE DEF Inv, TypeInv, HomeInv
<1>1. UpdateOrder(o, s, ex) /\ UNCHANGED executed
  BY DEF ApplyUpdate, fillVars
<1>2. /\ \A q \in Order \ {o} : terminal'[q] = terminal[q]
      /\ terminal[o] \subseteq terminal'[o]
      /\ s \in OpenStates => terminal'[o] = terminal[o]
      /\ Updates(o, s, ex) /\ s \notin OpenStates => terminal'[o] # {}
  BY <1>1, UpdateOrderEffect
<1>3. CASE o \in active /\ s \notin OpenStates
  <2>1. Updates(o, s, ex)
    BY <1>3 DEF ActiveIsOpen, Updates
  <2>2. active' = active \ {o} /\ o \notin lost
    BY <1>3, <2>1 DEF ApplyUpdate, StopTracking, OneHome
  <2>3. phaseBar' = [phaseBar EXCEPT ![o] = "closed"] /\ phaseBar[o] = "tracked"
    BY <1>3, <2>2 DEF phaseBar
  <2>4. announcedBar' = [announcedBar EXCEPT ![o] = TRUE]
    BY <1>2, <1>3, <2>1 DEF announcedBar
  <2>5. QED
    BY <1>1, <2>3, <2>4 DEF Lifecycle!GiveUp
<1>4. CASE ~(o \in active /\ s \notin OpenStates)
  <2>1. UNCHANGED active
    BY <1>4 DEF ApplyUpdate, StopTracking
  <2>2. (terminal'[o] = {}) <=> (terminal[o] = {})
    BY <1>2, <1>4 DEF EndIsAnnounced
  <2>3. QED
    BY <1>1, <1>2, <2>1, <2>2, Invisible
<1>5. QED
  BY <1>3, <1>4

\* A miss loses an active order, forgets a lost one or is invisible.
LEMMA NotFoundRefines ==
  ASSUME Inv, NEW o \in Order, ProcessOrderNotFound(o), UNCHANGED <<placing, fillVars>>
  PROVE  \/ Lifecycle!GiveUp(o) \/ Lifecycle!Forget(o)
         \/ UNCHANGED <<phaseBar, executed, announcedBar>>
<1> USE DEF Inv, TypeInv, HomeInv
<1>1. UNCHANGED executed
  BY DEF fillVars
<1>2. CASE MissCounted(o)
  BY <1>1, <1>2, QuietIsInvisible DEF MissCounted, orderVars
<1>3. CASE UntrackedMissed(o)
  <2>1. active' = active /\ terminal' = terminal /\ lost' = lost \ {o}
    BY <1>3 DEF UntrackedMissed, orderVars
  <2>2. CASE o \in lost
    <3>1. o \notin active /\ placing[o] # "no"
      BY <2>2 DEF OneHome, NotPlaced
    <3>2. phaseBar' = [phaseBar EXCEPT ![o] = "closed"] /\ phaseBar[o] = "lost"
      BY <2>1, <2>2, <3>1 DEF phaseBar
    <3>3. QED
      BY <1>1, <2>1, <3>2 DEF Lifecycle!Forget, announcedBar
  <2>3. CASE o \notin lost
    BY <1>1, <2>1, <2>3, Invisible
  <2>4. QED
    BY <2>2, <2>3
<1>4. CASE OrderLost(o)
  <2>1. "FAILED" \in OrderState /\ "FAILED" \notin OpenStates /\ FALSE \in BOOLEAN
    BY DEF OrderState, TerminalStates, OpenStates
  <2>2. UpdateOrder(o, "FAILED", FALSE) /\ Updates(o, "FAILED", FALSE)
        /\ active' = active \ {o} /\ lost' = lost \cup {o} /\ o \in active
    BY <1>4 DEF OrderLost, Updates, TerminalStates
  <2>3. (\A q \in Order \ {o} : terminal'[q] = terminal[q]) /\ terminal'[o] # {}
    BY <2>1, <2>2, UpdateOrderEffect
  <2>4. phaseBar' = [phaseBar EXCEPT ![o] = "lost"] /\ phaseBar[o] = "tracked"
    BY <2>2 DEF phaseBar
  <2>5. announcedBar' = [announcedBar EXCEPT ![o] = TRUE]
    BY <2>3 DEF announcedBar
  <2>6. QED
    BY <1>1, <2>4, <2>5 DEF Lifecycle!GiveUp
<1>5. QED
  BY <1>2, <1>3, <1>4 DEF ProcessOrderNotFound

\* Recorded trades fill the order, within its amount, or are invisible.
LEMMA RecordRefines ==
  ASSUME Inv, Inv', NEW o \in Order, NEW T \in SUBSET Trade, RecordTrades(o, T),
         UNCHANGED <<active, lost, placing, terminal>>
  PROVE  Lifecycle!Fill(o) \/ UNCHANGED <<phaseBar, executed, announcedBar>>
<1>1. UNCHANGED phaseBar /\ UNCHANGED announcedBar
  BY DEF phaseBar, announcedBar
<1>2. CASE UNCHANGED executed
  BY <1>1, <1>2
<1>3. CASE executed' # executed
  <2> DEFINE n == executed[o] + Cardinality(T \ fills[o])
  <2>1. o \in FillableOrders /\ executed' = [executed EXCEPT ![o] = n]
    BY <1>3 DEF RecordTrades, fillVars
  <2>2. T \ fills[o] \in SUBSET Trade
    BY DEF Inv, TypeInv, FillTypeOK
  <2>3. Cardinality(T \ fills[o]) \in Nat /\ executed[o] \in Nat
    BY <2>2, TradesAreCounted DEF Inv, TypeInv, FillTypeOK
  <2>4. executed'[o] = n /\ n \in Nat
    BY <2>1, <2>3 DEF Inv, TypeInv, FillTypeOK
  <2>5. n # executed[o]
    <3> HIDE DEF n
    <3> QED BY <1>3, <2>1 DEF Inv, TypeInv, FillTypeOK
  <2>6. n <= Amount
    <3>1. fills'[o] \in SUBSET Trade /\ executed'[o] = Cardinality(fills'[o])
      BY DEF Inv, TypeInv, FillTypeOK, FillInv, FillsCountedOnce
    <3>2. Cardinality(fills'[o]) <= Amount
      BY <3>1, TradesAreCounted
    <3> HIDE DEF n
    <3>3. QED
      BY <2>4, <3>1, <3>2
  <2>7. n \in executed[o] + 1 .. Amount
    BY <2>3, <2>5, <2>6, AmountAssumption
  <2>8. phaseBar[o] # "new"
    BY <2>1 DEF phaseBar, FillableOrders, Inv, HomeInv, NotPlaced
  <2> HIDE DEF n
  <2>9. QED
    BY <1>1, <2>1, <2>7, <2>8 DEF Lifecycle!Fill
<1>4. QED
  BY <1>2, <1>3

LEMMA RefinementInit == Init => Lifecycle!Init
BY DEF Init, Lifecycle!Init, phaseBar, announcedBar

LEMMA RefinementStep ==
  ASSUME Inv, Inv', [Next]_vars
  PROVE  Lifecycle!Next \/ UNCHANGED <<phaseBar, executed, announcedBar>>
<1> USE DEF Inv, TypeInv
<1>1. CASE UNCHANGED vars
  BY <1>1, QuietIsInvisible DEF vars, exchangeVars, homeVars, orderVars, fillVars
<1>2. CASE StreamLoses
  BY <1>2, QuietIsInvisible DEF StreamLoses, homeVars, orderVars, fillVars
<1>3. CASE StreamDelivers
  <2> DEFINE m == Head(stream)
  <2>1. m.order \in Order /\ m.trades \in SUBSET Trade
    BY <1>3, HeadsTyped DEF StreamDelivers, StreamMessage
  <2>2. Lifecycle!Fill(m.order) \/ UNCHANGED <<phaseBar, executed, announcedBar>>
    BY <1>3, <2>1, RecordRefines DEF StreamDelivers, homeVars, orderVars
  <2>3. QED
    BY <2>1, <2>2 DEF Lifecycle!Next
<1>4. CASE RunUpdate
  <2> DEFINE o == Head(queue).order
             s == Head(queue).state
             ex == Head(queue).ex
  <2>1. o \in Order /\ s \in OrderState /\ ex \in BOOLEAN
    BY <1>4, HeadsTyped DEF RunUpdate, OrderUpdate
  <2>2. UNCHANGED placing /\ UNCHANGED fillVars /\ UNCHANGED executed
    BY <1>4 DEF RunUpdate, exchangeVars, fillVars
  <2>3. \/ UNCHANGED <<homeVars, orderVars>>
        \/ o \in AllOrders /\ ApplyUpdate(o, s, ex) /\ UNCHANGED lost
        \/ /\ o \notin AllOrders
           /\ lost' = lost \/ lost' = lost \ {o}
           /\ UNCHANGED <<active, cached, misses, waiting, orderVars>>
    BY <1>4 DEF RunUpdate
  <2> HIDE DEF o, s, ex
  <2>4. CASE UNCHANGED <<homeVars, orderVars>>
    BY <2>2, <2>4, QuietIsInvisible DEF homeVars, orderVars
  <2>5. CASE o \in AllOrders /\ ApplyUpdate(o, s, ex) /\ UNCHANGED lost
    <3>1. placing[o] # "no"
      BY <2>1, <2>5 DEF AllOrders, HomeInv, NotPlaced
    <3>2. QED
      BY <2>1, <2>2, <2>5, <3>1, ApplyRefines DEF Lifecycle!Next
  <2>6. CASE /\ o \notin AllOrders
             /\ lost' = lost \/ lost' = lost \ {o}
             /\ UNCHANGED <<active, cached, misses, waiting, orderVars>>
    <3>1. ProcessOrderNotFound(o) \/ UNCHANGED <<homeVars, orderVars>>
      BY <2>6 DEF ProcessOrderNotFound, UntrackedMissed, AllOrders, homeVars
    <3>2. QED
      BY <2>1, <2>2, <2>4, <3>1, NotFoundRefines DEF Lifecycle!Next
  <2>7. QED
    BY <2>3, <2>4, <2>5, <2>6
<1>5. ASSUME NEW o \in Order,
             \/ ExchangeAccepts(o) \/ ExchangeRejects(o) \/ ExchangeTrades(o)
             \/ ExchangeCancels(o) \/ ExchangeExpires(o)
      PROVE  UNCHANGED <<phaseBar, executed, announcedBar>>
  BY <1>5, QuietIsInvisible DEF ExchangeTypeOK, ExchangeAccepts, ExchangeRejects,
     ExchangeTrades, ExchangeCancels, ExchangeExpires, homeVars, orderVars, fillVars
<1>6. ASSUME NEW o \in Order, CreateOrder(o)
      PROVE  Lifecycle!Start(o)
  <2>1. o \notin active /\ o \notin lost /\ placing[o] = "no"
    BY <1>6 DEF CreateOrder, HomeInv, NotPlaced
  <2>2. /\ placing'[o] # "no" /\ \A q \in Order \ {o} : placing'[q] = placing[q]
        /\ active' = active \cup {o} /\ UNCHANGED <<lost, terminal, executed>>
    BY <1>6 DEF CreateOrder, ExchangeTypeOK, orderVars, fillVars
  <2>3. phaseBar[o] = "new" /\ phaseBar' = [phaseBar EXCEPT ![o] = "tracked"]
    BY <2>1, <2>2 DEF phaseBar
  <2>4. QED
    BY <2>2, <2>3 DEF Lifecycle!Start, announcedBar
<1>7. ASSUME NEW o \in Order,
             \/ PlaceAnswered(o) \/ PlaceFails(o) \/ Cancel(o) \/ CancelAnswered(o)
             \/ CancelFails(o) \/ PollStatus(o) \/ CacheExpires(o)
      PROVE  UNCHANGED <<phaseBar, executed, announcedBar>>
  BY <1>7, QuietIsInvisible DEF ExchangeTypeOK, PlaceAnswered, PlaceFails, Cancel,
     CancelAnswered, CancelFails, PollStatus, CacheExpires, exchangeVars, homeVars, orderVars,
     fillVars
<1>8. ASSUME NEW o \in Order, CancelTimesOut(o)
      PROVE  Lifecycle!Next \/ UNCHANGED <<phaseBar, executed, announcedBar>>
  BY <1>8, NotFoundRefines DEF CancelTimesOut, Lifecycle!Next
<1>9. ASSUME NEW o \in Order, PollFills(o) \/ PollTradeHistory(o)
      PROVE  Lifecycle!Next \/ UNCHANGED <<phaseBar, executed, announcedBar>>
  <2>1. PICK T \in SUBSET exTrades[o] : RecordTrades(o, T)
    BY <1>9 DEF PollFills, PollTradeHistory
  <2>2. T \in SUBSET Trade
    BY DEF ExchangeTypeOK
  <2>3. UNCHANGED <<active, lost, placing, terminal>>
    BY <1>9 DEF PollFills, PollTradeHistory, exchangeVars, homeVars, orderVars
  <2>4. QED
    BY <2>1, <2>2, <2>3, RecordRefines DEF Lifecycle!Next
<1>10. ASSUME NEW o \in Order, FinishFilled(o)
       PROVE  Lifecycle!Next \/ UNCHANGED <<phaseBar, executed, announcedBar>>
  <2>1. placing[o] # "no" /\ "FILLED" \in OrderState
    BY <1>10 DEF FinishFilled, HomeInv, NotPlaced, OrderState, TerminalStates
  <2>2. QED
    BY <1>10, <2>1, ApplyRefines DEF FinishFilled, exchangeVars, Lifecycle!Next
<1>11. ASSUME NEW p \in polls, PollAnswered(p) \/ PollFails(p)
       PROVE  Lifecycle!Next \/ UNCHANGED <<phaseBar, executed, announcedBar>>
  <2>1. p.order \in Order
    BY DEF ExchangeTypeOK, Poll
  <2>2. CASE PollFails(p) /\ p.list = "active"
    BY <2>1, <2>2, NotFoundRefines DEF PollFails, Lifecycle!Next
  <2>3. CASE ~(PollFails(p) /\ p.list = "active")
    BY <1>11, <2>3, QuietIsInvisible DEF PollAnswered, PollFails, homeVars, orderVars, fillVars
  <2>4. QED
    BY <2>2, <2>3
<1>12. QED
  BY <1>1, <1>2, <1>3, <1>4, <1>5, <1>6, <1>7, <1>8, <1>9, <1>10, <1>11
     DEF Next, FillsArrived, FillsTimeOut, Lifecycle!Next

\* Every behaviour of the tracker, the exchange and the feeds is one its clients expect:
\* an order is tracked once, its end is announced when the tracking ends, and its filled
\* amount only grows, up to its size.
THEOREM ImplementsLifecycle == Spec => LifecycleSpec
<1>1. Init => Lifecycle!Init /\ Inv
  BY RefinementInit, InvInit
<1>2. Inv /\ [Next]_vars => Inv'
  BY InvStep
<1>3. Inv /\ Inv' /\ [Next]_vars => [Lifecycle!Next]_<<phaseBar, executed, announcedBar>>
  BY RefinementStep
<1>4. LifecycleSpec <=> Lifecycle!Init /\ [][Lifecycle!Next]_<<phaseBar, executed, announcedBar>>
  BY DEF LifecycleSpec, Lifecycle!Spec, Lifecycle!lifecycleVars
<1>5. QED
  BY <1>1, <1>2, <1>3, <1>4, PTL DEF Spec
===============================================================================
