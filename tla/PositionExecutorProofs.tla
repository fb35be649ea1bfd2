------------------------- MODULE PositionExecutorProofs -------------------------
(***************************************************************************)
(* Proofs about PositionExecutor, for every amount, minimum order size,    *)
(* number of retries and choice of its switches.                           *)
(*                                                                         *)
(* A tick may place two orders (a take profit and, at the time limit, a    *)
(* market close), so the invariants are stated of a sequence of orders and *)
(* the three references to it, and one lemma says of each way the sequence *)
(* changes that they are kept.  The parts:                                 *)
(*   Known    the live orders are those the executor knows;                *)
(*   the refinement of ExecutorLifecycle, which needs only that;           *)
(*   CloseInv the market closes, counted by the retries;                   *)
(*   KeptInv  the orders that are not lost are one of each kind, and what  *)
(*            closes is covered by an entry: what is traded, in sum.       *)
(***************************************************************************)
EXTENDS PositionExecutor, FiniteSums, SequenceTheorems, FiniteSetTheorems, TLAPS

Alive(record) == record.state \in Live /\ record.filled < record.size

\* The references point at orders of their kind, every live order is referred to (or is
\* a market close whose place the completed take profit took), and no two live ones are
\* of one kind.
Known(book, open, close, tp) ==
  /\ {open, close, tp} \subseteq 0..Len(book)
  /\ open # None => book[open].role = "open"
  /\ tp # None => book[tp].role = "tp"
  /\ close # None => book[close].role = "close"
                       \/ (book[close].role = "tp" /\ book[close].state = "filled")
  /\ \A i \in 1..Len(book) :
       Alive(book[i]) => \/ i \in {open, close, tp}
                         \/ book[i].role = "close" /\ close # None /\ book[close].role = "tp"
  /\ \A i, j \in 1..Len(book) :
       Alive(book[i]) /\ Alive(book[j]) /\ book[i].role = book[j].role => i = j

\* Two records differ in what the executor knows or asked of the order only.
Alike(r1, r2) ==
  r1.role = r2.role /\ r1.size = r2.size /\ r1.filled = r2.filled /\ r1.state = r2.state

Same(book, new) ==
  /\ new \in Seq(OrderRecord) /\ Len(new) = Len(book)
  /\ \A i \in 1..Len(book) : Alike(book[i], new[i])

Adds(book, new, role) ==
  /\ new \in Seq(OrderRecord) /\ Len(new) = Len(book) + 1
  /\ \A i \in 1..Len(book) : Alike(book[i], new[i])
  /\ new[Len(new)].role = role /\ new[Len(new)].state = "pending"

\* Order i goes on: it never comes back to life, and filled is the end.
Advances(book, new, i) ==
  /\ new \in Seq(OrderRecord) /\ Len(new) = Len(book)
  /\ \A j \in 1..Len(book) : j # i => new[j] = book[j]
  /\ new[i].role = book[i].role
  /\ Alive(new[i]) => Alive(book[i])
  /\ book[i].state = "filled" => new[i].state = "filled"

TypeInv == TypeOK /\ (status = "RUNNING" => closeOrder = None)

KnownInv == Known(orders, openOrder, closeOrder, takeProfit)

EndInv ==
  /\ status = "TERMINATED" => terminated
  /\ loop = "starting" => orders = <<>>
  /\ NothingLeftBehind

Inv == TypeInv /\ KnownInv /\ EndInv
-------------------------------------------------------------------------------
(***************************************************************************)
(* Known is kept by every way the orders change.                           *)
(***************************************************************************)
LEMMA KnownSame ==
  ASSUME NEW book \in Seq(OrderRecord), NEW new, Same(book, new),
         NEW o, NEW c, NEW t, Known(book, o, c, t)
  PROVE  Known(new, o, c, t)
BY DEF Known, Same, Alike, Alive, None

LEMMA KnownEntry ==
  ASSUME NEW book \in Seq(OrderRecord), NEW new, Adds(book, new, "open"),
         NEW c, NEW t, Known(book, None, c, t)
  PROVE  Known(new, Len(new), c, t)
BY DEF Known, Adds, Alike, Alive, None

LEMMA KnownTakeProfit ==
  ASSUME NEW book \in Seq(OrderRecord), NEW new, Adds(book, new, "tp"),
         NEW o, Known(book, o, None, None)
  PROVE  Known(new, o, None, Len(new))
BY DEF Known, Adds, Alike, Alive, None

LEMMA KnownClose ==
  ASSUME NEW book \in Seq(OrderRecord), NEW new, Adds(book, new, "close"),
         NEW o, NEW t, Known(book, o, None, t)
  PROVE  Known(new, o, Len(new), t)
BY DEF Known, Adds, Alike, Alive, None

LEMMA KnownAdvances ==
  ASSUME NEW book \in Seq(OrderRecord), NEW new, NEW i \in 1..Len(book),
         Advances(book, new, i), NEW o, NEW c, NEW t, Known(book, o, c, t)
  PROVE  Known(new, o, c, t)
BY DEF Known, Advances, None

\* The references to an order that is over may be dropped, but for the completed take
\* profit in the place of the close order.
LEMMA KnownDropped ==
  ASSUME NEW book \in Seq(OrderRecord), NEW i \in 1..Len(book), ~Alive(book[i]),
         book[i].state # "filled",
         NEW o, NEW c, NEW t, Known(book, o, c, t),
         NEW o2, NEW c2, NEW t2,
         o2 = o \/ (o = i /\ o2 = None), c2 = c \/ (c = i /\ c2 = None),
         t2 = t \/ (t = i /\ t2 = None)
  PROVE  Known(book, o2, c2, t2)
BY DEF Known, Alive, Live, None

LEMMA KnownCompleted ==
  ASSUME NEW book \in Seq(OrderRecord), NEW o, NEW c, NEW t, Known(book, o, c, t),
         t # None, book[t].state = "filled"
  PROVE  Known(book, o, t, t)
BY DEF Known, Alive, Live, None
-------------------------------------------------------------------------------
(***************************************************************************)
(* The operators of the executor, in those terms.                          *)
(***************************************************************************)
LEMMA WithdrawnSame ==
  ASSUME NEW book \in Seq(OrderRecord), NEW i \in 1..Len(book)
  PROVE  Same(book, Withdraw(book, i))
<1> DEFINE record == [book[i] EXCEPT !.asked = TRUE]
<1>1. book[i] \in OrderRecord
  OBVIOUS
<1>2. record \in OrderRecord /\ Alike(book[i], record)
  BY <1>1 DEF OrderRecord, Alike
<1> HIDE DEF record
<1>3. Withdraw(book, i) = [book EXCEPT ![i] = record]
  BY DEF Withdraw, record
<1>4. QED
  BY <1>2, <1>3 DEF Same, Alike

LEMMA CancelledSame ==
  ASSUME TypeOK, NEW book \in Seq(OrderRecord)
  PROVE  Same(book, CancelOpenOrders(book))
<1> DEFINE asked(i) == i \in {openOrder, takeProfit} /\ i \in DOMAIN orders /\ IsOpen(i)
           record(i) == [book[i] EXCEPT !.asked = @ \/ asked(i)]
<1>1. ASSUME NEW i \in 1..Len(book)
      PROVE  record(i) \in OrderRecord /\ Alike(book[i], record(i))
  <2>1. (book[i].asked \/ asked(i)) \in BOOLEAN
    OBVIOUS
  <2>2. book[i] \in OrderRecord
    OBVIOUS
  <2>3. QED
    BY <2>1, <2>2 DEF OrderRecord, Alike
<1> HIDE DEF record
<1>2. CancelOpenOrders(book) = [i \in 1..Len(book) |-> record(i)]
  BY DEF CancelOpenOrders, record
<1>3. CancelOpenOrders(book) \in Seq(OrderRecord) /\ Len(CancelOpenOrders(book)) = Len(book)
  BY <1>1, <1>2, IsASeq
<1>4. QED
  BY <1>1, <1>2, <1>3 DEF Same

LEMMA PlacedAdds ==
  ASSUME NEW book \in Seq(OrderRecord), NEW role \in {"open", "close", "tp"},
         NEW size \in 1..Amount
  PROVE  Adds(book, Placed(book, role, size), role)
<1> DEFINE record == [role |-> role, size |-> size, filled |-> 0, state |-> "pending",
                      attached |-> FALSE, asked |-> FALSE]
<1>1. record \in OrderRecord
  BY SizeAssumption DEF OrderRecord, Live
<1>2. record.role = role /\ record.state = "pending"
  OBVIOUS
<1> HIDE DEF record
<1>3. Placed(book, role, size) = Append(book, record)
  BY DEF Placed, record
<1>4. QED
  BY <1>1, <1>2, <1>3 DEF Adds, Alike

LEMMA SameAdds ==
  ASSUME NEW book \in Seq(OrderRecord), NEW same, NEW new, NEW role,
         Same(book, same), Adds(same, new, role)
  PROVE  Adds(book, new, role)
BY DEF Same, Adds, Alike

\* While no close order is known there is as much to close as the entry filled.
LEMMA Amounts ==
  ASSUME TypeOK
  PROVE  /\ OpenFilledAmount \in 0..Amount
         /\ openOrder = None => OpenFilledAmount = 0
         /\ closeOrder = None => AmountToClose = OpenFilledAmount
<1>1. openOrder # None => orders[openOrder] \in OrderRecord
  BY DEF TypeOK
<1>2. QED
  BY <1>1, SizeAssumption DEF OpenFilledAmount, AmountToClose, Executed, Attached, OrderRecord, None

LEMMA CloseBegins ==
  ASSUME TypeOK, closeOrder = None,
         NEW book \in Seq(OrderRecord), NEW o, NEW t, Known(book, o, None, t),
         BeginClose(book)
  PROVE  /\ orders' \in Seq(OrderRecord) /\ Len(orders') \in Nat
         /\ Len(orders') >= Len(book)
         /\ Known(orders', o, closeOrder', t)
<1> DEFINE same == CancelOpenOrders(book)
<1>1. Same(book, same)
  BY CancelledSame
<1>2. same \in Seq(OrderRecord) /\ Known(same, o, None, t) /\ Len(same) = Len(book)
  BY <1>1, KnownSame DEF Same
<1> HIDE DEF same
<1>3. CASE AmountToClose >= MinOrder
  <2>1. AmountToClose \in 1..Amount
    BY <1>3, Amounts, SizeAssumption
  <2>2. orders' = Placed(same, "close", AmountToClose) /\ closeOrder' = Len(book) + 1
    BY <1>3 DEF BeginClose, same
  <2>3. Adds(same, orders', "close")
    BY <1>2, <2>1, <2>2, PlacedAdds
  <2>4. Known(orders', o, Len(orders'), t)
    BY <1>2, <2>3, KnownClose
  <2>5. QED
    BY <1>2, <2>2, <2>3, <2>4 DEF Adds
<1>4. CASE ~(AmountToClose >= MinOrder)
  BY <1>2, <1>4 DEF BeginClose, same
<1>5. QED
  BY <1>3, <1>4

\* The end of a tick: what it began, or the end of the executor as failed.
LEMMA TickEnds ==
  ASSUME TypeOK, ~terminated, NEW why \in CloseType \cup {"none"}, EndTick(why)
  PROVE  /\ status' \in {"RUNNING", "SHUTTING_DOWN", "TERMINATED"}
         /\ closeType' \in CloseType \cup {"none"}
         /\ terminated' \in BOOLEAN
         /\ status' = "RUNNING" => why = "none"
         /\ status' = "TERMINATED" => terminated' /\ closeType' = "FAILED"
BY DEF EndTick, Stop, TypeOK, CloseType

LEMMA TimeLimitChecked ==
  ASSUME TypeOK, closeOrder = None, ~terminated,
         NEW book \in Seq(OrderRecord), NEW o, NEW t, Known(book, o, None, t),
         ThenTimeLimit(book)
  PROVE  /\ orders' \in Seq(OrderRecord) /\ Len(orders') >= Len(book)
         /\ Known(orders', o, closeOrder', t)
         /\ \E why \in CloseType \cup {"none"} :
              EndTick(why) /\ (why = "none" => closeOrder' = None)
<1>1. CASE expired
  BY <1>1, CloseBegins DEF ThenTimeLimit, CloseType
<1>2. CASE ~expired
  BY <1>2 DEF ThenTimeLimit
<1>3. QED
  BY <1>1, <1>2
-------------------------------------------------------------------------------
(***************************************************************************)
(* A tick of the control loop.                                             *)
(***************************************************************************)
\* What a step that may place orders owes to the invariant, but for the end.
Places ==
  /\ orders' \in Seq(OrderRecord) /\ Len(orders') >= Len(orders)
  /\ KnownInv'

\* The references of a known book are ids of its orders.
LEMMA KnownReferences ==
  ASSUME Places
  PROVE  {openOrder', closeOrder', takeProfit'} \subseteq DOMAIN orders' \cup {None}
BY DEF Places, KnownInv, Known, None

LEMMA RunningTickPlaces ==
  ASSUME TypeInv, KnownInv, RunningTick
  PROVE  /\ Places
         /\ \E why \in CloseType \cup {"none"} :
              EndTick(why) /\ (why = "none" => closeOrder' = None)
<1>1. /\ TypeOK /\ closeOrder = None /\ ~terminated /\ orders \in Seq(OrderRecord)
      /\ Len(orders) \in Nat /\ Known(orders, openOrder, None, takeProfit)
  BY DEF TypeInv, RunningTick, Tick, KnownInv, TypeOK
<1>2. CASE Enter
  <2> DEFINE book == Placed(orders, "open", Amount)
  <2>1. Adds(orders, book, "open")
    BY <1>1, PlacedAdds, SizeAssumption
  <2>2. /\ book \in Seq(OrderRecord) /\ Len(book) = Len(orders) + 1
        /\ openOrder' = Len(book) /\ takeProfit' = takeProfit
    BY <1>2, <2>1 DEF Enter, Adds
  <2>3. Known(book, openOrder', None, takeProfit')
    BY <1>1, <1>2, <2>1, <2>2, KnownEntry DEF Enter
  <2>4. ThenTimeLimit(book)
    BY <1>2 DEF Enter
  <2> HIDE DEF book
  <2>5. QED
    BY <1>1, <2>2, <2>3, <2>4, TimeLimitChecked DEF Places, KnownInv
<1>3. CASE StayOut
  <2>1. CASE openOrder = None /\ ThenTimeLimit(orders)
    BY <1>1, <1>3, <2>1, TimeLimitChecked DEF StayOut, Places, KnownInv
  <2>2. CASE Attached(openOrder) /\ ThenTimeLimit(Withdraw(orders, openOrder))
    <3> DEFINE book == Withdraw(orders, openOrder)
    <3>1. openOrder \in 1..Len(orders)
      BY <1>1, <2>2 DEF Attached, Known, None
    <3>2. Same(orders, book)
      BY <1>1, <3>1, WithdrawnSame
    <3>3. book \in Seq(OrderRecord) /\ Len(book) = Len(orders) /\ Known(book, openOrder, None, takeProfit)
      BY <1>1, <3>2, KnownSame DEF Same
    <3> HIDE DEF book
    <3>4. ThenTimeLimit(book)
      BY <2>2 DEF book
    <3>5. QED
      BY <1>1, <1>3, <3>3, <3>4, TimeLimitChecked DEF StayOut, Places, KnownInv
  <2>3. QED
    BY <1>3, <2>1, <2>2 DEF StayOut
<1>4. CASE HitTarget
  BY <1>1, <1>4, CloseBegins DEF HitTarget, Places, KnownInv, CloseType
<1>5. CASE HitStop
  BY <1>1, <1>5, CloseBegins DEF HitStop, Places, KnownInv, CloseType
<1>6. CASE PlaceTakeProfit
  <2> DEFINE book == Placed(orders, "tp", AmountToClose)
  <2>1. AmountToClose \in 1..Amount
    BY <1>1, <1>6, Amounts, SizeAssumption DEF PlaceTakeProfit, EntryCanBeClosed
  <2>2. Adds(orders, book, "tp")
    BY <1>1, <2>1, PlacedAdds
  <2>3. /\ book \in Seq(OrderRecord) /\ Len(book) = Len(orders) + 1
        /\ takeProfit' = Len(book) /\ openOrder' = openOrder
    BY <1>6, <2>2 DEF PlaceTakeProfit, Adds
  <2>4. Known(book, openOrder', None, takeProfit')
    BY <1>1, <1>6, <2>2, <2>3, KnownTakeProfit DEF PlaceTakeProfit
  <2>5. ThenTimeLimit(book)
    BY <1>6 DEF PlaceTakeProfit
  <2> HIDE DEF book
  <2>6. QED
    BY <1>1, <2>3, <2>4, <2>5, TimeLimitChecked DEF Places, KnownInv
<1>7. CASE WithdrawTakeProfit
  <2> DEFINE book == Withdraw(orders, takeProfit)
  <2>1. takeProfit \in 1..Len(orders)
    BY <1>1, <1>7 DEF WithdrawTakeProfit, IsOpen, Attached, Known, None
  <2>2. Same(orders, book)
    BY <1>1, <2>1, WithdrawnSame
  <2>3. book \in Seq(OrderRecord) /\ Len(book) = Len(orders) /\ Known(book, openOrder, None, takeProfit)
    BY <1>1, <2>2, KnownSame DEF Same
  <2> HIDE DEF book
  <2>4. ThenTimeLimit(book)
    BY <1>7 DEF WithdrawTakeProfit, book
  <2>5. QED
    BY <1>1, <1>7, <2>3, <2>4, TimeLimitChecked DEF WithdrawTakeProfit, Places, KnownInv
<1>8. CASE Watch
  BY <1>1, <1>8, TimeLimitChecked DEF Watch, Places, KnownInv
<1>9. QED
  BY <1>2, <1>3, <1>4, <1>5, <1>6, <1>7, <1>8 DEF RunningTick
-------------------------------------------------------------------------------
(***************************************************************************)
(* The events of an order.                                                 *)
(***************************************************************************)
\* What the event of order i owes: orders that only go on, known after it.
Happens ==
  /\ orders' \in Seq(OrderRecord) /\ Len(orders') = Len(orders)
  /\ \A j \in 1..Len(orders) :
       orders'[j].role = orders[j].role /\ (Alive(orders'[j]) => Alive(orders[j]))
  /\ KnownInv'

LEMMA AdvanceHappens ==
  ASSUME TypeOK, NEW i \in 1..Len(orders), Advances(orders, orders', i), KnownInv'
  PROVE  Happens
BY DEF Happens, Advances

LEMMA AnnouncedAdvances ==
  ASSUME TypeOK, NEW i \in 1..Len(orders), NEW record \in OrderRecord,
         Announce(i, record), record.role = orders[i].role,
         Alive(record) => Alive(orders[i]),
         orders[i].state = "filled" => record.state = "filled"
  PROVE  Advances(orders, orders', i) /\ orders'[i].state = record.state
<1> DEFINE new == [record EXCEPT !.attached = @ \/ Listens(i)]
<1>1. (record.attached \/ Listens(i)) \in BOOLEAN
  OBVIOUS
<1>2. new \in OrderRecord /\ new.role = record.role /\ new.state = record.state
      /\ new.filled = record.filled /\ new.size = record.size
  BY <1>1 DEF OrderRecord
<1>3. orders' = [orders EXCEPT ![i] = new]
  BY DEF Announce
<1> HIDE DEF new
<1>4. orders' \in Seq(OrderRecord) /\ Len(orders') = Len(orders)
  BY <1>2, <1>3, ExceptSeq DEF TypeOK
<1>5. orders'[i] = new /\ \A j \in 1..Len(orders) : j # i => orders'[j] = orders[j]
  BY <1>3 DEF TypeOK
<1>6. QED
  BY <1>2, <1>4, <1>5 DEF Advances, Alive

\* The end of an order by cancellation or failure.
LEMMA EndedAdvances ==
  ASSUME TypeOK, NEW i \in 1..Len(orders), NEW end \in {"canceled", "failed"},
         orders[i].state \in Live, orders' = [orders EXCEPT ![i].state = end]
  PROVE  Advances(orders, orders', i) /\ ~Alive(orders'[i]) /\ orders'[i].state # "filled"
<1> DEFINE new == [orders[i] EXCEPT !.state = end]
<1>1. orders[i] \in OrderRecord
  BY DEF TypeOK
<1>2. new \in OrderRecord /\ new.role = orders[i].role /\ new.state = end
  BY <1>1 DEF OrderRecord, Ended
<1>3. orders' = [orders EXCEPT ![i] = new]
  OBVIOUS
<1> HIDE DEF new
<1>4. orders' \in Seq(OrderRecord) /\ Len(orders') = Len(orders)
  BY <1>2, <1>3, ExceptSeq DEF TypeOK
<1>5. orders'[i] = new /\ \A j \in 1..Len(orders) : j # i => orders'[j] = orders[j]
  BY <1>3 DEF TypeOK
<1>6. QED
  BY <1>2, <1>4, <1>5 DEF Advances, Alive, Live

LEMMA EventHappens ==
  ASSUME TypeOK, KnownInv, NEW i \in DOMAIN orders, OrderEvent(i)
  PROVE  Happens
<1>1. /\ i \in 1..Len(orders) /\ orders[i] \in OrderRecord /\ orders \in Seq(OrderRecord)
      /\ Len(orders) \in Nat /\ Known(orders, openOrder, closeOrder, takeProfit)
  BY DEF TypeOK, KnownInv
<1>2. CASE OrderCreated(i)
  <2> DEFINE record == [orders[i] EXCEPT !.state = "open"]
  <2>1. /\ record \in OrderRecord /\ record.role = orders[i].role
        /\ Alive(record) => Alive(orders[i])
        /\ orders[i].state = "filled" => record.state = "filled"
    BY <1>1, <1>2 DEF OrderCreated, OrderRecord, Alive, Live
  <2>2. Announce(i, record)
    BY <1>2 DEF OrderCreated
  <2> HIDE DEF record
  <2>3. Advances(orders, orders', i)
    BY <1>1, <2>1, <2>2, AnnouncedAdvances
  <2>4. KnownInv'
    BY <1>1, <1>2, <2>3, KnownAdvances DEF OrderCreated, KnownInv, referenceVars
  <2>5. QED
    BY <1>1, <2>3, <2>4, AdvanceHappens
<1>3. CASE OrderFilled(i)
  <2> DEFINE record == [orders[i] EXCEPT !.filled = @ + 1]
  <2>1. orders[i].filled + 1 \in 0..Amount /\ orders[i].filled \in Nat /\ orders[i].size \in Nat
    BY <1>1, <1>3, SizeAssumption DEF OrderFilled, OrderRecord
  <2>2. /\ record \in OrderRecord /\ record.role = orders[i].role
        /\ record.state = orders[i].state /\ record.size = orders[i].size
        /\ record.filled = orders[i].filled + 1
    BY <1>1, <2>1 DEF OrderRecord
  <2>3. Alive(record) => Alive(orders[i])
    BY <2>1, <2>2 DEF Alive
  <2>4. Announce(i, record)
    BY <1>3 DEF OrderFilled
  <2> HIDE DEF record
  <2>5. Advances(orders, orders', i)
    BY <1>1, <2>2, <2>3, <2>4, AnnouncedAdvances
  <2>6. KnownInv'
    BY <1>1, <1>3, <2>5, KnownAdvances DEF OrderFilled, KnownInv, referenceVars
  <2>7. QED
    BY <1>1, <2>5, <2>6, AdvanceHappens
<1>4. CASE OrderCompleted(i)
  <2> DEFINE record == [orders[i] EXCEPT !.state = "filled"]
  <2>1. /\ record \in OrderRecord /\ record.role = orders[i].role /\ record.state = "filled"
        /\ Alive(record) => Alive(orders[i])
    BY <1>1 DEF OrderRecord, Alive, Live, Ended
  <2>2. Announce(i, record)
    BY <1>4 DEF OrderCompleted
  <2> HIDE DEF record
  <2>3. Advances(orders, orders', i) /\ orders'[i].state = "filled"
    BY <1>1, <2>1, <2>2, AnnouncedAdvances
  <2>4. Known(orders', openOrder, closeOrder, takeProfit) /\ orders' \in Seq(OrderRecord)
    BY <1>1, <2>3, KnownAdvances DEF Advances
  <2>5. KnownInv'
    <3>1. CASE Listens(i) /\ i = takeProfit
      BY <1>1, <1>4, <2>3, <2>4, <3>1, KnownCompleted DEF OrderCompleted, KnownInv, None
    <3>2. CASE ~(Listens(i) /\ i = takeProfit)
      BY <1>4, <2>4, <3>2 DEF OrderCompleted, KnownInv
    <3>3. QED
      BY <3>1, <3>2
  <2>6. QED
    BY <1>1, <2>3, <2>5, AdvanceHappens
<1>5. CASE OrderCancelled(i) \/ OrderFailed(i)
  <2>1. /\ \E end \in {"canceled", "failed"} : orders' = [orders EXCEPT ![i].state = end]
        /\ orders[i].state \in Live
        /\ openOrder' = Drop(openOrder, i) /\ closeOrder' = Drop(closeOrder, i)
        /\ takeProfit' = Drop(takeProfit, i)
    BY <1>5 DEF OrderCancelled, OrderFailed
  <2>2. Advances(orders, orders', i) /\ ~Alive(orders'[i]) /\ orders'[i].state # "filled"
    BY <1>1, <2>1, EndedAdvances
  <2>3. /\ Known(orders', openOrder, closeOrder, takeProfit)
        /\ orders' \in Seq(OrderRecord) /\ i \in 1..Len(orders')
    BY <1>1, <2>2, KnownAdvances DEF Advances
  <2>4. /\ openOrder' = openOrder \/ (openOrder = i /\ openOrder' = None)
        /\ closeOrder' = closeOrder \/ (closeOrder = i /\ closeOrder' = None)
        /\ takeProfit' = takeProfit \/ (takeProfit = i /\ takeProfit' = None)
    BY <2>1 DEF Drop
  <2>5. Known(orders', openOrder', closeOrder', takeProfit')
    BY <2>2, <2>3, <2>4, KnownDropped
  <2>6. KnownInv'
    BY <2>5 DEF KnownInv
  <2>7. QED
    BY <1>1, <2>2, <2>6, AdvanceHappens
<1>6. QED
  BY <1>2, <1>3, <1>4, <1>5 DEF OrderEvent
-------------------------------------------------------------------------------
(***************************************************************************)
(* The invariant.                                                          *)
(***************************************************************************)
\* Every live order is a market close whose place the take profit took.
NothingLeft ==
  \A i \in 1..Len(orders) :
    Alive(orders[i]) =>
      orders[i].role = "close" /\ closeOrder # None /\ orders[closeOrder].role = "tp"

LEMMA NothingLeftMeans ==
  ASSUME TypeOK
  PROVE  NothingLeftBehind /\ status = "TERMINATED" /\ closeType \notin {"FAILED", "POSITION_HOLD"}
           => NothingLeft
BY DEF NothingLeft, NothingLeftBehind, Unfinished, Alive, TypeOK

LEMMA NothingLeftNext ==
  ASSUME TypeOK', status' = "TERMINATED" => closeType' \in {"FAILED", "POSITION_HOLD"} \/ NothingLeft'
  PROVE  NothingLeftBehind'
BY DEF NothingLeft, NothingLeftBehind, Unfinished, Alive, TypeOK

\* When all the orders it knows are done, an executor may end.
LEMMA CompletedLeavesNothing ==
  ASSUME TypeOK, KnownInv, AllOrdersCompleted
  PROVE  NothingLeft
<1> SUFFICES ASSUME NEW i \in 1..Len(orders), Alive(orders[i])
             PROVE  orders[i].role = "close" /\ closeOrder # None /\ orders[closeOrder].role = "tp"
  BY DEF NothingLeft
<1>1. i \notin {openOrder, closeOrder, takeProfit}
  <2>1. ~IsDone(i)
    <3>1. orders[i] \in OrderRecord
      BY DEF TypeOK
    <3>2. orders[i].filled \in Nat /\ orders[i].size \in Nat
      BY <3>1, SizeAssumption DEF OrderRecord
    <3>3. orders[i].filled # orders[i].size /\ orders[i].state \in Live
      BY <3>2 DEF Alive
    <3>4. QED
      BY <3>3 DEF IsDone, IsFilled, Live, Ended
  <2>2. i # None
    BY DEF None
  <2>3. QED
    BY <2>1, <2>2 DEF AllOrdersCompleted, References
<1>2. QED
  BY <1>1 DEF KnownInv, Known

LEMMA InitInv == Init => Inv
<1> SUFFICES ASSUME Init PROVE Inv
  OBVIOUS
<1>1. orders \in Seq(OrderRecord) /\ DOMAIN orders = {}
  BY DEF Init
<1>2. TypeInv
  BY <1>1, RetryAssumption DEF Init, TypeInv, TypeOK, None
<1>3. KnownInv
  BY DEF Init, KnownInv, Known, None
<1>4. EndInv
  BY DEF Init, EndInv, NothingLeftBehind
<1>5. QED
  BY <1>2, <1>3, <1>4 DEF Inv

\* A step that leaves the orders and the references alone keeps them known.
LEMMA UntouchedKnown ==
  ASSUME TypeOK, KnownInv, UNCHANGED <<referenceVars, orders>>
  PROVE  KnownInv' /\ (NothingLeft => NothingLeft')
BY DEF KnownInv, NothingLeft, referenceVars

LEMMA CancelledKnown ==
  ASSUME TypeOK, KnownInv, orders' = CancelOpenOrders(orders), UNCHANGED referenceVars
  PROVE  KnownInv' /\ orders' \in Seq(OrderRecord) /\ DOMAIN orders' = DOMAIN orders
<1>1. orders \in Seq(OrderRecord) /\ Same(orders, orders')
  BY CancelledSame DEF TypeOK
<1>2. Known(orders', openOrder, closeOrder, takeProfit)
  BY <1>1, KnownSame DEF KnownInv
<1>3. QED
  BY <1>1, <1>2 DEF Same, KnownInv, referenceVars

LEMMA RunningTickInv ==
  ASSUME Inv, RunningTick
  PROVE  Inv'
<1>1. TypeOK /\ TypeInv /\ KnownInv /\ ~terminated
  BY DEF Inv, TypeInv, RunningTick, Tick
<1>2. PICK why \in CloseType \cup {"none"} :
        Places /\ EndTick(why) /\ (why = "none" => closeOrder' = None)
  BY <1>1, RunningTickPlaces
<1>3. /\ status' \in {"RUNNING", "SHUTTING_DOWN", "TERMINATED"}
      /\ closeType' \in CloseType \cup {"none"} /\ terminated' \in BOOLEAN
      /\ status' = "RUNNING" => closeOrder' = None
      /\ status' = "TERMINATED" => terminated' /\ closeType' = "FAILED"
  BY <1>1, <1>2, TickEnds
<1>4. loop' = "between" /\ retries' = retries /\ held' = held /\ expired' = expired
  BY DEF RunningTick, Tick
<1>5. DOMAIN orders \subseteq DOMAIN orders' /\ orders' \in Seq(OrderRecord)
  BY <1>1, <1>2 DEF Places, TypeOK
<1>6. TypeInv'
  BY <1>1, <1>2, <1>3, <1>4, <1>5, KnownReferences DEF TypeInv, TypeOK
<1>7. EndInv'
  BY <1>3, <1>4 DEF EndInv, NothingLeftBehind
<1>8. QED
  BY <1>2, <1>6, <1>7 DEF Inv, Places

LEMMA CloseAgainInv ==
  ASSUME Inv, CloseAgain
  PROVE  Inv'
<1>1. /\ TypeOK /\ KnownInv /\ orders \in Seq(OrderRecord) /\ Len(orders) \in Nat
      /\ status = "SHUTTING_DOWN" /\ ~terminated
      /\ loop' = "sleeping" /\ retries' = retries + 1
      /\ UNCHANGED <<status, closeType, terminated, held, openOrder, takeProfit, expired>>
  BY DEF Inv, TypeInv, TypeOK, CloseAgain, ShutdownTick, Tick
<1>2. Places
  <2>1. CASE closeOrder = None
    BY <1>1, <2>1, CloseBegins DEF CloseAgain, Places, KnownInv
  <2>2. CASE closeOrder # None
    BY <1>1, <2>2 DEF CloseAgain, Places, KnownInv
  <2>3. QED
    BY <2>1, <2>2
<1>3. DOMAIN orders \subseteq DOMAIN orders' /\ orders' \in Seq(OrderRecord)
  BY <1>1, <1>2 DEF Places, TypeOK
<1>4. TypeInv'
  BY <1>1, <1>2, <1>3, KnownReferences DEF TypeInv, TypeOK
<1>5. EndInv'
  BY <1>1 DEF EndInv, NothingLeftBehind
<1>6. QED
  BY <1>2, <1>4, <1>5 DEF Inv, Places

\* The steps that change no order: they start, wait, stop or end the executor.
LEMMA QuietInv ==
  ASSUME Inv,
         OnStart \/ HoldPosition \/ Finish \/ EvaluateMaxRetries \/ LoopEnds
           \/ EarlyStop \/ TimePasses
  PROVE  Inv'
<1>1. TypeOK /\ KnownInv /\ EndInv /\ (status = "RUNNING" => closeOrder = None)
  BY DEF Inv, TypeInv
<1>2. UNCHANGED <<referenceVars, orders>>
  BY DEF OnStart, HoldPosition, Finish, EvaluateMaxRetries, LoopEnds, EarlyStop, TimePasses
<1>3. KnownInv' /\ (NothingLeft => NothingLeft')
  BY <1>1, <1>2, UntouchedKnown
<1>4. CASE OnStart
  <2>1. TypeInv'
    BY <1>1, <1>4 DEF OnStart, Stop, TypeInv, TypeOK, CloseType, referenceVars
  <2>2. orders = <<>>
    BY <1>1, <1>4 DEF OnStart, EndInv
  <2>3. NothingLeft
    BY <2>2 DEF NothingLeft
  <2>4. NothingLeftBehind'
    BY <1>3, <2>1, <2>3, NothingLeftNext DEF TypeInv
  <2>5. EndInv'
    BY <1>1, <1>2, <1>4, <2>2, <2>4 DEF OnStart, Stop, EndInv
  <2>6. QED
    BY <1>3, <2>1, <2>5 DEF Inv
<1>5. CASE HoldPosition \/ Finish
  <2>1. status = "SHUTTING_DOWN" /\ status' = "TERMINATED" /\ terminated' /\ loop' = "sleeping"
    BY <1>5 DEF HoldPosition, Finish, ShutdownTick, Stop
  <2>2. held' \subseteq DOMAIN orders /\ closeType' \in CloseType \cup {"none"}
    BY <1>1, <1>5 DEF HoldPosition, Finish, Stop, TypeOK, CloseType, IsFilled, Attached, None
  <2>3. TypeInv'
    BY <1>1, <1>2, <1>5, <2>1, <2>2 DEF HoldPosition, Finish, Stop, TypeInv, TypeOK, referenceVars
  <2>4. NothingLeft
    BY <1>1, <1>5, CompletedLeavesNothing DEF HoldPosition, Finish
  <2>5. NothingLeftBehind'
    BY <1>3, <2>3, <2>4, NothingLeftNext DEF TypeInv
  <2>6. QED
    BY <1>3, <2>1, <2>3, <2>5 DEF Inv, EndInv
<1>6. CASE EvaluateMaxRetries \/ LoopEnds \/ TimePasses
  <2>1. TypeInv'
    BY <1>1, <1>2, <1>6
    DEF EvaluateMaxRetries, LoopEnds, TimePasses, executorVars, Stop, TypeInv, TypeOK, CloseType,
        referenceVars
  <2>2. \/ status' = "TERMINATED" /\ closeType' = "FAILED" /\ terminated'
        \/ UNCHANGED <<status, closeType, terminated>>
    BY <1>6 DEF EvaluateMaxRetries, LoopEnds, TimePasses, executorVars, Stop
  <2>3. loop' # "starting" \/ loop' = loop
    BY <1>6 DEF EvaluateMaxRetries, LoopEnds, TimePasses, executorVars
  <2>4. NothingLeftBehind'
    BY <1>1, <1>3, <2>1, <2>2, NothingLeftMeans, NothingLeftNext DEF TypeInv, EndInv
  <2>5. QED
    BY <1>1, <1>2, <1>3, <2>1, <2>2, <2>3, <2>4 DEF Inv, EndInv
<1>7. CASE EarlyStop
  <2>1. TypeInv'
    BY <1>1, <1>2, <1>7 DEF EarlyStop, TypeInv, TypeOK, CloseType, referenceVars
  <2>2. EndInv'
    BY <1>1, <1>7 DEF EarlyStop, EndInv, NothingLeftBehind
  <2>3. QED
    BY <1>3, <2>1, <2>2 DEF Inv
<1>8. QED
  BY <1>4, <1>5, <1>6, <1>7

\* The steps that ask to cancel: the shutdown that waits, and the forced stop.
LEMMA CancellingInv ==
  ASSUME Inv, WaitForOrders \/ ForceStop
  PROVE  Inv'
<1>1. TypeOK /\ EndInv /\ KnownInv /\ (status = "RUNNING" => closeOrder = None)
  BY DEF Inv, TypeInv
<1>2. orders' = CancelOpenOrders(orders) /\ UNCHANGED referenceVars
  BY DEF WaitForOrders, ForceStop, referenceVars
<1>3. KnownInv' /\ orders' \in Seq(OrderRecord) /\ DOMAIN orders' = DOMAIN orders
  BY <1>1, <1>2, CancelledKnown
<1>4. CASE WaitForOrders
  <2>1. TypeInv'
    BY <1>1, <1>2, <1>3, <1>4 DEF WaitForOrders, ShutdownTick, TypeInv, TypeOK, referenceVars
  <2>2. EndInv'
    BY <1>4 DEF WaitForOrders, ShutdownTick, EndInv, NothingLeftBehind
  <2>3. QED
    BY <1>3, <2>1, <2>2 DEF Inv
<1>5. CASE ForceStop
  <2>1. closeType' \in {"FAILED", "POSITION_HOLD"} /\ status' = "TERMINATED" /\ terminated'
    BY <1>5 DEF ForceStop, Stop
  <2>2. held' \subseteq DOMAIN orders
    BY <1>1, <1>5 DEF ForceStop, TypeOK, References
  <2>3. TypeInv'
    BY <1>1, <1>2, <1>3, <1>5, <2>1, <2>2
    DEF ForceStop, Stop, TypeInv, TypeOK, CloseType, referenceVars
  <2>4. orders = <<>> => orders' = <<>>
    BY <1>3
  <2>5. EndInv'
    BY <1>1, <1>5, <2>1, <2>4 DEF ForceStop, EndInv, NothingLeftBehind
  <2>6. QED
    BY <1>3, <2>3, <2>5 DEF Inv
<1>6. QED
  BY <1>4, <1>5

LEMMA EventInv ==
  ASSUME Inv, NEW i \in DOMAIN orders, OrderEvent(i)
  PROVE  Inv'
<1>1. TypeOK /\ EndInv /\ KnownInv /\ (status = "RUNNING" => closeOrder = None)
  BY DEF Inv, TypeInv
<1>2. Happens
  BY <1>1, EventHappens
<1>3. orders' \in Seq(OrderRecord) /\ DOMAIN orders' = DOMAIN orders
  BY <1>1, <1>2 DEF Happens, TypeOK
<1>4. /\ UNCHANGED <<terminated, loop, held, expired>>
      /\ retries' \in Nat
      /\ \/ UNCHANGED <<status, closeType>>
         \/ ~terminated /\ status' = "SHUTTING_DOWN" /\ closeType' = "TAKE_PROFIT"
      /\ status' = "RUNNING" => closeOrder' = None
      /\ terminated => closeOrder' = closeOrder
  BY <1>1
  DEF OrderEvent, OrderCreated, OrderFilled, OrderCompleted, OrderCancelled, OrderFailed,
      executorVars, referenceVars, TypeOK, Listens, Drop
<1>5. {openOrder', closeOrder', takeProfit'} \subseteq DOMAIN orders' \cup {None}
  BY <1>2, <1>3 DEF Happens, KnownInv, Known, None
<1>6. TypeInv'
  BY <1>1, <1>3, <1>4, <1>5 DEF TypeInv, TypeOK, CloseType
<1>7. terminated /\ NothingLeft => NothingLeft'
  BY <1>1, <1>2, <1>4 DEF Happens, NothingLeft, KnownInv, Known, None
<1>8. NothingLeftBehind'
  BY <1>1, <1>4, <1>6, <1>7, NothingLeftMeans, NothingLeftNext DEF TypeInv, EndInv
<1>9. EndInv'
  BY <1>1, <1>3, <1>4, <1>8 DEF EndInv
<1>10. QED
  BY <1>2, <1>6, <1>9 DEF Inv, Happens

LEMMA NextInv == Inv /\ [Next]_vars => Inv'
<1> SUFFICES ASSUME Inv, [Next]_vars PROVE Inv'
  OBVIOUS
<1>1. CASE RunningTick
  BY <1>1, RunningTickInv
<1>2. CASE CloseAgain
  BY <1>2, CloseAgainInv
<1>3. CASE OnStart \/ HoldPosition \/ Finish \/ EvaluateMaxRetries \/ LoopEnds
             \/ EarlyStop \/ TimePasses
  BY <1>3, QuietInv
<1>4. CASE WaitForOrders \/ ForceStop
  BY <1>4, CancellingInv
<1>5. CASE \E i \in DOMAIN orders : OrderEvent(i)
  BY <1>5, EventInv
<1>6. CASE UNCHANGED vars
  BY <1>6
  DEF vars, executorVars, referenceVars, Inv, TypeInv, TypeOK, KnownInv, EndInv,
      NothingLeftBehind, Unfinished
<1>7. QED
  BY <1>1, <1>2, <1>3, <1>4, <1>5, <1>6 DEF Next, ControlLoop

LEMMA InvAlways == Spec => []Inv
BY InitInv, NextInv, PTL DEF Spec
-------------------------------------------------------------------------------
(***************************************************************************)
(* The theorems.                                                           *)
(***************************************************************************)
\* The state of the executor is well typed: above all, every order it sends has a size
\* between one lot and the entry's.
THEOREM TypeCorrect == Spec => []TypeOK
<1>1. Inv => TypeOK
  BY DEF Inv, TypeInv
<1>2. QED
  BY <1>1, InvAlways, PTL

\* The executor never has two live orders of one kind, and knows every live one, but for
\* a market close whose place the completed take profit took.
THEOREM OrdersKnown == Spec => [](OneOrderOfAKind /\ NoOrphan)
<1>1. ASSUME Inv PROVE OneOrderOfAKind /\ NoOrphan
  <2>1. \A i : i \in Unfinished <=> i \in 1..Len(orders) /\ Alive(orders[i])
    BY <1>1 DEF Inv, TypeInv, TypeOK, Unfinished, Alive
  <2>2. Known(orders, openOrder, closeOrder, takeProfit)
    BY <1>1 DEF Inv, KnownInv
  <2>3. OneOrderOfAKind
    BY <2>1, <2>2 DEF Known, OneOrderOfAKind
  <2>4. ASSUME NEW i \in Unfinished \ References
        PROVE  orders[i].role = "close" /\ closeOrder # None /\ orders[closeOrder].role = "tp"
    BY <2>1, <2>2, <2>4 DEF Known, References, None
  <2>5. QED
    BY <2>3, <2>4 DEF NoOrphan
<1>2. QED
  BY <1>1, InvAlways, PTL

\* Two orders of one kind are never alive at once.
THEOREM OneOfAKind == Spec => []OneOrderOfAKind
<1>1. OneOrderOfAKind /\ NoOrphan => OneOrderOfAKind
  OBVIOUS
<1>2. QED
  BY <1>1, OrdersKnown, PTL

\* An executor that ends by itself leaves no live order behind (with that exception).
THEOREM EndsClean == Spec => []NothingLeftBehind
<1>1. Inv => NothingLeftBehind
  BY DEF Inv, EndInv
<1>2. QED
  BY <1>1, InvAlways, PTL

\* An executor that ended places no order, whatever stops it gets afterwards.
THEOREM StoppedPlacesNothing == Spec => NoOrderAfterStop
<1>1. ASSUME Inv, [Next]_vars
      PROVE  [terminated => Len(orders') = Len(orders)]_vars
  <2> SUFFICES ASSUME terminated PROVE Len(orders') = Len(orders)
    OBVIOUS
  <2>1. TypeOK /\ KnownInv
    BY <1>1 DEF Inv, TypeInv
  <2>2. CASE \E i \in DOMAIN orders : OrderEvent(i)
    BY <2>1, <2>2, EventHappens DEF Happens
  <2>3. CASE ForceStop
    BY <2>1, <2>3, CancelledSame DEF ForceStop, Same, TypeOK
  <2>4. CASE UNCHANGED orders
    BY <2>4
  <2>5. QED
    BY <1>1, <2>2, <2>3, <2>4
    DEF Next, ControlLoop, OnStart, RunningTick, WaitForOrders, HoldPosition, Finish, CloseAgain,
        EvaluateMaxRetries, LoopEnds, EarlyStop, TimePasses, ShutdownTick, Tick, vars
<1>2. QED
  BY <1>1, InvAlways, PTL DEF Spec, NoOrderAfterStop
-------------------------------------------------------------------------------
(***************************************************************************)
(* ExecutorLifecycle.                                                      *)
(***************************************************************************)
lifecycleVars == <<status, closeType, terminated, held>>

LEMMA LifecycleStutters ==
  ASSUME UNCHANGED lifecycleVars
  PROVE  UNCHANGED Lifecycle!executorVars
BY DEF lifecycleVars, Lifecycle!executorVars

\* A tick hits a barrier, gives up or changes nothing that is promised.
LEMMA RunningTickLifecycle ==
  ASSUME RunningTick
  PROVE  [Lifecycle!Next]_(Lifecycle!executorVars)
<1>1. ~terminated /\ status = "RUNNING" /\ held' = held
  BY DEF RunningTick, Tick
<1>2. PICK why \in Lifecycle!Barriers \cup {"none"} : EndTick(why)
  BY DEF RunningTick, Enter, StayOut, HitTarget, HitStop, PlaceTakeProfit, WithdrawTakeProfit,
         Watch, ThenTimeLimit, Lifecycle!Barriers
<1>3. CASE Stop("FAILED")
  BY <1>1, <1>3 DEF Stop, Lifecycle!Next, Lifecycle!OwnStep, Lifecycle!GiveUp, Lifecycle!Terminate
<1>4. CASE why = "none" /\ status' = "RUNNING" /\ UNCHANGED <<closeType, terminated>>
  BY <1>1, <1>4, LifecycleStutters DEF lifecycleVars
<1>5. CASE why # "none" /\ status' = "SHUTTING_DOWN" /\ closeType' = why /\ UNCHANGED terminated
  <2>1. why \in Lifecycle!Barriers
    BY <1>5
  <2>2. Lifecycle!HitBarrier
    BY <1>1, <1>5, <2>1 DEF Lifecycle!HitBarrier
  <2>3. QED
    BY <2>2 DEF Lifecycle!Next, Lifecycle!OwnStep
<1>6. QED
  BY <1>2, <1>3, <1>4, <1>5 DEF EndTick

LEMMA ControlLoopLifecycle ==
  ASSUME Inv, ControlLoop
  PROVE  [Lifecycle!Next]_(Lifecycle!executorVars)
<1>1. CASE OnStart
  <2>1. held = {}
    BY <1>1 DEF OnStart, Inv, TypeInv, TypeOK, EndInv
  <2>2. CASE UNCHANGED <<status, closeType, terminated>>
    BY <1>1, <2>2, LifecycleStutters DEF OnStart, lifecycleVars
  <2>3. CASE \E why \in {"EXPIRED", "INSUFFICIENT_BALANCE"} : Stop(why)
    <3>1. Lifecycle!Abandon
      BY <1>1, <2>1, <2>3 DEF OnStart, Stop, Lifecycle!Abandon, Lifecycle!Terminate
    <3>2. QED
      BY <3>1 DEF Lifecycle!Next, Lifecycle!OwnStep
  <2>4. QED
    BY <1>1, <2>2, <2>3 DEF OnStart
<1>2. CASE RunningTick
  BY <1>2, RunningTickLifecycle
<1>3. CASE WaitForOrders \/ CloseAgain \/ LoopEnds
  BY <1>3, LifecycleStutters DEF WaitForOrders, CloseAgain, LoopEnds, lifecycleVars
<1>4. CASE HoldPosition
  <2>1. Lifecycle!Hold
    BY <1>4 DEF HoldPosition, ShutdownTick, Tick, Stop, Lifecycle!Hold, Lifecycle!Terminate
  <2>2. QED
    BY <2>1 DEF Lifecycle!Next, Lifecycle!OwnStep
<1>5. CASE Finish
  <2>1. Lifecycle!Finish
    BY <1>5 DEF Finish, ShutdownTick, Tick, Stop, Lifecycle!Finish, Lifecycle!Terminate
  <2>2. QED
    BY <2>1 DEF Lifecycle!Next, Lifecycle!OwnStep
<1>6. CASE EvaluateMaxRetries
  <2>1. CASE Stop("FAILED")
    BY <1>6, <2>1
    DEF EvaluateMaxRetries, Stop, Lifecycle!Next, Lifecycle!OwnStep, Lifecycle!GiveUp,
        Lifecycle!Terminate
  <2>2. CASE UNCHANGED <<status, closeType, terminated>>
    BY <1>6, <2>2, LifecycleStutters DEF EvaluateMaxRetries, lifecycleVars
  <2>3. QED
    BY <1>6, <2>1, <2>2 DEF EvaluateMaxRetries
<1>7. QED
  BY <1>1, <1>2, <1>3, <1>4, <1>5, <1>6 DEF ControlLoop

LEMMA EventLifecycle ==
  ASSUME NEW i \in DOMAIN orders, OrderEvent(i)
  PROVE  [Lifecycle!Next]_(Lifecycle!executorVars)
<1>1. CASE UNCHANGED lifecycleVars
  BY <1>1, LifecycleStutters
<1>2. CASE /\ ~terminated /\ status' = "SHUTTING_DOWN" /\ closeType' = "TAKE_PROFIT"
           /\ UNCHANGED <<terminated, held>>
  BY <1>2
  DEF Lifecycle!Next, Lifecycle!OwnStep, Lifecycle!HitBarrier, Lifecycle!Barriers
<1>3. QED
  BY <1>1, <1>2
  DEF OrderEvent, OrderCreated, OrderFilled, OrderCompleted, OrderCancelled, OrderFailed,
      executorVars, lifecycleVars, Listens

\* The executor implements ExecutorLifecycle: what its orchestrator, its strategy and its
\* controller may rely on, for every amount, number of retries and choice of switches.
THEOREM ImplementsLifecycle == Spec => LifecycleSpec
<1>1. Init => Lifecycle!Init
  BY DEF Init, Lifecycle!Init
<1>2. ASSUME Inv, [Next]_vars
      PROVE  [Lifecycle!Next]_(Lifecycle!executorVars)
  <2>1. CASE ControlLoop
    BY <1>2, <2>1, ControlLoopLifecycle
  <2>2. CASE EarlyStop
    BY <2>2 DEF EarlyStop, Lifecycle!Next, Lifecycle!EarlyStop
  <2>3. CASE ForceStop
    BY <2>3
    DEF ForceStop, Stop, Lifecycle!Next, Lifecycle!ForceStop, Lifecycle!Terminate
  <2>4. CASE TimePasses \/ UNCHANGED vars
    BY <2>4, LifecycleStutters DEF TimePasses, executorVars, vars, lifecycleVars
  <2>5. CASE \E i \in DOMAIN orders : OrderEvent(i)
    BY <2>5, EventLifecycle
  <2>6. QED
    BY <1>2, <2>1, <2>2, <2>3, <2>4, <2>5 DEF Next
<1>3. QED
  BY <1>1, <1>2, InvAlways, PTL DEF Spec, LifecycleSpec, Lifecycle!Spec
-------------------------------------------------------------------------------
(***************************************************************************)
(* Market closes.                                                          *)
(***************************************************************************)
Closes(book) == {i \in 1..Len(book) : book[i].role = "close"}

\* While the executor is alive, the close order it knows was not cancelled and has not
\* failed.
CloseKnown == ~terminated /\ closeOrder # None => orders[closeOrder].state \in Live \cup {"filled"}

\* The first market close takes the executor out of RUNNING, each further one counts as
\* a retry, and the retries are looked at before the next tick.
ClosesCounted ==
  /\ status = "RUNNING" => Closes(orders) = {}
  /\ Cardinality(Closes(orders)) <= retries + 1
  /\ ~terminated /\ loop # "sleeping" => Cardinality(Closes(orders)) <= MaxRetries + 1
  /\ Cardinality(Closes(orders)) <= MaxRetries + 2

CloseInv == CloseKnown /\ ClosesCounted

LEMMA ClosesFinite ==
  ASSUME NEW book \in Seq(OrderRecord)
  PROVE  IsFiniteSet(Closes(book)) /\ Cardinality(Closes(book)) \in Nat
<1>1. IsFiniteSet(1..Len(book))
  BY FS_Interval
<1>2. Closes(book) \subseteq 1..Len(book)
  BY DEF Closes
<1>3. QED
  BY <1>1, <1>2, FS_Subset, FS_CardinalityType

\* The orders keep their roles: as many closes.
LEMMA ClosesSame ==
  ASSUME NEW book \in Seq(OrderRecord), NEW new, Same(book, new)
  PROVE  Closes(new) = Closes(book)
BY DEF Closes, Same, Alike

LEMMA ClosesPlaced ==
  ASSUME NEW book \in Seq(OrderRecord), NEW role \in {"open", "close", "tp"},
         NEW size \in 1..Amount
  PROVE  /\ Placed(book, role, size)[Len(book) + 1].state = "pending"
         /\ role # "close" => Closes(Placed(book, role, size)) = Closes(book)
         /\ role = "close" =>
              Cardinality(Closes(Placed(book, role, size))) = Cardinality(Closes(book)) + 1
<1> DEFINE new == Placed(book, role, size)
<1>1. Adds(book, new, role)
  BY PlacedAdds
<1> HIDE DEF new
<1>2. /\ Len(new) = Len(book) + 1 /\ new[Len(book) + 1].role = role /\ Len(book) \in Nat
      /\ new[Len(book) + 1].state = "pending"
      /\ \A i \in 1..Len(book) : new[i].role = book[i].role
  BY <1>1 DEF Adds, Alike
<1>3. role # "close" => Closes(new) = Closes(book)
  BY <1>2 DEF Closes
<1>4. role = "close" => Closes(new) = Closes(book) \cup {Len(book) + 1}
  BY <1>2 DEF Closes
<1>5. Len(book) + 1 \notin Closes(book)
  BY <1>2 DEF Closes
<1>6. role = "close" => Cardinality(Closes(new)) = Cardinality(Closes(book)) + 1
  BY <1>4, <1>5, ClosesFinite, FS_AddElement
<1>7. QED
  BY <1>2, <1>3, <1>6 DEF new

\* What beginning to close does: one market close at most, and if there is one it is the
\* close order.
LEMMA CloseBeginsOne ==
  ASSUME TypeOK, closeOrder = None, NEW book \in Seq(OrderRecord), BeginClose(book)
  PROVE  /\ Cardinality(Closes(orders')) \in Nat
         /\ Cardinality(Closes(orders')) <= Cardinality(Closes(book)) + 1
         /\ closeOrder' # None => orders'[closeOrder'].state = "pending"
<1> DEFINE same == CancelOpenOrders(book)
<1>1. Same(book, same)
  BY CancelledSame
<1>2. same \in Seq(OrderRecord) /\ Len(same) = Len(book) /\ Closes(same) = Closes(book)
  BY <1>1, ClosesSame DEF Same
<1> HIDE DEF same
<1>3. Cardinality(Closes(book)) \in Nat
  BY ClosesFinite
<1>4. CASE AmountToClose >= MinOrder
  <2>1. AmountToClose \in 1..Amount
    BY <1>4, Amounts, SizeAssumption
  <2>2. orders' = Placed(same, "close", AmountToClose) /\ closeOrder' = Len(same) + 1
    BY <1>2, <1>4 DEF BeginClose, same
  <2>3. orders' \in Seq(OrderRecord)
    BY <1>2, <2>1, <2>2, PlacedAdds DEF Adds
  <2>4. QED
    BY <1>2, <1>3, <2>1, <2>2, <2>3, ClosesPlaced, ClosesFinite
<1>5. CASE ~(AmountToClose >= MinOrder)
  BY <1>2, <1>3, <1>5 DEF BeginClose, same
<1>6. QED
  BY <1>4, <1>5

\* The same of a tick: it began to close, or it closed nothing.
TickCloses ==
  \/ /\ Cardinality(Closes(orders))' <= 1
     /\ closeOrder' # None => orders'[closeOrder'].state = "pending"
     /\ status' # "RUNNING"
  \/ Closes(orders)' = {} /\ closeOrder' = None

LEMMA TimeLimitCloses ==
  ASSUME TypeOK, closeOrder = None, NEW book \in Seq(OrderRecord), Closes(book) = {},
         ThenTimeLimit(book)
  PROVE  TickCloses
<1>1. Cardinality(Closes(book)) = 0
  BY FS_EmptySet
<1>2. CASE expired
  <2>1. EndTick("TIME_LIMIT") /\ BeginClose(book)
    BY <1>2 DEF ThenTimeLimit
  <2>2. status' # "RUNNING"
    BY <2>1 DEF EndTick, Stop
  <2>3. /\ Cardinality(Closes(orders')) <= 0 + 1
        /\ closeOrder' # None => orders'[closeOrder'].state = "pending"
    BY <1>1, <2>1, CloseBeginsOne
  <2>4. QED
    BY <2>2, <2>3 DEF TickCloses
<1>3. CASE ~expired
  BY <1>3 DEF ThenTimeLimit, TickCloses
<1>4. QED
  BY <1>2, <1>3

LEMMA RunningTickCloses ==
  ASSUME TypeInv, KnownInv, Closes(orders) = {}, RunningTick
  PROVE  TickCloses
<1>1. TypeOK /\ closeOrder = None /\ orders \in Seq(OrderRecord)
  BY DEF TypeInv, RunningTick, TypeOK
<1>2. CASE Enter
  <2>1. Amount \in 1..Amount
    BY SizeAssumption
  <2>2. Placed(orders, "open", Amount) \in Seq(OrderRecord)
    BY <1>1, <2>1, PlacedAdds DEF Adds
  <2>3. Closes(Placed(orders, "open", Amount)) = {}
    BY <1>1, <2>1, ClosesPlaced
  <2>4. QED
    BY <1>1, <1>2, <2>2, <2>3, TimeLimitCloses DEF Enter
<1>3. CASE PlaceTakeProfit
  <2>1. AmountToClose \in 1..Amount
    BY <1>1, <1>3, Amounts, SizeAssumption DEF PlaceTakeProfit, EntryCanBeClosed
  <2>2. /\ Placed(orders, "tp", AmountToClose) \in Seq(OrderRecord)
        /\ Closes(Placed(orders, "tp", AmountToClose)) = {}
    BY <1>1, <2>1, PlacedAdds, ClosesPlaced DEF Adds
  <2>3. QED
    BY <1>1, <1>3, <2>2, TimeLimitCloses DEF PlaceTakeProfit
<1>4. ASSUME NEW i \in {openOrder, takeProfit}, Attached(i), ThenTimeLimit(Withdraw(orders, i))
      PROVE  TickCloses
  <2>1. i \in 1..Len(orders)
    BY <1>1, <1>4 DEF TypeOK, Attached, None
  <2>2. Same(orders, Withdraw(orders, i))
    BY <1>1, <2>1, WithdrawnSame
  <2>3. Withdraw(orders, i) \in Seq(OrderRecord) /\ Closes(Withdraw(orders, i)) = {}
    BY <1>1, <2>2, ClosesSame DEF Same
  <2>4. QED
    BY <1>1, <1>4, <2>3, TimeLimitCloses
<1>5. CASE StayOut
  BY <1>1, <1>4, <1>5, TimeLimitCloses DEF StayOut
<1>6. CASE WithdrawTakeProfit
  BY <1>4, <1>6 DEF WithdrawTakeProfit, IsOpen
<1>7. CASE Watch
  BY <1>1, <1>7, TimeLimitCloses DEF Watch
<1>8. CASE HitTarget \/ HitStop
  <2>1. PICK why \in {"TAKE_PROFIT", "STOP_LOSS", "TRAILING_STOP"} :
          BeginClose(orders) /\ EndTick(why)
    BY <1>8 DEF HitTarget, HitStop
  <2>2. status' # "RUNNING"
    BY <2>1 DEF EndTick, Stop
  <2>3. Cardinality(Closes(orders)) = 0
    BY FS_EmptySet
  <2>4. /\ Cardinality(Closes(orders')) <= 0 + 1
        /\ closeOrder' # None => orders'[closeOrder'].state = "pending"
    BY <1>1, <2>1, <2>3, CloseBeginsOne
  <2>5. QED
    BY <2>2, <2>4 DEF TickCloses
<1>9. QED
  BY <1>2, <1>3, <1>5, <1>6, <1>7, <1>8 DEF RunningTick
-------------------------------------------------------------------------------
(***************************************************************************)
(* CloseInv is kept.                                                       *)
(***************************************************************************)
LEMMA RunningTickCloseInv ==
  ASSUME Inv, CloseInv, RunningTick
  PROVE  CloseInv'
<1>1. /\ TypeOK /\ TypeInv /\ KnownInv /\ Closes(orders) = {} /\ retries \in Nat
      /\ retries' = retries /\ loop' = "between"
  BY DEF Inv, TypeInv, TypeOK, CloseInv, ClosesCounted, RunningTick, Tick
<1>2. TickCloses
  BY <1>1, RunningTickCloses
<1>3. Cardinality({}) = 0 /\ MaxRetries \in Nat
  BY FS_EmptySet, RetryAssumption
<1>4. Places
  BY <1>1, RunningTickPlaces
<1>5. Cardinality(Closes(orders')) \in Nat /\ Cardinality(Closes(orders')) <= 1
  BY <1>2, <1>3, <1>4, ClosesFinite DEF TickCloses, Places
<1>6. ClosesCounted'
  <2>1. status' = "RUNNING" => Closes(orders') = {}
    BY <1>2 DEF TickCloses
  <2>2. QED
    BY <1>1, <1>3, <1>5, <2>1 DEF ClosesCounted
<1>7. CloseKnown'
  BY <1>2 DEF TickCloses, CloseKnown, Live
<1>8. QED
  BY <1>6, <1>7 DEF CloseInv

LEMMA CloseAgainCloseInv ==
  ASSUME Inv, CloseInv, CloseAgain
  PROVE  CloseInv'
<1>1. /\ TypeOK /\ orders \in Seq(OrderRecord) /\ retries \in Nat /\ MaxRetries \in Nat
      /\ status = "SHUTTING_DOWN" /\ status' = status /\ ~terminated /\ terminated' = terminated
      /\ loop = "between" /\ loop' = "sleeping" /\ retries' = retries + 1
  BY RetryAssumption DEF Inv, TypeInv, TypeOK, CloseAgain, ShutdownTick, Tick
<1>2. CASE closeOrder = None /\ BeginClose(orders)
  <2>1. /\ Cardinality(Closes(orders')) <= Cardinality(Closes(orders)) + 1
        /\ closeOrder' # None => orders'[closeOrder'].state = "pending"
    BY <1>1, <1>2, CloseBeginsOne
  <2>2. orders' \in Seq(OrderRecord)
    BY <1>1, <1>2, CloseBegins DEF Inv, KnownInv
  <2>3. Cardinality(Closes(orders)) \in Nat /\ Cardinality(Closes(orders')) \in Nat
    BY <1>1, <2>2, ClosesFinite
  <2>4. ClosesCounted'
    BY <1>1, <2>1, <2>3 DEF CloseInv, ClosesCounted
  <2>5. QED
    BY <2>1, <2>4 DEF CloseInv, CloseKnown, Live
<1>3. CASE UNCHANGED <<orders, closeOrder>>
  <2>1. Cardinality(Closes(orders)) \in Nat
    BY <1>1, ClosesFinite
  <2>2. QED
    BY <1>1, <1>3, <2>1 DEF CloseInv, CloseKnown, ClosesCounted
<1>4. QED
  BY <1>2, <1>3 DEF CloseAgain

\* The steps that leave the roles of the orders and the close order alone.
LEMMA OtherCloseInv ==
  ASSUME Inv, CloseInv,
         OnStart \/ WaitForOrders \/ HoldPosition \/ Finish \/ EvaluateMaxRetries \/ LoopEnds
           \/ EarlyStop \/ ForceStop \/ TimePasses
  PROVE  CloseInv'
<1>1. /\ TypeOK /\ orders \in Seq(OrderRecord) /\ retries \in Nat /\ MaxRetries \in Nat
      /\ Cardinality(Closes(orders)) \in Nat /\ KnownInv /\ EndInv
  BY ClosesFinite, RetryAssumption DEF Inv, TypeInv, TypeOK
<1>2. closeOrder' = closeOrder /\ retries' = retries
  BY DEF OnStart, WaitForOrders, HoldPosition, Finish, EvaluateMaxRetries, LoopEnds,
         EarlyStop, ForceStop, TimePasses, referenceVars, executorVars
<1>3. Same(orders, orders')
  <2>1. CASE orders' = CancelOpenOrders(orders)
    BY <1>1, <2>1, CancelledSame
  <2>2. CASE orders' = orders
    BY <1>1, <2>2 DEF Same, Alike
  <2>3. QED
    BY <2>1, <2>2 DEF OnStart, WaitForOrders, HoldPosition, Finish, EvaluateMaxRetries, LoopEnds,
         EarlyStop, ForceStop, TimePasses, referenceVars, executorVars
<1>4. Closes(orders') = Closes(orders)
  BY <1>1, <1>3, ClosesSame
<1>5. /\ status' = "RUNNING" => status = "RUNNING"
      /\ ~terminated' => ~terminated
  BY DEF OnStart, WaitForOrders, HoldPosition, Finish, EvaluateMaxRetries, LoopEnds,
         EarlyStop, ForceStop, TimePasses, referenceVars, executorVars, Stop, ShutdownTick
<1>6. closeOrder # None => orders'[closeOrder].state = orders[closeOrder].state
  BY <1>1, <1>3 DEF Same, Alike, TypeOK, None
<1>7. CloseKnown'
  BY <1>2, <1>5, <1>6 DEF CloseInv, CloseKnown
<1>8. ~terminated' /\ loop' # "sleeping" => Cardinality(Closes(orders)) <= MaxRetries + 1
  <2>1. CASE EvaluateMaxRetries
    BY <1>1, <2>1 DEF EvaluateMaxRetries, Stop, CloseInv, ClosesCounted
  <2>2. CASE loop' = loop \/ loop' = "sleeping"
    BY <1>5, <2>2 DEF CloseInv, ClosesCounted
  <2>3. CASE OnStart \/ LoopEnds
    BY <2>3 DEF OnStart, LoopEnds, CloseInv, ClosesCounted, Stop
  <2>4. QED
    BY <2>1, <2>2, <2>3
    DEF WaitForOrders, HoldPosition, Finish, EarlyStop, ForceStop, TimePasses, ShutdownTick,
        executorVars
<1>9. ClosesCounted'
  BY <1>1, <1>2, <1>4, <1>5, <1>8 DEF CloseInv, ClosesCounted
<1>10. QED
  BY <1>7, <1>9 DEF CloseInv

LEMMA EventCloseInv ==
  ASSUME Inv, CloseInv, NEW i \in DOMAIN orders, OrderEvent(i)
  PROVE  CloseInv'
<1>1. /\ TypeOK /\ KnownInv /\ orders \in Seq(OrderRecord) /\ retries \in Nat
      /\ MaxRetries \in Nat /\ Cardinality(Closes(orders)) \in Nat /\ i \in 1..Len(orders)
  BY ClosesFinite, RetryAssumption DEF Inv, TypeInv, TypeOK
<1>2. /\ orders' \in Seq(OrderRecord) /\ Len(orders') = Len(orders)
      /\ \A j \in 1..Len(orders) : orders'[j].role = orders[j].role
  BY <1>1, EventHappens DEF Happens
<1>3. Closes(orders') = Closes(orders)
  BY <1>2 DEF Closes
<1>4. /\ UNCHANGED <<terminated, loop>> /\ retries' \in Nat /\ retries' >= retries
      /\ status' = "RUNNING" => status = "RUNNING"
  BY <1>1
  DEF OrderEvent, OrderCreated, OrderFilled, OrderCompleted, OrderCancelled, OrderFailed,
      executorVars
<1>5. ClosesCounted'
  BY <1>1, <1>3, <1>4 DEF CloseInv, ClosesCounted
<1>6. CloseKnown'
  <2> SUFFICES ASSUME ~terminated', closeOrder' # None
               PROVE  orders'[closeOrder'].state \in Live \cup {"filled"}
    BY DEF CloseKnown
  <2>1. ~terminated
    BY <1>4
  <2>2. closeOrder # None => closeOrder \in 1..Len(orders) /\ orders[closeOrder].state \in Live \cup {"filled"}
    BY <1>1, <2>1 DEF CloseInv, CloseKnown, TypeOK, None
  <2>3. \A j \in 1..Len(orders) : orders[j] \in OrderRecord
    BY <1>1
  <2>4. CASE OrderCreated(i) \/ OrderFilled(i)
    <3>1. orders'[i].state = orders[i].state \/ orders'[i].state = "open"
      BY <1>1, <2>3, <2>4 DEF OrderCreated, OrderFilled, Announce, OrderRecord
    <3>2. \A j \in 1..Len(orders) : j # i => orders'[j] = orders[j]
      BY <1>1, <2>4 DEF OrderCreated, OrderFilled, Announce
    <3>3. closeOrder' = closeOrder
      BY <2>4 DEF OrderCreated, OrderFilled, referenceVars
    <3>4. QED
      BY <2>2, <3>1, <3>2, <3>3 DEF Live
  <2>5. CASE OrderCompleted(i)
    <3> DEFINE record == [orders[i] EXCEPT !.state = "filled"]
    <3>1. record \in OrderRecord /\ record.state = "filled" /\ record.role = orders[i].role
          /\ (Alive(record) => Alive(orders[i]))
      BY <1>1, <2>3 DEF OrderRecord, Alive, Live, Ended
    <3>2. Announce(i, record)
      BY <2>5 DEF OrderCompleted
    <3> HIDE DEF record
    <3>3. orders'[i].state = "filled" /\ \A j \in 1..Len(orders) : j # i => orders'[j] = orders[j]
      BY <1>1, <3>1, <3>2, AnnouncedAdvances DEF Advances
    <3>4. closeOrder' = closeOrder \/ closeOrder' = i
      BY <2>5 DEF OrderCompleted
    <3>5. QED
      BY <2>2, <3>3, <3>4
  <2>6. CASE OrderCancelled(i) \/ OrderFailed(i)
    <3>1. closeOrder' = Drop(closeOrder, i) /\ \A j \in 1..Len(orders) : j # i => orders'[j] = orders[j]
      BY <1>1, <2>6 DEF OrderCancelled, OrderFailed
    <3>2. closeOrder' = closeOrder /\ closeOrder # i
      BY <2>1, <3>1 DEF Drop, Listens, References, None
    <3>3. QED
      BY <2>2, <3>1, <3>2
  <2>7. QED
    BY <2>4, <2>5, <2>6 DEF OrderEvent
<1>7. QED
  BY <1>5, <1>6 DEF CloseInv

LEMMA CloseInvAlways == Spec => []CloseInv
<1>1. ASSUME Init PROVE CloseInv
  <2>1. Closes(orders) = {}
    BY <1>1 DEF Init, Closes
  <2>2. Cardinality(Closes(orders)) = 0
    BY <2>1, FS_EmptySet
  <2>3. QED
    BY <1>1, <2>1, <2>2, RetryAssumption DEF Init, CloseInv, CloseKnown, ClosesCounted, None
<1>2. ASSUME Inv, CloseInv, [Next]_vars PROVE CloseInv'
  <2>1. CASE RunningTick
    BY <1>2, <2>1, RunningTickCloseInv
  <2>2. CASE CloseAgain
    BY <1>2, <2>2, CloseAgainCloseInv
  <2>3. CASE OnStart \/ WaitForOrders \/ HoldPosition \/ Finish \/ EvaluateMaxRetries \/ LoopEnds
               \/ EarlyStop \/ ForceStop \/ TimePasses
    BY <1>2, <2>3, OtherCloseInv
  <2>4. CASE \E i \in DOMAIN orders : OrderEvent(i)
    BY <1>2, <2>4, EventCloseInv
  <2>5. CASE UNCHANGED vars
    BY <1>2, <2>5
    DEF vars, executorVars, referenceVars, CloseInv, CloseKnown, ClosesCounted
  <2>6. QED
    BY <1>2, <2>1, <2>2, <2>3, <2>4, <2>5 DEF Next, ControlLoop
<1>3. QED
  BY <1>1, <1>2, InvAlways, PTL DEF Spec

\* A close order that is over and not filled is never kept, so control_close_order does
\* not wait for it.
THEOREM DoneCloseFilled == Spec => []DoneCloseIsFilled
<1>1. ASSUME CloseInv PROVE DoneCloseIsFilled
  BY <1>1 DEF CloseInv, CloseKnown, DoneCloseIsFilled, IsDone, IsFilled, Live, Ended
<1>2. QED
  BY <1>1, CloseInvAlways, PTL

\* Whatever fails, an executor sends one market close more than its retries and the one
\* that began the shutdown at most.
THEOREM ClosesAreBounded == Spec => []ClosesBounded
<1>1. ASSUME Inv, CloseInv PROVE ClosesBounded
  <2>1. {i \in DOMAIN orders : orders[i].role = "close"} = Closes(orders)
    BY <1>1 DEF Closes, Inv, TypeInv, TypeOK
  <2>2. QED
    BY <1>1, <2>1 DEF ClosesBounded, CloseInv, ClosesCounted
<1>2. QED
  BY <1>1, InvAlways, CloseInvAlways, PTL
-------------------------------------------------------------------------------
(***************************************************************************)
(* What is traded, in sum.  The executor forgets an order that was         *)
(* cancelled or has failed, with what it had filled.  Of the others it     *)
(* knows one of each kind, and whatever closes was sent for an amount that *)
(* an entry had filled: so only what was forgotten, or two kinds of exits, *)
(* can add up to more than is meant.                                       *)
(***************************************************************************)
Lost(record) == record.state \in {"canceled", "failed"}

\* An entry filled as much.
Covers(book, n) == \E j \in 1..Len(book) : book[j].role = "open" /\ n <= book[j].filled

Covered(book) ==
  \A i \in 1..Len(book) :
    /\ book[i].filled <= book[i].size
    /\ book[i].role # "open" => Covers(book, book[i].size)

\* The orders that are not lost are known: one of each kind at most.
Kept(book, open, close, tp) ==
  /\ \A i \in 1..Len(book) : book[i].role = "open" /\ ~Lost(book[i]) => i = open
  /\ \A i \in 1..Len(book) : book[i].role = "tp" /\ ~Lost(book[i]) => i = tp
  /\ \A i \in 1..Len(book) :
       book[i].role = "close" /\ ~Lost(book[i]) =>
         close # None /\ (i = close \/ book[close].role = "tp")
  /\ \A i, j \in 1..Len(book) :
       /\ book[i].role = "close" /\ ~Lost(book[i])
       /\ book[j].role = "close" /\ ~Lost(book[j])
       => i = j

KeptInv == Kept(orders, openOrder, closeOrder, takeProfit) /\ Covered(orders)

AddsLot(book, new, role, size) ==
  /\ Adds(book, new, role)
  /\ new[Len(new)].size = size /\ new[Len(new)].filled = 0

\* Order i goes on and keeps what it filled.
Grows(book, new, i) ==
  /\ Advances(book, new, i)
  /\ new[i].size = book[i].size
  /\ book[i].filled <= new[i].filled /\ new[i].filled <= new[i].size
  /\ Lost(book[i]) => Lost(new[i])

\* The fields of a record of the book are numbers and words.
LEMMA RecordIs ==
  ASSUME NEW book \in Seq(OrderRecord)
  PROVE  /\ Len(book) \in Nat
         /\ \A i \in 1..Len(book) :
              /\ book[i] \in OrderRecord
              /\ book[i].role \in {"open", "close", "tp"}
              /\ book[i].size \in 1..Amount /\ book[i].size \in Nat
              /\ book[i].filled \in 0..Amount /\ book[i].filled \in Nat
<1>1. \A i \in 1..Len(book) : book[i] \in OrderRecord
  OBVIOUS
<1>2. QED
  BY <1>1, SizeAssumption DEF OrderRecord
-------------------------------------------------------------------------------
LEMMA CoveredSame ==
  ASSUME NEW book \in Seq(OrderRecord), NEW new, Same(book, new)
  PROVE  /\ \A n \in Nat : Covers(book, n) => Covers(new, n)
         /\ Covered(book) => Covered(new)
<1>1. \A n \in Nat : Covers(book, n) => Covers(new, n)
  BY DEF Covers, Same, Alike
<1>2. ASSUME Covered(book), NEW i \in 1..Len(new)
      PROVE  /\ new[i].filled <= new[i].size
             /\ new[i].role # "open" => Covers(new, new[i].size)
  <2>1. i \in 1..Len(book) /\ Alike(book[i], new[i]) /\ book[i].size \in Nat
    BY <1>2, RecordIs DEF Same
  <2>2. QED
    BY <1>1, <1>2, <2>1 DEF Covered, Alike
<1>3. QED
  BY <1>1, <1>2 DEF Covered

LEMMA CoveredAdds ==
  ASSUME NEW book \in Seq(OrderRecord), NEW new, NEW role, NEW size \in Nat,
         AddsLot(book, new, role, size)
  PROVE  /\ \A n \in Nat : Covers(book, n) => Covers(new, n)
         /\ Covered(book) /\ (role # "open" => Covers(book, size)) => Covered(new)
<1>0. /\ Len(book) \in Nat /\ Len(new) = Len(book) + 1
      /\ \A i \in 1..Len(book) : Alike(book[i], new[i])
      /\ new[Len(new)].role = role /\ new[Len(new)].size = size /\ new[Len(new)].filled = 0
  BY DEF AddsLot, Adds
<1>1. \A n \in Nat : Covers(book, n) => Covers(new, n)
  BY <1>0 DEF Covers, Alike
<1>2. ASSUME Covered(book), role # "open" => Covers(book, size), NEW i \in 1..Len(new)
      PROVE  /\ new[i].filled <= new[i].size
             /\ new[i].role # "open" => Covers(new, new[i].size)
  <2>1. CASE i = Len(new)
    BY <1>0, <1>1, <1>2, <2>1
  <2>2. CASE i # Len(new)
    <3>1. i \in 1..Len(book) /\ Alike(book[i], new[i]) /\ book[i].size \in Nat
      BY <1>0, <2>2, RecordIs
    <3>2. QED
      BY <1>1, <1>2, <3>1 DEF Covered, Alike
  <2>3. QED
    BY <2>1, <2>2
<1>3. QED
  BY <1>1, <1>2 DEF Covered

LEMMA CoveredGrows ==
  ASSUME NEW book \in Seq(OrderRecord), NEW new, NEW i \in 1..Len(book), Grows(book, new, i),
         Covered(book)
  PROVE  Covered(new)
<1>0. /\ Len(new) = Len(book) /\ new \in Seq(OrderRecord)
      /\ \A j \in 1..Len(book) :
           /\ new[j].role = book[j].role /\ new[j].size = book[j].size
           /\ book[j].filled <= new[j].filled
           /\ new[j].filled <= new[j].size
           /\ book[j].size \in Nat /\ book[j].filled \in Nat /\ new[j].filled \in Nat
  <2>1. Len(new) = Len(book) /\ new \in Seq(OrderRecord)
    BY DEF Grows, Advances
  <2>2. ASSUME NEW j \in 1..Len(book)
        PROVE  /\ new[j].role = book[j].role /\ new[j].size = book[j].size
               /\ book[j].filled <= new[j].filled
               /\ new[j].filled <= new[j].size
               /\ book[j].size \in Nat /\ book[j].filled \in Nat /\ new[j].filled \in Nat
    <3>1. book[j].size \in Nat /\ book[j].filled \in Nat /\ new[j].filled \in Nat
      BY <2>1, RecordIs
    <3>2. CASE j = i
      BY <3>1, <3>2 DEF Grows, Advances
    <3>3. CASE j # i
      BY <3>1, <3>3 DEF Grows, Advances, Covered
    <3>4. QED
      BY <3>2, <3>3
  <2>3. QED
    BY <2>1, <2>2
<1>1. ASSUME NEW n \in Nat, Covers(book, n) PROVE Covers(new, n)
  <2>1. PICK j \in 1..Len(book) : book[j].role = "open" /\ n <= book[j].filled
    BY <1>1 DEF Covers
  <2>2. n <= new[j].filled /\ new[j].role = "open" /\ j \in 1..Len(new)
    BY <1>0, <2>1
  <2>3. QED
    BY <2>2 DEF Covers
<1>2. QED
  BY <1>0, <1>1 DEF Covered
-------------------------------------------------------------------------------
LEMMA KeptSame ==
  ASSUME NEW book \in Seq(OrderRecord), NEW new, Same(book, new),
         NEW o, NEW c, NEW t, Kept(book, o, c, t), c \in 0..Len(book)
  PROVE  Kept(new, o, c, t)
BY DEF Kept, Same, Alike, Lost, None

LEMMA KeptEntry ==
  ASSUME NEW book \in Seq(OrderRecord), NEW new, Adds(book, new, "open"),
         NEW c, NEW t, Kept(book, None, c, t), c \in 0..Len(book)
  PROVE  Kept(new, Len(new), c, t)
BY DEF Kept, Adds, Alike, Lost, None

LEMMA KeptTakeProfit ==
  ASSUME NEW book \in Seq(OrderRecord), NEW new, Adds(book, new, "tp"),
         NEW o, Kept(book, o, None, None)
  PROVE  Kept(new, o, None, Len(new))
BY DEF Kept, Adds, Alike, Lost, None

LEMMA KeptClose ==
  ASSUME NEW book \in Seq(OrderRecord), NEW new, Adds(book, new, "close"),
         NEW o, NEW t, Kept(book, o, None, t)
  PROVE  Kept(new, o, Len(new), t)
BY DEF Kept, Adds, Alike, Lost, None

LEMMA KeptGrows ==
  ASSUME NEW book \in Seq(OrderRecord), NEW new, NEW i \in 1..Len(book),
         Grows(book, new, i), NEW o, NEW c, NEW t, Kept(book, o, c, t), c \in 0..Len(book)
  PROVE  Kept(new, o, c, t)
<1>1. /\ Len(new) = Len(book)
      /\ \A j \in 1..Len(book) :
           new[j].role = book[j].role /\ (Lost(book[j]) => Lost(new[j]))
  BY DEF Grows, Advances
<1>2. QED
  BY <1>1 DEF Kept, None

LEMMA KeptDropped ==
  ASSUME NEW book \in Seq(OrderRecord), NEW i \in 1..Len(book), Lost(book[i]),
         NEW o, NEW c, NEW t, Kept(book, o, c, t), Known(book, o, c, t),
         NEW o2, NEW c2, NEW t2,
         o2 = o \/ (o = i /\ o2 = None), c2 = c \/ (c = i /\ c2 = None),
         t2 = t \/ (t = i /\ t2 = None)
  PROVE  Kept(book, o2, c2, t2)
BY DEF Known, Kept, Lost, None

LEMMA KeptCompleted ==
  ASSUME NEW book \in Seq(OrderRecord), NEW o, NEW c, NEW t,
         Kept(book, o, c, t), Known(book, o, c, t), t # None
  PROVE  Kept(book, o, t, t)
BY DEF Known, Kept, Lost, None
-------------------------------------------------------------------------------
LEMMA PlacedAddsLot ==
  ASSUME NEW book \in Seq(OrderRecord), NEW role \in {"open", "close", "tp"},
         NEW size \in 1..Amount
  PROVE  AddsLot(book, Placed(book, role, size), role, size)
<1> DEFINE record == [role |-> role, size |-> size, filled |-> 0, state |-> "pending",
                      attached |-> FALSE, asked |-> FALSE]
<1>1. record.size = size /\ record.filled = 0
  OBVIOUS
<1> HIDE DEF record
<1>2. Placed(book, role, size) = Append(book, record)
  BY DEF Placed, record
<1>3. Adds(book, Placed(book, role, size), role)
  BY PlacedAdds
<1>4. Placed(book, role, size)[Len(Placed(book, role, size))] = record
  BY <1>2, <1>3 DEF Adds
<1>5. QED
  BY <1>1, <1>3, <1>4 DEF AddsLot

\* What is to be closed, while no close order is known, an entry has filled.
LEMMA EntryCovers ==
  ASSUME TypeOK, KnownInv, closeOrder = None, AmountToClose >= 1
  PROVE  AmountToClose \in 1..Amount /\ Covers(orders, AmountToClose)
<1>1. AmountToClose = OpenFilledAmount /\ OpenFilledAmount \in 1..Amount
  BY Amounts, SizeAssumption
<1>2. Attached(openOrder) /\ OpenFilledAmount = orders[openOrder].filled
  BY <1>1 DEF OpenFilledAmount, Executed
<1>3. openOrder \in 1..Len(orders) /\ orders[openOrder].role = "open"
  BY <1>2 DEF Attached, KnownInv, Known, None
<1>4. QED
  BY <1>1, <1>2, <1>3 DEF Covers

\* A book the executor may go on with: its lots are kept, and it covers the close.
Sound(book, o, t) ==
  /\ Kept(book, o, None, t) /\ Covered(book)
  /\ AmountToClose >= 1 => Covers(book, AmountToClose)

LEMMA SoundSame ==
  ASSUME TypeOK, closeOrder = None, NEW book \in Seq(OrderRecord), NEW new, Same(book, new),
         NEW o, NEW t, Sound(book, o, t)
  PROVE  Sound(new, o, t)
<1>1. AmountToClose \in Nat
  BY Amounts, SizeAssumption
<1>2. Kept(new, o, None, t)
  BY KeptSame DEF Sound, None
<1>3. QED
  BY <1>1, <1>2, CoveredSame DEF Sound

LEMMA CloseKeeps ==
  ASSUME TypeOK, closeOrder = None,
         NEW book \in Seq(OrderRecord), NEW o, NEW t, Sound(book, o, t),
         BeginClose(book)
  PROVE  Kept(orders', o, closeOrder', t) /\ Covered(orders')
<1> DEFINE same == CancelOpenOrders(book)
<1>1. Same(book, same)
  BY CancelledSame
<1>2. same \in Seq(OrderRecord) /\ Sound(same, o, t) /\ Len(same) = Len(book)
  BY <1>1, SoundSame DEF Same
<1> HIDE DEF same
<1>3. CASE AmountToClose >= MinOrder
  <2>1. AmountToClose \in 1..Amount /\ AmountToClose \in Nat /\ AmountToClose >= 1
    BY <1>3, Amounts, SizeAssumption
  <2>2. orders' = Placed(same, "close", AmountToClose) /\ closeOrder' = Len(book) + 1
    BY <1>3 DEF BeginClose, same
  <2>3. AddsLot(same, orders', "close", AmountToClose)
    BY <1>2, <2>1, <2>2, PlacedAddsLot
  <2>4. Adds(same, orders', "close") /\ Len(orders') = closeOrder'
    BY <1>2, <2>2, <2>3 DEF AddsLot, Adds
  <2>5. Kept(orders', o, Len(orders'), t)
    BY <1>2, <2>4, KeptClose DEF Sound
  <2>6. Covered(orders')
    BY <1>2, <2>1, <2>3, CoveredAdds DEF Sound
  <2>7. QED
    BY <2>4, <2>5, <2>6
<1>4. CASE ~(AmountToClose >= MinOrder)
  BY <1>2, <1>4 DEF BeginClose, same, Sound
<1>5. QED
  BY <1>3, <1>4

LEMMA TimeLimitKeeps ==
  ASSUME TypeOK, closeOrder = None,
         NEW book \in Seq(OrderRecord), NEW o, NEW t, Sound(book, o, t),
         ThenTimeLimit(book)
  PROVE  Kept(orders', o, closeOrder', t) /\ Covered(orders')
<1>1. CASE expired
  BY <1>1, CloseKeeps DEF ThenTimeLimit
<1>2. CASE ~expired
  BY <1>2 DEF ThenTimeLimit, Sound
<1>3. QED
  BY <1>1, <1>2

LEMMA OrdersSound ==
  ASSUME TypeOK, KnownInv, KeptInv, closeOrder = None
  PROVE  Sound(orders, openOrder, takeProfit)
BY EntryCovers DEF Sound, KeptInv

LEMMA RunningTickKeeps ==
  ASSUME Inv, KeptInv, RunningTick
  PROVE  KeptInv'
<1>1. TypeOK /\ KnownInv /\ closeOrder = None /\ orders \in Seq(OrderRecord) /\ Len(orders) \in Nat
  BY DEF Inv, TypeInv, RunningTick, TypeOK
<1>2. Sound(orders, openOrder, takeProfit)
  BY <1>1, OrdersSound
<1>3. AmountToClose = OpenFilledAmount /\ AmountToClose \in Nat
  BY <1>1, Amounts, SizeAssumption
<1>4. SUFFICES Kept(orders', openOrder', closeOrder', takeProfit') /\ Covered(orders')
  BY DEF KeptInv
<1>5. CASE Enter
  <2> DEFINE book == Placed(orders, "open", Amount)
  <2>1. Amount \in 1..Amount /\ Amount \in Nat
    BY SizeAssumption
  <2>2. AddsLot(orders, book, "open", Amount)
    BY <1>1, <2>1, PlacedAddsLot
  <2>3. openOrder = None /\ openOrder' = Len(orders) + 1 /\ takeProfit' = takeProfit
        /\ ThenTimeLimit(book)
    BY <1>5 DEF Enter
  <2> HIDE DEF book
  <2>4. Adds(orders, book, "open") /\ book \in Seq(OrderRecord) /\ openOrder' = Len(book)
    BY <2>2, <2>3 DEF AddsLot, Adds
  <2>5. Kept(book, Len(book), None, takeProfit)
    BY <1>1, <1>2, <2>3, <2>4, KeptEntry DEF Sound, None
  <2>6. Covered(book)
    BY <1>1, <1>2, <2>1, <2>2, CoveredAdds DEF Sound
  <2>7. AmountToClose = 0
    BY <1>1, <1>3, <2>3, Amounts
  <2>8. Sound(book, openOrder', takeProfit')
    BY <2>3, <2>4, <2>5, <2>6, <2>7 DEF Sound
  <2>9. QED
    BY <1>1, <2>3, <2>4, <2>8, TimeLimitKeeps
<1>6. ASSUME NEW i \in {openOrder, takeProfit}, Attached(i), ThenTimeLimit(Withdraw(orders, i)),
             UNCHANGED <<openOrder, takeProfit>>
      PROVE  Kept(orders', openOrder', closeOrder', takeProfit') /\ Covered(orders')
  <2> DEFINE book == Withdraw(orders, i)
  <2>1. i \in 1..Len(orders)
    BY <1>1, <1>6 DEF TypeOK, Attached, None
  <2>2. Same(orders, book)
    BY <1>1, <2>1, WithdrawnSame
  <2>3. ThenTimeLimit(book)
    BY <1>6
  <2> HIDE DEF book
  <2>4. book \in Seq(OrderRecord) /\ Sound(book, openOrder', takeProfit')
    BY <1>1, <1>2, <1>6, <2>2, SoundSame DEF Same
  <2>5. QED
    BY <1>1, <2>3, <2>4, TimeLimitKeeps
<1>7. CASE StayOut
  BY <1>1, <1>2, <1>6, <1>7, TimeLimitKeeps DEF StayOut
<1>8. CASE WithdrawTakeProfit
  BY <1>6, <1>8 DEF WithdrawTakeProfit, IsOpen
<1>9. CASE HitTarget \/ HitStop
  BY <1>1, <1>2, <1>9, CloseKeeps DEF HitTarget, HitStop
<1>10. CASE PlaceTakeProfit
  <2> DEFINE book == Placed(orders, "tp", AmountToClose)
  <2>1. AmountToClose \in 1..Amount /\ Covers(orders, AmountToClose)
    <3>1. AmountToClose >= 1
      BY <1>3, <1>10, SizeAssumption DEF PlaceTakeProfit, EntryCanBeClosed
    <3>2. QED
      BY <1>1, <3>1, EntryCovers
  <2>2. AddsLot(orders, book, "tp", AmountToClose)
    BY <1>1, <2>1, PlacedAddsLot
  <2>3. takeProfit = None /\ takeProfit' = Len(orders) + 1 /\ openOrder' = openOrder
        /\ ThenTimeLimit(book)
    BY <1>10 DEF PlaceTakeProfit
  <2> HIDE DEF book
  <2>4. Adds(orders, book, "tp") /\ book \in Seq(OrderRecord) /\ takeProfit' = Len(book)
    BY <2>2, <2>3 DEF AddsLot, Adds
  <2>5. Kept(book, openOrder, None, Len(book))
    BY <1>1, <1>2, <2>3, <2>4, KeptTakeProfit DEF Sound
  <2>6. Covered(book) /\ Covers(book, AmountToClose)
    BY <1>1, <1>2, <1>3, <2>1, <2>2, CoveredAdds DEF Sound
  <2>7. Sound(book, openOrder', takeProfit')
    BY <2>3, <2>4, <2>5, <2>6 DEF Sound
  <2>8. QED
    BY <1>1, <2>3, <2>4, <2>7, TimeLimitKeeps
<1>11. CASE Watch
  BY <1>1, <1>2, <1>11, TimeLimitKeeps DEF Watch
<1>12. QED
  BY <1>5, <1>7, <1>8, <1>9, <1>10, <1>11 DEF RunningTick

\* The steps that trade nothing and send nothing but, maybe, another market close.
LEMMA OtherKeeps ==
  ASSUME Inv, KeptInv,
         OnStart \/ WaitForOrders \/ HoldPosition \/ Finish \/ CloseAgain \/ EvaluateMaxRetries
           \/ LoopEnds \/ EarlyStop \/ ForceStop \/ TimePasses \/ UNCHANGED vars
  PROVE  KeptInv'
<1>1. TypeOK /\ KnownInv /\ orders \in Seq(OrderRecord) /\ closeOrder \in 0..Len(orders)
  BY DEF Inv, TypeInv, TypeOK, None
<1>2. CASE UNCHANGED <<referenceVars, orders>>
  BY <1>2 DEF KeptInv, referenceVars
<1>3. CASE orders' = CancelOpenOrders(orders) /\ UNCHANGED referenceVars
  <2>1. Same(orders, orders')
    BY <1>1, <1>3, CancelledSame
  <2>2. Kept(orders', openOrder, closeOrder, takeProfit)
    BY <1>1, <2>1, KeptSame DEF KeptInv
  <2>3. Covered(orders')
    BY <1>1, <2>1, CoveredSame DEF KeptInv
  <2>4. QED
    BY <1>3, <2>2, <2>3 DEF KeptInv, referenceVars
<1>4. CASE closeOrder = None /\ BeginClose(orders) /\ UNCHANGED <<openOrder, takeProfit>>
  BY <1>1, <1>4, OrdersSound, CloseKeeps DEF KeptInv
<1>5. QED
  BY <1>2, <1>3, <1>4
  DEF OnStart, WaitForOrders, HoldPosition, Finish, CloseAgain, EvaluateMaxRetries, LoopEnds,
      EarlyStop, ForceStop, TimePasses, vars, referenceVars

\* An event that is announced.
LEMMA AnnouncedGrows ==
  ASSUME TypeOK, NEW i \in 1..Len(orders), NEW record \in OrderRecord,
         Announce(i, record), record.role = orders[i].role,
         Alive(record) => Alive(orders[i]),
         orders[i].state = "filled" => record.state = "filled",
         record.size = orders[i].size, orders[i].filled <= record.filled,
         record.filled <= record.size, Lost(orders[i]) => Lost(record)
  PROVE  Grows(orders, orders', i)
<1> DEFINE new == [record EXCEPT !.attached = @ \/ Listens(i)]
<1>1. new.state = record.state /\ new.filled = record.filled /\ new.size = record.size
  BY DEF OrderRecord
<1>2. orders' = [orders EXCEPT ![i] = new]
  BY DEF Announce
<1> HIDE DEF new
<1>3. orders'[i] = new
  BY <1>2 DEF TypeOK
<1>4. Advances(orders, orders', i)
  BY AnnouncedAdvances
<1>5. QED
  BY <1>1, <1>3, <1>4 DEF Grows, Lost

LEMMA EndedGrows ==
  ASSUME TypeOK, Covered(orders), NEW i \in 1..Len(orders), NEW end \in {"canceled", "failed"},
         orders[i].state \in Live, orders' = [orders EXCEPT ![i].state = end]
  PROVE  Grows(orders, orders', i) /\ Lost(orders'[i])
<1>1. Advances(orders, orders', i)
  BY EndedAdvances
<1>2. orders[i] \in OrderRecord /\ orders[i].filled \in Nat
  BY RecordIs DEF TypeOK
<1>3. orders'[i] = [orders[i] EXCEPT !.state = end]
  BY DEF TypeOK
<1>4. /\ orders'[i].state = end /\ orders'[i].filled = orders[i].filled
      /\ orders'[i].size = orders[i].size
  BY <1>2, <1>3 DEF OrderRecord
<1>5. orders[i].filled <= orders[i].size /\ orders[i].filled <= orders[i].filled
  BY <1>2 DEF Covered
<1>6. QED
  BY <1>1, <1>4, <1>5 DEF Grows, Lost

LEMMA EventKeeps ==
  ASSUME Inv, KeptInv, NEW i \in DOMAIN orders, OrderEvent(i)
  PROVE  KeptInv'
<1>1. /\ TypeOK /\ orders \in Seq(OrderRecord) /\ i \in 1..Len(orders)
      /\ closeOrder \in 0..Len(orders)
      /\ Known(orders, openOrder, closeOrder, takeProfit)
      /\ Kept(orders, openOrder, closeOrder, takeProfit) /\ Covered(orders)
  BY DEF Inv, TypeInv, TypeOK, KnownInv, KeptInv, None
<1>2. /\ orders[i] \in OrderRecord /\ orders[i].filled \in Nat /\ orders[i].size \in Nat
      /\ orders[i].filled <= orders[i].size /\ orders[i].filled <= orders[i].filled
  BY <1>1, RecordIs DEF Covered
<1>3. ASSUME Grows(orders, orders', i)
      PROVE  /\ Kept(orders', openOrder, closeOrder, takeProfit) /\ Covered(orders')
             /\ Known(orders', openOrder, closeOrder, takeProfit)
             /\ orders' \in Seq(OrderRecord) /\ i \in 1..Len(orders')
  <2>1. Advances(orders, orders', i)
    BY <1>3 DEF Grows
  <2>2. QED
    BY <1>1, <1>3, <2>1, KeptGrows, CoveredGrows, KnownAdvances DEF Advances
<1>4. CASE OrderCreated(i)
  <2> DEFINE record == [orders[i] EXCEPT !.state = "open"]
  <2>1. /\ record \in OrderRecord /\ record.role = orders[i].role
        /\ Alive(record) => Alive(orders[i])
        /\ orders[i].state = "filled" => record.state = "filled"
        /\ record.size = orders[i].size /\ record.filled = orders[i].filled
        /\ ~Lost(orders[i])
    BY <1>2, <1>4 DEF OrderCreated, OrderRecord, Alive, Live, Lost
  <2>2. Announce(i, record)
    BY <1>4 DEF OrderCreated
  <2> HIDE DEF record
  <2>3. Grows(orders, orders', i)
    BY <1>1, <1>2, <2>1, <2>2, AnnouncedGrows
  <2>4. QED
    BY <1>3, <1>4, <2>3 DEF OrderCreated, KeptInv, referenceVars
<1>5. CASE OrderFilled(i)
  <2> DEFINE record == [orders[i] EXCEPT !.filled = @ + 1]
  <2>1. /\ orders[i].filled + 1 \in 0..Amount /\ orders[i].filled + 1 <= orders[i].size
        /\ orders[i].filled <= orders[i].filled + 1
    BY <1>2, <1>5, SizeAssumption DEF OrderFilled, OrderRecord
  <2>2. /\ record \in OrderRecord /\ record.role = orders[i].role
        /\ record.state = orders[i].state /\ record.size = orders[i].size
        /\ record.filled = orders[i].filled + 1
    BY <1>2, <2>1 DEF OrderRecord
  <2>3. Alive(record) => Alive(orders[i])
    BY <1>2, <2>2 DEF Alive
  <2>4. Announce(i, record)
    BY <1>5 DEF OrderFilled
  <2> HIDE DEF record
  <2>5. Grows(orders, orders', i)
    BY <1>1, <2>1, <2>2, <2>3, <2>4, AnnouncedGrows DEF Lost
  <2>6. QED
    BY <1>3, <1>5, <2>5 DEF OrderFilled, KeptInv, referenceVars
<1>6. CASE OrderCompleted(i)
  <2> DEFINE record == [orders[i] EXCEPT !.state = "filled"]
  <2>1. /\ record \in OrderRecord /\ record.role = orders[i].role /\ record.state = "filled"
        /\ Alive(record) => Alive(orders[i])
        /\ record.size = orders[i].size /\ record.filled = orders[i].filled
        /\ ~Lost(orders[i])
    BY <1>2, <1>6 DEF OrderCompleted, OrderRecord, Alive, Live, Ended, Lost
  <2>2. Announce(i, record)
    BY <1>6 DEF OrderCompleted
  <2> HIDE DEF record
  <2>3. Grows(orders, orders', i)
    BY <1>1, <1>2, <2>1, <2>2, AnnouncedGrows
  <2>4. CASE Listens(i) /\ i = takeProfit
    <3>1. takeProfit # None /\ closeOrder' = takeProfit
          /\ openOrder' = openOrder /\ takeProfit' = takeProfit
      BY <1>1, <1>6, <2>4 DEF OrderCompleted, None
    <3>2. Kept(orders', openOrder, takeProfit, takeProfit)
      BY <1>3, <2>3, <3>1, KeptCompleted
    <3>3. QED
      BY <1>3, <2>3, <3>1, <3>2 DEF KeptInv
  <2>5. CASE ~(Listens(i) /\ i = takeProfit)
    BY <1>3, <1>6, <2>3, <2>5 DEF OrderCompleted, KeptInv
  <2>6. QED
    BY <2>4, <2>5
<1>7. CASE OrderCancelled(i) \/ OrderFailed(i)
  <2>1. /\ \E end \in {"canceled", "failed"} : orders' = [orders EXCEPT ![i].state = end]
        /\ orders[i].state \in Live
        /\ openOrder' = Drop(openOrder, i) /\ closeOrder' = Drop(closeOrder, i)
        /\ takeProfit' = Drop(takeProfit, i)
    BY <1>7 DEF OrderCancelled, OrderFailed
  <2>2. Grows(orders, orders', i) /\ Lost(orders'[i])
    BY <1>1, <2>1, EndedGrows
  <2>3. /\ openOrder' = openOrder \/ (openOrder = i /\ openOrder' = None)
        /\ closeOrder' = closeOrder \/ (closeOrder = i /\ closeOrder' = None)
        /\ takeProfit' = takeProfit \/ (takeProfit = i /\ takeProfit' = None)
    BY <2>1 DEF Drop
  <2>4. Kept(orders', openOrder', closeOrder', takeProfit')
    BY <1>3, <2>2, <2>3, KeptDropped
  <2>5. QED
    BY <1>3, <2>2, <2>4 DEF KeptInv
<1>8. QED
  BY <1>4, <1>5, <1>6, <1>7 DEF OrderEvent

LEMMA KeptAlways == Spec => []KeptInv
<1>1. Init => KeptInv
  BY DEF Init, KeptInv, Kept, Covered, None
<1>2. ASSUME Inv, KeptInv, [Next]_vars PROVE KeptInv'
  <2>1. CASE RunningTick
    BY <1>2, <2>1, RunningTickKeeps
  <2>2. CASE \E i \in DOMAIN orders : OrderEvent(i)
    BY <1>2, <2>2, EventKeeps
  <2>3. QED
    BY <1>2, <2>1, <2>2, OtherKeeps DEF Next, ControlLoop
<1>3. QED
  BY <1>1, <1>2, InvAlways, PTL DEF Spec
-------------------------------------------------------------------------------
\* The orders of some roles, and what each filled.
Of(roles) == {i \in 1..Len(orders) : orders[i].role \in roles}
FilledLots == [i \in 1..Len(orders) |-> orders[i].filled]

LEMMA LotsAre ==
  ASSUME TypeOK, NEW roles
  PROVE  /\ Lots(roles) = SumFunctionOnSet(FilledLots, Of(roles))
         /\ IsFiniteSet(Of(roles)) /\ \A i \in Of(roles) : FilledLots[i] \in Nat
<1> DEFINE lots == [i \in {j \in DOMAIN orders : orders[j].role \in roles} |-> orders[i].filled]
<1>1. orders \in Seq(OrderRecord) /\ Len(orders) \in Nat /\ DOMAIN orders = 1..Len(orders)
  BY DEF TypeOK
<1>2. IsFiniteSet(Of(roles))
  <2>1. IsFiniteSet(1..Len(orders))
    BY <1>1, FS_Interval
  <2>2. Of(roles) \subseteq 1..Len(orders)
    BY DEF Of
  <2>3. QED
    BY <2>1, <2>2, FS_Subset
<1>3. \A i \in Of(roles) : FilledLots[i] \in Nat /\ FilledLots[i] \in Int
  <2>1. \A i \in 1..Len(orders) : orders[i].filled \in Nat
    BY <1>1, RecordIs
  <2>2. QED
    BY <2>1 DEF Of, FilledLots
<1>4. DOMAIN lots = Of(roles) /\ \A i \in Of(roles) : lots[i] = FilledLots[i]
  BY <1>1 DEF Of, FilledLots
<1>5. Lots(roles) = SumFunction(lots)
  BY DEF Lots
<1> HIDE DEF lots
<1>6. SumFunction(lots) = SumFunctionOnSet(lots, Of(roles))
  BY <1>4 DEF SumFunction
<1>7. SumFunctionOnSet(lots, Of(roles)) = SumFunctionOnSet(FilledLots, Of(roles))
  BY <1>2, <1>3, <1>4, SumExtensional
<1>8. QED
  BY <1>2, <1>3, <1>5, <1>6, <1>7

\* No order has more than the sum, and the sum is that of one order if no other filled.
LEMMA LotsOfOne ==
  ASSUME TypeOK, NEW roles, NEW i \in Of(roles)
  PROVE  /\ Lots(roles) \in Nat /\ orders[i].filled \in Nat
         /\ orders[i].filled <= Lots(roles)
         /\ (\A j \in Of(roles) : j # i => orders[j].filled = 0) => Lots(roles) = orders[i].filled
<1> DEFINE rest == Of(roles) \ {i}
           others == SumFunctionOnSet(FilledLots, rest)
<1>1. /\ Lots(roles) = SumFunctionOnSet(FilledLots, Of(roles))
      /\ IsFiniteSet(Of(roles)) /\ \A j \in Of(roles) : FilledLots[j] \in Nat
  BY LotsAre
<1>2. \A j \in Of(roles) : FilledLots[j] = orders[j].filled /\ FilledLots[j] \in Int
  BY <1>1 DEF FilledLots, Of
<1>3. IsFiniteSet(rest) /\ \A j \in rest : FilledLots[j] \in Nat
  BY <1>1, FS_RemoveElement
<1>4. Lots(roles) = FilledLots[i] + others
  BY <1>1, <1>2, SumTakeOut
<1>5. others \in Nat
  BY <1>3, SumNonnegative
<1>6. ASSUME \A j \in Of(roles) : j # i => orders[j].filled = 0
      PROVE  others = 0
  <2>1. \A j \in rest : FilledLots[j] = 0
    BY <1>2, <1>6
  <2>2. QED
    BY <1>3, <2>1, SumZero
<1> HIDE DEF others
<1>7. FilledLots[i] = orders[i].filled /\ FilledLots[i] \in Nat
  BY <1>1, <1>2
<1>8. QED
  BY <1>4, <1>5, <1>6, <1>7

LEMMA LotsOfNone ==
  ASSUME TypeOK, NEW roles, \A i \in Of(roles) : orders[i].filled = 0
  PROVE  Lots(roles) = 0
<1>1. /\ Lots(roles) = SumFunctionOnSet(FilledLots, Of(roles)) /\ IsFiniteSet(Of(roles))
  BY LotsAre
<1>2. \A i \in Of(roles) : FilledLots[i] = 0
  BY DEF FilledLots, Of
<1>3. QED
  BY <1>1, <1>2, SumZero

\* So orders no two of which filled add up to no more than one of them may be.
LEMMA LotsBounded ==
  ASSUME TypeOK, NEW roles, NEW bound \in Nat,
         \A i \in Of(roles) : orders[i].filled <= bound,
         \A i, j \in Of(roles) : orders[i].filled > 0 /\ orders[j].filled > 0 => i = j
  PROVE  Lots(roles) <= bound
<1>1. CASE \A i \in Of(roles) : orders[i].filled = 0
  BY <1>1, LotsOfNone
<1>2. CASE \E i \in Of(roles) : orders[i].filled # 0
  <2>1. PICK i \in Of(roles) : orders[i].filled # 0
    BY <1>2
  <2>2. \A j \in Of(roles) : orders[j].filled \in Nat
    BY RecordIs DEF TypeOK, Of
  <2>3. \A j \in Of(roles) : j # i => orders[j].filled = 0
    BY <2>1, <2>2
  <2>4. Lots(roles) = orders[i].filled
    BY <2>3, LotsOfOne
  <2>5. QED
    BY <2>4
<1>3. QED
  BY <1>1, <1>2

\* More than the configured amount is entered only when an entry ended partly filled.
THEOREM EntersOnce == Spec => []EnteredTwiceAfterPartialOnly
<1>1. ASSUME Inv, KeptInv PROVE EnteredTwiceAfterPartialOnly
  <2> SUFFICES ASSUME ~ \E i \in DOMAIN orders :
                        /\ orders[i].role = "open" /\ orders[i].state \in {"canceled", "failed"}
                        /\ orders[i].filled > 0
               PROVE  Lots({"open"}) <= Amount
    <3>1. TypeOK /\ Amount \in Nat
      BY <1>1, SizeAssumption DEF Inv, TypeInv
    <3>2. Lots({"open"}) \in Nat
      BY <3>1, LotsOfOne, LotsOfNone
    <3>3. QED
      BY <3>1, <3>2 DEF EnteredTwiceAfterPartialOnly
  <2>1. TypeOK /\ DOMAIN orders = 1..Len(orders) /\ Amount \in Nat
    BY <1>1, SizeAssumption DEF Inv, TypeInv, TypeOK
  <2>2. \A i \in Of({"open"}) :
          /\ orders[i].filled \in 0..Amount /\ orders[i].role = "open"
          /\ orders[i].filled > 0 => ~Lost(orders[i])
    BY <2>1, RecordIs DEF TypeOK, Of, Lost
  <2>3. \A i, j \in Of({"open"}) : orders[i].filled > 0 /\ orders[j].filled > 0 => i = j
    BY <1>1, <2>2 DEF KeptInv, Kept, Of
  <2>4. \A i \in Of({"open"}) : orders[i].filled <= Amount
    BY <2>2
  <2>5. QED
    BY <2>1, <2>3, <2>4, LotsBounded
<1>2. QED
  BY <1>1, InvAlways, KeptAlways, PTL

\* The exits trade more than the entries did only when one of them ended partly filled or
\* a take profit and a market close both traded.
THEOREM ClosesOnce == Spec => []ReversedByDoubleCloseOnly
<1>1. ASSUME Inv, KeptInv PROVE ReversedByDoubleCloseOnly
  <2> DEFINE exits == Of({"close", "tp"})
             entered == Lots({"open"})
  <2>1. TypeOK /\ DOMAIN orders = 1..Len(orders) /\ Len(orders) \in Nat
    BY <1>1 DEF Inv, TypeInv, TypeOK
  <2>2. \A i \in 1..Len(orders) : orders[i].filled \in Nat /\ orders[i].size \in Nat
    BY <2>1, RecordIs DEF TypeOK
  <2>3. ASSUME NEW roles PROVE Lots(roles) \in Nat
    BY <2>1, LotsOfOne, LotsOfNone
  <2>4. ASSUME NEW roles, NEW i \in Of(roles), orders[i].filled > 0 PROVE Lots(roles) > 0
    <3>1. orders[i].filled <= Lots(roles) /\ Lots(roles) \in Nat /\ orders[i].filled \in Nat
      BY <2>1, LotsOfOne
    <3>2. QED
      BY <2>4, <3>1
  <2>5. ASSUME NEW i \in exits PROVE orders[i].filled <= entered
    <3>1. i \in 1..Len(orders) /\ orders[i].role # "open"
      BY DEF Of
    <3>2. orders[i].filled <= orders[i].size /\ Covers(orders, orders[i].size)
      BY <1>1, <3>1 DEF KeptInv, Covered
    <3>3. PICK j \in 1..Len(orders) : orders[j].role = "open" /\ orders[i].size <= orders[j].filled
      BY <3>2 DEF Covers
    <3>4. j \in Of({"open"})
      BY <3>3 DEF Of
    <3>5. orders[j].filled <= entered
      BY <2>1, <3>4, LotsOfOne
    <3>6. entered \in Nat
      BY <2>3
    <3> HIDE DEF entered
    <3>7. QED
      BY <2>2, <3>1, <3>2, <3>3, <3>5, <3>6
  <2>6. ASSUME ~ \E i \in DOMAIN orders :
                   /\ orders[i].role \in {"close", "tp"}
                   /\ orders[i].state \in {"canceled", "failed"} /\ orders[i].filled > 0,
               ~ (Lots({"close"}) > 0 /\ Lots({"tp"}) > 0)
        PROVE  Lots({"close", "tp"}) <= entered
    <3>1. ASSUME NEW i \in exits, NEW j \in exits, orders[i].filled > 0, orders[j].filled > 0
          PROVE  i = j
      <4>1. /\ i \in 1..Len(orders) /\ j \in 1..Len(orders)
            /\ orders[i].role \in {"close", "tp"} /\ orders[j].role \in {"close", "tp"}
        BY DEF Of
      <4>2. ~Lost(orders[i]) /\ ~Lost(orders[j])
        BY <2>1, <2>6, <3>1, <4>1 DEF Lost
      <4>3. orders[i].role = orders[j].role
        <5>1. ASSUME NEW k \in exits, NEW l \in exits, orders[k].filled > 0, orders[l].filled > 0,
                     orders[k].role = "close", orders[l].role = "tp"
              PROVE  FALSE
          <6>1. k \in Of({"close"}) /\ l \in Of({"tp"})
            BY <5>1 DEF Of
          <6>2. Lots({"close"}) > 0 /\ Lots({"tp"}) > 0
            BY <2>4, <5>1, <6>1
          <6>3. QED
            BY <2>6, <6>2
        <5>2. QED
          BY <3>1, <4>1, <5>1
      <4>4. QED
        BY <1>1, <4>1, <4>2, <4>3 DEF KeptInv, Kept
    <3>2. entered \in Nat
      BY <2>3
    <3> HIDE DEF entered
    <3>3. QED
      BY <2>1, <2>5, <3>1, <3>2, LotsBounded
  <2>7. entered \in Nat /\ Lots({"close", "tp"}) \in Nat
    BY <2>3
  <2>8. QED
    BY <2>6, <2>7 DEF ReversedByDoubleCloseOnly
<1>2. QED
  BY <1>1, InvAlways, KeptAlways, PTL
===============================================================================
