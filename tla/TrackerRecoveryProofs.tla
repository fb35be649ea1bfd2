------------------------- MODULE TrackerRecoveryProofs -------------------------
(***************************************************************************)
(* Proofs about TrackerRecovery, for every set of orders and trades and    *)
(* every number of crashes.                                                *)
(*                                                                         *)
(* A crash leaves the database alone, so the invariant says separately what*)
(* the tables are worth without the tracker (TablesFit) and what the       *)
(* tracker's book owes to them while the process runs (BookFits).  A       *)
(* restart gets the second from the first; a save, the first from the      *)
(* second.                                                                 *)
(***************************************************************************)
EXTENDS TrackerRecovery, TLAPS

Saved == [state : State, fills : SUBSET Trade]

Tables(d) ==
  /\ DOMAIN d = {"states", "records", "ended", "fills"}
  /\ DOMAIN d.states \subseteq Order
  /\ \A o \in DOMAIN d.states : d.states[o] \in Saved
  /\ d.ended \subseteq d.records /\ d.records \subseteq Order
  /\ d.fills \in [Order -> [Trade -> Nat]]

Book(b) ==
  /\ DOMAIN b \subseteq Order
  /\ \A o \in DOMAIN b :
       /\ b[o] \in InFlightOrder
       /\ b[o].home = "active" => b[o].state \in OpenStates
       /\ b[o].home = "lost" => b[o].state = "FAILED"

Rest ==
  /\ exStatus \in [Order -> Over \cup {"none", "sent", "rejected", "live"}]
  /\ exTrades \in [Order -> SUBSET Trade]
  /\ up \in BOOLEAN /\ placing \subseteq Order /\ abandoned \subseteq Order
  /\ crashes \in 0..MaxCrashes
  /\ \A o \in Order : exTrades[o] # {} => exStatus[o] \in Over \cup {"live"}

TypeInv == Rest /\ Book(orders) /\ Tables(db)

Restorable(state) == state \in OpenStates \cup {"FAILED"}
Tracked(b, o) == o \in DOMAIN b /\ b[o].home \in {"active", "lost"}
\* The orders that must not get lost: recorded, open on the exchange, not given up.
Owed(d, ex, given) == {o \in d.records \ given : ex[o] = "live"}

\* What the tables say that a restart will rely on.
TablesFit(d, ex, given) ==
  /\ \A o \in d.records : ex[o] \in Over \cup {"live"}
  /\ \A o \in d.ended : o \in DOMAIN d.states => d.states[o].state \notin OpenStates
  /\ \A o \in Owed(d, ex, given) : o \in DOMAIN d.states /\ Restorable(d.states[o].state)
  /\ \A o \in Order, t \in Trade :
       /\ d.fills[o][t] <= 1
       /\ d.fills[o][t] = 1 =>
            ex[o] # "none" /\ (o \in DOMAIN d.states => t \in d.states[o].fills)

\* What the tracker's orders are worth next to the tables.
BookFits(b, d, ex, given) ==
  /\ \A o \in d.ended : o \in DOMAIN b => b[o].home # "active"
  /\ \A o \in Owed(d, ex, given) : Tracked(b, o)
  /\ \A o \in DOMAIN b, t \in Trade : d.fills[o][t] = 1 => t \in b[o].fills

Inv ==
  /\ TypeInv
  /\ TablesFit(db, exStatus, abandoned)
  /\ up => BookFits(orders, db, exStatus, abandoned)
  /\ ~up => DOMAIN orders = {}
-------------------------------------------------------------------------------
(***************************************************************************)
(* Saving.                                                                 *)
(***************************************************************************)
LEMMA WellTyped == TypeInv => TypeOK
BY DEF TypeInv, Rest, Book, Tables, Saved, TypeOK

LEMMA TrackingStatesIs ==
  ASSUME NEW b
  PROVE  /\ DOMAIN TrackingStates(b) = {o \in DOMAIN b : b[o].home \in {"active", "lost"}}
         /\ \A o \in DOMAIN TrackingStates(b) :
              TrackingStates(b)[o] = [state |-> b[o].state, fills |-> b[o].fills]
BY DEF TrackingStates

\* A book whose orders of the two dictionaries are typed is saved as typed states.
LEMMA TrackingStatesTyped ==
  ASSUME NEW b, DOMAIN b \subseteq Order, \A o \in DOMAIN b : b[o] \in InFlightOrder
  PROVE  /\ DOMAIN TrackingStates(b) \subseteq Order
         /\ \A o \in DOMAIN TrackingStates(b) : TrackingStates(b)[o] \in Saved
<1>1. ASSUME NEW o \in DOMAIN b
      PROVE  [state |-> b[o].state, fills |-> b[o].fills] \in Saved
  BY <1>1 DEF InFlightOrder, Saved
<1>2. QED
  BY <1>1, TrackingStatesIs

LEMMA DidCreateIs ==
  ASSUME NEW d, Tables(d), NEW b, NEW o \in Order,
         DOMAIN b \subseteq Order, \A p \in DOMAIN b : b[p] \in InFlightOrder
  PROVE  /\ Tables(DidCreate(d, b, o))
         /\ DidCreate(d, b, o).states = TrackingStates(b)
         /\ DidCreate(d, b, o).records = d.records \cup {o}
         /\ DidCreate(d, b, o).ended = d.ended
         /\ DidCreate(d, b, o).fills = d.fills
<1> DEFINE states == TrackingStates(b)
<1>1. DOMAIN states \subseteq Order /\ \A p \in DOMAIN states : states[p] \in Saved
  BY TrackingStatesTyped
<1> HIDE DEF states
<1>2. DidCreate(d, b, o) = [d EXCEPT !.records = d.records \cup {o}, !.states = states]
  BY DEF DidCreate, states
<1>3. QED
  BY <1>1, <1>2 DEF Tables, states

LEMMA DidEndIs ==
  ASSUME NEW d, Tables(d), NEW b, NEW o \in Order,
         DOMAIN b \subseteq Order, \A p \in DOMAIN b : b[p] \in InFlightOrder
  PROVE  /\ Tables(DidEnd(d, b, o))
         /\ o \notin d.records => DidEnd(d, b, o) = d
         /\ o \in d.records =>
              /\ DidEnd(d, b, o).states = TrackingStates(b)
              /\ DidEnd(d, b, o).records = d.records
              /\ DidEnd(d, b, o).ended = d.ended \cup {o}
              /\ DidEnd(d, b, o).fills = d.fills
<1> DEFINE states == TrackingStates(b)
<1>1. DOMAIN states \subseteq Order /\ \A p \in DOMAIN states : states[p] \in Saved
  BY TrackingStatesTyped
<1> HIDE DEF states
<1>2. DidEnd(d, b, o) = IF o \notin d.records THEN d
                        ELSE [d EXCEPT !.ended = d.ended \cup {o}, !.states = states]
  BY DEF DidEnd, states
<1>3. QED
  BY <1>1, <1>2 DEF Tables, states

LEMMA DidFillIs ==
  ASSUME NEW d, Tables(d), NEW b, NEW o \in Order, NEW t \in Trade,
         DOMAIN b \subseteq Order, \A p \in DOMAIN b : b[p] \in InFlightOrder
  PROVE  /\ Tables(DidFill(d, b, o, t))
         /\ DidFill(d, b, o, t).states = TrackingStates(b)
         /\ DidFill(d, b, o, t).records = d.records
         /\ DidFill(d, b, o, t).ended = d.ended
         /\ DidFill(d, b, o, t).fills = [d.fills EXCEPT ![o][t] = d.fills[o][t] + 1]
<1> DEFINE states == TrackingStates(b)
           fills == [d.fills EXCEPT ![o][t] = d.fills[o][t] + 1]
<1>1. DOMAIN states \subseteq Order /\ \A p \in DOMAIN states : states[p] \in Saved
  BY TrackingStatesTyped
<1>2. fills \in [Order -> [Trade -> Nat]]
  BY DEF Tables
<1> HIDE DEF states, fills
<1>3. DidFill(d, b, o, t) = [d EXCEPT !.fills = fills, !.states = states]
  BY DEF DidFill, states, fills
<1>4. QED
  BY <1>1, <1>2, <1>3 DEF Tables, states, fills

\* Saving the states of a book is safe when the book owes nothing to the tables it leaves.
LEMMA SavedFits ==
  ASSUME NEW d, Tables(d), NEW b, NEW ex, NEW given,
         d.states = TrackingStates(b),
         \A o \in d.records : ex[o] \in Over \cup {"live"},
         \A o \in d.ended : Tracked(b, o) => b[o].state \notin OpenStates,
         \A o \in Owed(d, ex, given) : Tracked(b, o) /\ Restorable(b[o].state),
         \A o \in Order, t \in Trade :
           /\ d.fills[o][t] <= 1
           /\ d.fills[o][t] = 1 => ex[o] # "none" /\ (o \in DOMAIN b => t \in b[o].fills)
  PROVE  TablesFit(d, ex, given)
<1>1. DOMAIN d.states = {o \in DOMAIN b : Tracked(b, o)}
  BY TrackingStatesIs DEF Tracked
<1>2. ASSUME NEW o \in DOMAIN d.states
      PROVE  d.states[o].state = b[o].state /\ d.states[o].fills = b[o].fills
  <2>1. o \in {p \in DOMAIN b : b[p].home \in {"active", "lost"}}
    BY TrackingStatesIs
  <2>2. TrackingStates(b)[o] = [state |-> b[o].state, fills |-> b[o].fills]
    BY <2>1 DEF TrackingStates
  <2>3. QED
    BY <2>2
<1>3. \A o : Tracked(b, o) => o \in DOMAIN b
  BY DEF Tracked
<1>4. \A o \in d.ended : o \in DOMAIN d.states => d.states[o].state \notin OpenStates
  BY <1>1, <1>2
<1>5. \A o \in Owed(d, ex, given) : o \in DOMAIN d.states /\ Restorable(d.states[o].state)
  BY <1>1, <1>2, <1>3
<1>6. \A o \in Order, t \in Trade :
        d.fills[o][t] = 1 => (o \in DOMAIN d.states => t \in d.states[o].fills)
  BY <1>1, <1>2
<1>7. QED
  BY <1>4, <1>5, <1>6 DEF TablesFit

\* The order's state changes, and perhaps its dictionary.
LEMMA InStateIs ==
  ASSUME Book(orders), NEW o \in DOMAIN orders, NEW new \in State
  PROVE  /\ DOMAIN InState(o, new) = DOMAIN orders
         /\ InState(o, new)[o] =
              [home |-> orders[o].home, state |-> new, fills |-> orders[o].fills]
         /\ \A p \in DOMAIN orders : p # o => InState(o, new)[p] = orders[p]
         /\ \A p \in DOMAIN orders : InState(o, new)[p] \in InFlightOrder
<1>1. orders[o] \in InFlightOrder
  BY DEF Book
<1>2. [orders[o] EXCEPT !.state = new] =
        [home |-> orders[o].home, state |-> new, fills |-> orders[o].fills]
  BY <1>1 DEF InFlightOrder
<1>3. InState(o, new) = [orders EXCEPT ![o] = [orders[o] EXCEPT !.state = new]]
  BY DEF InState
<1> DEFINE b == InState(o, new)
<1>4. /\ DOMAIN b = DOMAIN orders
      /\ b[o] = [home |-> orders[o].home, state |-> new, fills |-> orders[o].fills]
      /\ \A p \in DOMAIN orders : p # o => b[p] = orders[p]
  BY <1>2, <1>3
<1>5. \A p \in DOMAIN orders : b[p] \in InFlightOrder
  BY <1>1, <1>4 DEF Book, InFlightOrder
<1>6. QED
  BY <1>4, <1>5

Moved(o, new, home) == [InState(o, new) EXCEPT ![o].home = home]

LEMMA MovedIs ==
  ASSUME Book(orders), NEW o \in DOMAIN orders, NEW new \in State,
         NEW home \in {"lost", "cached"}, home = "lost" => new = "FAILED"
  PROVE  /\ DOMAIN Moved(o, new, home) = DOMAIN orders
         /\ Moved(o, new, home)[o] =
              [home |-> home, state |-> new, fills |-> orders[o].fills]
         /\ \A p \in DOMAIN orders : p # o => Moved(o, new, home)[p] = orders[p]
         /\ Book(Moved(o, new, home))
<1> DEFINE moved == Moved(o, new, home)
<1> DEFINE b == InState(o, new)
<1>1. /\ DOMAIN b = DOMAIN orders
      /\ b[o] = [home |-> orders[o].home, state |-> new, fills |-> orders[o].fills]
      /\ \A p \in DOMAIN orders : p # o => b[p] = orders[p]
  BY InStateIs
<1>2. moved = [b EXCEPT ![o] = [b[o] EXCEPT !.home = home]]
  BY DEF Moved
<1> HIDE DEF b, moved
<1>3. [b[o] EXCEPT !.home = home] =
        [home |-> home, state |-> new, fills |-> orders[o].fills]
  BY <1>1
<1>4. /\ DOMAIN moved = DOMAIN orders
      /\ moved[o] = [home |-> home, state |-> new, fills |-> orders[o].fills]
      /\ \A p \in DOMAIN orders : p # o => moved[p] = orders[p]
  BY <1>1, <1>2, <1>3
<1>5. moved[o] \in InFlightOrder
  BY <1>4 DEF Book, InFlightOrder
<1>6. Book(moved)
  BY <1>4, <1>5 DEF Book
<1>7. QED
  BY <1>4, <1>6 DEF moved
-------------------------------------------------------------------------------
(***************************************************************************)
(* The steps of an order.                                                  *)
(***************************************************************************)
LEMMA CreateInv ==
  ASSUME Inv, NEW o \in Order, Create(o)
  PROVE  Inv'
<1>1. /\ Rest /\ Book(orders) /\ Tables(db) /\ TablesFit(db, exStatus, abandoned)
      /\ BookFits(orders, db, exStatus, abandoned)
      /\ up /\ exStatus[o] = "none" /\ up' = up /\ db' = db /\ abandoned' = abandoned
      /\ exStatus' = [exStatus EXCEPT ![o] = "sent"]
      /\ UNCHANGED <<exTrades, crashes>> /\ placing' = placing \cup {o}
  BY DEF Inv, TypeInv, Create
<1>2. /\ DOMAIN orders' = DOMAIN orders \cup {o}
      /\ orders'[o] = [home |-> "active", state |-> "PENDING_CREATE", fills |-> {}]
      /\ \A p \in DOMAIN orders : p # o => orders'[p] = orders[p]
  BY DEF Create
<1>3. /\ exStatus'[o] = "sent" /\ \A p \in Order : p # o => exStatus'[p] = exStatus[p]
      /\ exStatus' \in [Order -> Over \cup {"none", "sent", "rejected", "live"}]
      /\ exTrades[o] = {}
  BY <1>1 DEF Rest, Over
<1>4. Book(orders')
  BY <1>1, <1>2 DEF Book, InFlightOrder, State, OpenStates
<1>5. TypeInv'
  BY <1>1, <1>3, <1>4 DEF TypeInv, Rest
<1>6. o \notin db.records /\ \A t \in Trade : db.fills[o][t] # 1
  BY <1>1 DEF TablesFit, Over
<1>7. Owed(db, exStatus', abandoned) = Owed(db, exStatus, abandoned)
  BY <1>1, <1>3, <1>6 DEF Owed, Tables
<1>8. TablesFit(db, exStatus', abandoned)
  BY <1>1, <1>3, <1>6, <1>7 DEF TablesFit, Tables
<1>9. BookFits(orders', db, exStatus', abandoned)
  BY <1>1, <1>2, <1>6, <1>7 DEF BookFits, Tables, Tracked, Owed
<1>10. QED
  BY <1>1, <1>5, <1>8, <1>9 DEF Inv

LEMMA OpenedInv ==
  ASSUME Inv, NEW o \in Order, Opened(o)
  PROVE  Inv'
<1>1. /\ Rest /\ Book(orders) /\ Tables(db) /\ TablesFit(db, exStatus, abandoned)
      /\ BookFits(orders, db, exStatus, abandoned)
      /\ up /\ o \in DOMAIN orders /\ orders[o].home = "active"
      /\ exStatus[o] \in Over \cup {"live"}
      /\ UNCHANGED <<exStatus, exTrades, up, placing, abandoned, crashes>>
      /\ orders' = InState(o, "OPEN")
  BY DEF Inv, TypeInv, Opened, Active, exchangeVars
<1>2. "OPEN" \in State /\ "OPEN" \in OpenStates
  BY DEF State, OpenStates
<1>3. /\ DOMAIN orders' = DOMAIN orders
      /\ orders'[o] = [home |-> "active", state |-> "OPEN", fills |-> orders[o].fills]
      /\ \A p \in DOMAIN orders : p # o => orders'[p] = orders[p]
      /\ \A p \in DOMAIN orders : orders'[p] \in InFlightOrder
  BY <1>1, <1>2, InStateIs
<1>4. Book(orders')
  BY <1>1, <1>2, <1>3 DEF Book
<1>5. BookFits(orders', db, exStatus, abandoned)
  BY <1>1, <1>3 DEF BookFits, Tracked
<1>6. CASE db' = db
  BY <1>1, <1>4, <1>5, <1>6 DEF Inv, TypeInv, Rest
<1>7. CASE db' = DidCreate(db, orders', o)
  <2>1. /\ Tables(db') /\ db'.states = TrackingStates(orders')
        /\ db'.records = db.records \cup {o} /\ db'.ended = db.ended /\ db'.fills = db.fills
    BY <1>1, <1>3, <1>4, <1>7, DidCreateIs DEF Book
  <2>2. BookFits(orders', db', exStatus, abandoned)
    BY <1>1, <1>3, <1>5, <2>1 DEF BookFits, Tracked, Owed
  <2>3. \A p \in db'.records : exStatus[p] \in Over \cup {"live"}
    BY <1>1, <2>1 DEF TablesFit
  <2>4. \A p \in DOMAIN orders' : Tracked(orders', p) => Restorable(orders'[p].state)
    BY <1>4 DEF Book, Tracked, Restorable
  <2>5. \A p \in db'.ended : Tracked(orders', p) => orders'[p].state \notin OpenStates
    BY <1>4, <2>2 DEF BookFits, Book, Tracked, OpenStates
  <2>6. TablesFit(db', exStatus, abandoned)
    <3>1. \A p \in Owed(db', exStatus, abandoned) : Tracked(orders', p) /\ Restorable(orders'[p].state)
      BY <2>2, <2>4 DEF BookFits, Tracked
    <3>2. \A p \in Order, t \in Trade :
            /\ db'.fills[p][t] <= 1
            /\ db'.fills[p][t] = 1 =>
                 exStatus[p] # "none" /\ (p \in DOMAIN orders' => t \in orders'[p].fills)
      BY <1>1, <2>1, <2>2 DEF BookFits, TablesFit
    <3>3. QED
      BY <2>1, <2>3, <2>5, <3>1, <3>2, SavedFits
  <2>7. QED
    BY <1>1, <1>4, <2>1, <2>2, <2>6 DEF Inv, TypeInv, Rest
<1>8. QED
  BY <1>6, <1>7 DEF Opened, Transaction

\* The tables after a transaction of the end of order o, saved with the order in its new
\* state and its old dictionary.
LEMMA EndSaved ==
  ASSUME Book(orders), NEW o \in DOMAIN orders, NEW new \in {"FILLED", "CANCELED", "FAILED"},
         NEW c, NEW d, NEW ex, NEW given, Tables(c), Tables(d),
         TablesFit(c, ex, given), BookFits(orders, c, ex, given),
         d.states = TrackingStates(InState(o, new)), d.fills = c.fills,
         d.records \subseteq c.records \cup {o}, d.ended \subseteq c.ended \cup {o},
         o \in d.records => ex[o] \in Over \cup {"live"},
         o \in Owed(d, ex, given) => new = "FAILED" /\ Tracked(orders, o)
  PROVE  TablesFit(d, ex, given)
<1> DEFINE b == InState(o, new)
<1>1. new \in State /\ new \notin OpenStates
  BY DEF State, OpenStates
<1>2. /\ DOMAIN b = DOMAIN orders
      /\ b[o] = [home |-> orders[o].home, state |-> new, fills |-> orders[o].fills]
      /\ \A p \in DOMAIN orders : p # o => b[p] = orders[p]
  BY <1>1, InStateIs
<1> HIDE DEF b
<1>3. \A p \in DOMAIN orders : b[p].fills = orders[p].fills /\ b[p].home = orders[p].home
  BY <1>2
<1>4. \A p : Tracked(b, p) <=> Tracked(orders, p)
  BY <1>2, <1>3 DEF Tracked
<1>5. \A p \in d.records : ex[p] \in Over \cup {"live"}
  BY DEF TablesFit
<1>6. \A p \in d.ended : Tracked(b, p) => b[p].state \notin OpenStates
  <2> SUFFICES ASSUME NEW p \in d.ended, Tracked(b, p) PROVE b[p].state \notin OpenStates
    OBVIOUS
  <2>1. CASE p = o
    BY <1>1, <1>2, <2>1
  <2>2. CASE p # o
    <3>1. p \in DOMAIN orders /\ b[p] = orders[p] /\ p \in c.ended
      BY <1>2, <1>4, <2>2 DEF Tracked
    <3>2. orders[p].home = "lost"
      BY <1>4, <3>1 DEF BookFits, Tracked
    <3>3. QED
      BY <3>1, <3>2 DEF Book, OpenStates
  <2>3. QED
    BY <2>1, <2>2
<1>7. \A p \in Owed(d, ex, given) : Tracked(b, p) /\ Restorable(b[p].state)
  <2> SUFFICES ASSUME NEW p \in Owed(d, ex, given)
               PROVE  Tracked(b, p) /\ Restorable(b[p].state)
    OBVIOUS
  <2>1. CASE p = o
    BY <1>2, <1>4, <2>1 DEF Restorable
  <2>2. CASE p # o
    <3>1. p \in Owed(c, ex, given)
      BY <2>2 DEF Owed
    <3>2. Tracked(orders, p)
      BY <3>1 DEF BookFits
    <3>3. b[p] = orders[p] /\ Restorable(orders[p].state)
      BY <1>2, <2>2, <3>2 DEF Tracked, Book, Restorable
    <3>4. QED
      BY <1>4, <3>2, <3>3
  <2>3. QED
    BY <2>1, <2>2
<1>8. \A p \in Order, t \in Trade :
        /\ d.fills[p][t] <= 1
        /\ d.fills[p][t] = 1 => ex[p] # "none" /\ (p \in DOMAIN b => t \in b[p].fills)
  BY <1>2, <1>3 DEF TablesFit, BookFits
<1>9. QED
  BY <1>5, <1>6, <1>7, <1>8, SavedFits DEF b

\* The order is moved to the cache or to the lost ones with it.
LEMMA EndMoved ==
  ASSUME NEW o \in DOMAIN orders, NEW moved, NEW home \in {"lost", "cached"}, NEW new,
         DOMAIN moved = DOMAIN orders,
         moved[o] = [home |-> home, state |-> new, fills |-> orders[o].fills],
         \A p \in DOMAIN orders : p # o => moved[p] = orders[p],
         NEW c, NEW d, NEW ex, NEW given, BookFits(orders, c, ex, given),
         d.fills = c.fills, d.records \subseteq c.records \cup {o},
         d.ended \subseteq c.ended \cup {o},
         o \in Owed(d, ex, given) => home = "lost"
  PROVE  BookFits(moved, d, ex, given)
<1>1. \A p \in d.ended : p \in DOMAIN moved => moved[p].home # "active"
  BY DEF BookFits
<1>2. ASSUME NEW p \in Owed(d, ex, given)
      PROVE  Tracked(moved, p)
  <2>1. CASE p = o
    BY <1>2, <2>1 DEF Tracked
  <2>2. CASE p # o
    BY <1>2, <2>2 DEF BookFits, Owed, Tracked
  <2>3. QED
    BY <2>1, <2>2
<1>3. \A p \in DOMAIN moved, t \in Trade : d.fills[p][t] = 1 => t \in moved[p].fills
  BY DEF BookFits
<1>4. QED
  BY <1>1, <1>2, <1>3 DEF BookFits

\* What is not known to be given up is owed no less than before.
LEMMA GivenUp ==
  ASSUME NEW b, NEW d, NEW ex, NEW given, NEW more, given \subseteq more,
         TablesFit(d, ex, given), BookFits(b, d, ex, given)
  PROVE  TablesFit(d, ex, more) /\ BookFits(b, d, ex, more)
<1>1. Owed(d, ex, more) \subseteq Owed(d, ex, given)
  BY DEF Owed
<1>2. QED
  BY <1>1 DEF TablesFit, BookFits

LEMMA CompletedFits ==
  ASSUME Book(orders), Tables(db), NEW given, TablesFit(db, exStatus, given),
         BookFits(orders, db, exStatus, given),
         NEW o \in DOMAIN orders, NEW new \in {"FILLED", "CANCELED", "FAILED"},
         Completed(o, new),
         new # "FAILED" => exStatus[o] \in Over,
         exStatus[o] = "live" => o \in given
  PROVE  /\ Book(orders') /\ Tables(db')
         /\ TablesFit(db', exStatus, given) /\ BookFits(orders', db', exStatus, given)
<1> DEFINE b == InState(o, new)
<1>1. o \in Order /\ new \in State
  BY DEF Book, State
<1>2. DOMAIN b \subseteq Order /\ \A p \in DOMAIN b : b[p] \in InFlightOrder
  BY <1>1, InStateIs DEF Book
<1>3. \A d : o \notin Owed(d, exStatus, given)
  BY DEF Owed
<1>4. PICK created \in {db, DidCreate(db, b, o)} :
        /\ created # db => exStatus[o] \in Over
        /\ db' \in {created, DidEnd(created, b, o)}
  BY DEF Completed, Transaction
<1> HIDE DEF b
<1>5. /\ Tables(created) /\ TablesFit(created, exStatus, given)
      /\ BookFits(orders, created, exStatus, given)
      /\ created.records \subseteq db.records \cup {o} /\ created.ended = db.ended
      /\ created.fills = db.fills
  <2>1. CASE created = db
    BY <2>1
  <2>2. CASE created = DidCreate(db, b, o) /\ created # db
    <3>1. /\ Tables(created) /\ created.states = TrackingStates(b)
          /\ created.records = db.records \cup {o}
          /\ created.ended = db.ended /\ created.fills = db.fills
      BY <1>1, <1>2, <2>2, DidCreateIs
    <3>2. exStatus[o] \in Over \cup {"live"}
      BY <1>4, <2>2
    <3>3. TablesFit(created, exStatus, given)
      BY <1>3, <3>1, <3>2, EndSaved DEF b
    <3>4. Owed(created, exStatus, given) \subseteq Owed(db, exStatus, given)
      BY <1>3, <3>1 DEF Owed
    <3>5. BookFits(orders, created, exStatus, given)
      BY <3>1, <3>4 DEF BookFits
    <3>6. QED
      BY <3>1, <3>3, <3>5
  <2>3. QED
    BY <1>4, <2>1, <2>2
<1>6. /\ Tables(db') /\ TablesFit(db', exStatus, given)
      /\ db'.records = created.records /\ db'.ended \subseteq created.ended \cup {o}
      /\ db'.fills = created.fills
  <2>1. CASE db' = created
    BY <1>5, <2>1
  <2>2. CASE db' = DidEnd(created, b, o) /\ o \in created.records
    <3>1. /\ Tables(db') /\ db'.states = TrackingStates(b) /\ db'.records = created.records
          /\ db'.ended = created.ended \cup {o} /\ db'.fills = created.fills
      BY <1>1, <1>2, <1>5, <2>2, DidEndIs
    <3>2. exStatus[o] \in Over \cup {"live"}
      BY <1>5, <2>2 DEF TablesFit
    <3>3. TablesFit(db', exStatus, given)
      BY <1>3, <1>5, <3>1, <3>2, EndSaved DEF b
    <3>4. QED
      BY <3>1, <3>3
  <2>3. CASE db' = DidEnd(created, b, o) /\ o \notin created.records
    BY <1>1, <1>2, <1>5, <2>3, DidEndIs
  <2>4. QED
    BY <1>4, <2>1, <2>2, <2>3
<1>7. /\ DOMAIN orders' = DOMAIN orders
      /\ orders'[o] = [home |-> "cached", state |-> new, fills |-> orders[o].fills]
      /\ \A p \in DOMAIN orders : p # o => orders'[p] = orders[p]
      /\ Book(orders')
  <2>1. orders' = Moved(o, new, "cached")
    BY DEF Completed, Moved
  <2>2. QED
    BY <1>1, <2>1, MovedIs
<1>8. BookFits(orders', db', exStatus, given)
  BY <1>3, <1>5, <1>6, <1>7, EndMoved
<1>9. QED
  BY <1>6, <1>7, <1>8

LEMMA PlaceFailsInv ==
  ASSUME Inv, NEW o \in Order, PlaceFails(o)
  PROVE  Inv'
<1> DEFINE given == abandoned \cup {o}
<1>1. /\ Rest /\ Book(orders) /\ Tables(db) /\ TablesFit(db, exStatus, abandoned)
      /\ BookFits(orders, db, exStatus, abandoned) /\ up
      /\ placing' = placing \ {o} /\ abandoned' = given
      /\ UNCHANGED <<exStatus, exTrades, up, crashes>>
  BY DEF Inv, TypeInv, PlaceFails, exchangeVars
<1>2. TablesFit(db, exStatus, given) /\ BookFits(orders, db, exStatus, given)
  BY <1>1, GivenUp
<1>3. Rest'
  BY <1>1 DEF Rest
<1>4. CASE Fetched(o) /\ Completed(o, "FAILED")
  <2>1. o \in DOMAIN orders
    BY <1>4 DEF Fetched
  <2>2. /\ Book(orders') /\ Tables(db')
        /\ TablesFit(db', exStatus, given) /\ BookFits(orders', db', exStatus, given)
    BY <1>1, <1>2, <1>4, <2>1, CompletedFits
  <2>3. QED
    BY <1>1, <1>3, <2>2 DEF Inv, TypeInv
<1>5. CASE orders' = Without(o) /\ db' = db
  <2>1. /\ DOMAIN orders' = DOMAIN orders \ {o}
        /\ \A p \in DOMAIN orders' : orders'[p] = orders[p]
    BY <1>5 DEF Without
  <2>2. Book(orders')
    BY <1>1, <2>1 DEF Book
  <2>3. BookFits(orders', db, exStatus, given)
    BY <1>2, <2>1 DEF BookFits, Tracked, Owed
  <2>4. QED
    BY <1>1, <1>2, <1>3, <1>5, <2>2, <2>3 DEF Inv, TypeInv
<1>6. QED
  BY <1>4, <1>5 DEF PlaceFails

LEMMA OrderUpdateInv ==
  ASSUME Inv, NEW o \in Order, OrderUpdate(o)
  PROVE  Inv'
<1>1. /\ Rest /\ Book(orders) /\ Tables(db) /\ TablesFit(db, exStatus, abandoned)
      /\ BookFits(orders, db, exStatus, abandoned) /\ up
      /\ o \in DOMAIN orders /\ exStatus[o] \in Over
      /\ UNCHANGED <<exStatus, exTrades, up, placing, abandoned, crashes>>
  BY DEF Inv, TypeInv, OrderUpdate, Fetched, exchangeVars
<1>2. PICK new \in {"FILLED", "CANCELED"} : Completed(o, new)
  BY DEF OrderUpdate
<1>3. exStatus[o] # "live"
  BY <1>1 DEF Over
<1>4. /\ Book(orders') /\ Tables(db') /\ TablesFit(db', exStatus, abandoned)
      /\ BookFits(orders', db', exStatus, abandoned)
  BY <1>1, <1>2, <1>3, CompletedFits
<1>5. QED
  BY <1>1, <1>4 DEF Inv, TypeInv, Rest

LEMMA OrderNotFoundInv ==
  ASSUME Inv, NEW o \in Order, OrderNotFound(o)
  PROVE  Inv'
<1> DEFINE b == InState(o, "FAILED")
<1>1. /\ Rest /\ Book(orders) /\ Tables(db) /\ TablesFit(db, exStatus, abandoned)
      /\ BookFits(orders, db, exStatus, abandoned) /\ up
      /\ o \in DOMAIN orders /\ orders[o].home = "active"
      /\ UNCHANGED <<exStatus, exTrades, up, placing, abandoned, crashes>>
  BY DEF Inv, TypeInv, OrderNotFound, Active, exchangeVars
<1>2. "FAILED" \in State
  BY DEF State
<1>3. DOMAIN b \subseteq Order /\ \A p \in DOMAIN b : b[p] \in InFlightOrder
  BY <1>1, <1>2, InStateIs DEF Book
<1>4. db' \in {db, DidEnd(db, b, o)}
  BY DEF OrderNotFound, Transaction
<1> HIDE DEF b
<1>5. Tracked(orders, o)
  BY <1>1 DEF Tracked
<1>6. /\ Tables(db') /\ TablesFit(db', exStatus, abandoned)
      /\ db'.records = db.records /\ db'.ended \subseteq db.ended \cup {o}
      /\ db'.fills = db.fills
  <2>1. CASE db' = db
    BY <1>1, <2>1
  <2>2. CASE db' = DidEnd(db, b, o) /\ o \in db.records
    <3>1. /\ Tables(db') /\ db'.states = TrackingStates(b) /\ db'.records = db.records
          /\ db'.ended = db.ended \cup {o} /\ db'.fills = db.fills
      BY <1>1, <1>3, <2>2, DidEndIs
    <3>2. exStatus[o] \in Over \cup {"live"}
      BY <1>1, <2>2 DEF TablesFit
    <3>3. TablesFit(db', exStatus, abandoned)
      BY <1>1, <1>5, <3>1, <3>2, EndSaved DEF b
    <3>4. QED
      BY <3>1, <3>3
  <2>3. CASE db' = DidEnd(db, b, o) /\ o \notin db.records
    BY <1>1, <1>3, <2>3, DidEndIs
  <2>4. QED
    BY <1>4, <2>1, <2>2, <2>3
<1>7. /\ DOMAIN orders' = DOMAIN orders
      /\ orders'[o] = [home |-> "lost", state |-> "FAILED", fills |-> orders[o].fills]
      /\ \A p \in DOMAIN orders : p # o => orders'[p] = orders[p]
      /\ Book(orders')
  <2>1. orders' = Moved(o, "FAILED", "lost")
    BY DEF OrderNotFound, Moved
  <2>2. QED
    BY <1>1, <1>2, <2>1, MovedIs
<1>8. BookFits(orders', db', exStatus, abandoned)
  BY <1>1, <1>6, <1>7, EndMoved
<1>9. QED
  BY <1>1, <1>6, <1>7, <1>8 DEF Inv, TypeInv, Rest

\* The order's fills change only.
LEMMA TradeUpdateInv ==
  ASSUME Inv, NEW o \in Order, NEW t \in Trade, TradeUpdate(o, t)
  PROVE  Inv'
<1>1. /\ Rest /\ Book(orders) /\ Tables(db) /\ TablesFit(db, exStatus, abandoned)
      /\ BookFits(orders, db, exStatus, abandoned) /\ up
      /\ o \in DOMAIN orders /\ t \notin orders[o].fills
      /\ orders' = [orders EXCEPT ![o].fills = orders[o].fills \cup {t}]
      /\ UNCHANGED <<exStatus, exTrades, up, placing, abandoned, crashes>>
  BY DEF Inv, TypeInv, TradeUpdate, exchangeVars
<1>2. orders[o] \in InFlightOrder
  BY <1>1 DEF Book
<1>3. /\ DOMAIN orders' = DOMAIN orders
      /\ orders'[o] = [orders[o] EXCEPT !.fills = orders[o].fills \cup {t}]
      /\ \A p \in DOMAIN orders : p # o => orders'[p] = orders[p]
  BY <1>1
<1>4. /\ orders'[o].home = orders[o].home /\ orders'[o].state = orders[o].state
      /\ orders'[o].fills = orders[o].fills \cup {t} /\ orders'[o] \in InFlightOrder
  BY <1>2, <1>3 DEF InFlightOrder
<1>5. Book(orders')
  BY <1>1, <1>3, <1>4 DEF Book
<1>6. exStatus[o] # "none" /\ db.fills[o][t] = 0
  <2>1. t \in exTrades[o]
    BY DEF TradeUpdate
  <2>2. exStatus[o] \in Over \cup {"live"}
    BY <1>1, <2>1 DEF Rest
  <2>3. db.fills[o][t] \in Nat /\ db.fills[o][t] <= 1 /\ db.fills[o][t] # 1
    BY <1>1 DEF TablesFit, BookFits, Tables
  <2>4. QED
    BY <2>2, <2>3 DEF Over
<1>7. BookFits(orders', db, exStatus, abandoned)
  BY <1>1, <1>3, <1>4 DEF BookFits, Tracked
<1>8. CASE db' = db
  BY <1>1, <1>5, <1>7, <1>8 DEF Inv, TypeInv, Rest
<1>9. CASE db' = DidFill(db, orders', o, t)
  <2>1. /\ Tables(db') /\ db'.states = TrackingStates(orders')
        /\ db'.records = db.records /\ db'.ended = db.ended
        /\ db'.fills[o][t] = db.fills[o][t] + 1
        /\ \A p \in Order, u \in Trade : p # o \/ u # t => db'.fills[p][u] = db.fills[p][u]
    <3>1. /\ Tables(db) /\ DOMAIN orders' \subseteq Order
          /\ \A p \in DOMAIN orders' : orders'[p] \in InFlightOrder
      BY <1>1, <1>5 DEF Book
    <3>2. /\ Tables(db') /\ db'.states = TrackingStates(orders')
          /\ db'.records = db.records /\ db'.ended = db.ended
          /\ db'.fills = [db.fills EXCEPT ![o][t] = db.fills[o][t] + 1]
      BY <1>9, <3>1, DidFillIs
    <3>3. db.fills \in [Order -> [Trade -> Nat]]
      BY <3>1 DEF Tables
    <3>4. /\ db'.fills[o][t] = db.fills[o][t] + 1
          /\ \A p \in Order, u \in Trade : p # o \/ u # t => db'.fills[p][u] = db.fills[p][u]
      BY <3>2, <3>3
    <3>5. QED
      BY <3>2, <3>4
  <2>2. Owed(db', exStatus, abandoned) = Owed(db, exStatus, abandoned)
    BY <2>1 DEF Owed
  <2>3. t \in orders'[o].fills
    BY <1>4
  <2>4. \A p \in DOMAIN orders', u \in Trade : db'.fills[p][u] = 1 => u \in orders'[p].fills
    BY <1>1, <1>3, <1>7, <2>1, <2>3 DEF BookFits, Book
  <2>5. BookFits(orders', db', exStatus, abandoned)
    BY <1>7, <2>1, <2>2, <2>4 DEF BookFits
  <2>6. \A p \in db'.ended : Tracked(orders', p) => orders'[p].state \notin OpenStates
    BY <1>5, <2>5 DEF BookFits, Book, Tracked, OpenStates
  <2>7. \A p \in Owed(db', exStatus, abandoned) : Tracked(orders', p) /\ Restorable(orders'[p].state)
    BY <1>5, <2>5 DEF BookFits, Book, Tracked, Restorable
  <2>8. ASSUME NEW p \in Order, NEW u \in Trade
        PROVE  /\ db'.fills[p][u] <= 1
               /\ db'.fills[p][u] = 1 =>
                    exStatus[p] # "none" /\ (p \in DOMAIN orders' => u \in orders'[p].fills)
    <3>1. CASE p = o /\ u = t
      BY <1>6, <2>1, <2>3, <3>1
    <3>2. CASE p # o \/ u # t
      BY <1>1, <2>1, <2>4, <3>2 DEF TablesFit
    <3>3. QED
      BY <3>1, <3>2
  <2>9. \A p \in db'.records : exStatus[p] \in Over \cup {"live"}
    BY <1>1, <2>1 DEF TablesFit
  <2>10. TablesFit(db', exStatus, abandoned)
    BY <2>1, <2>6, <2>7, <2>8, <2>9, SavedFits
  <2>11. QED
    BY <1>1, <1>5, <2>1, <2>5, <2>10 DEF Inv, TypeInv, Rest
<1>10. QED
  BY <1>8, <1>9 DEF TradeUpdate, Transaction

\* An order is forgotten that is not owed.
LEMMA ForgottenInv ==
  ASSUME Inv, NEW o \in Order, LostOrderUpdate(o) \/ CacheExpires(o)
  PROVE  Inv'
<1>1. /\ Rest /\ Book(orders) /\ Tables(db) /\ TablesFit(db, exStatus, abandoned)
      /\ BookFits(orders, db, exStatus, abandoned) /\ up
      /\ orders' = Without(o)
      /\ UNCHANGED <<exStatus, exTrades, up, placing, db, abandoned, crashes>>
  BY DEF Inv, TypeInv, LostOrderUpdate, CacheExpires, Lost, exchangeVars
<1>2. /\ DOMAIN orders' = DOMAIN orders \ {o}
      /\ \A p \in DOMAIN orders' : orders'[p] = orders[p]
  BY <1>1 DEF Without
<1>3. o \notin Owed(db, exStatus, abandoned)
  BY <1>1 DEF LostOrderUpdate, CacheExpires, Owed, Over, BookFits, Tracked
<1>4. Book(orders')
  BY <1>1, <1>2 DEF Book
<1>5. BookFits(orders', db, exStatus, abandoned)
  BY <1>1, <1>2, <1>3 DEF BookFits, Tracked
<1>6. QED
  BY <1>1, <1>4, <1>5 DEF Inv, TypeInv, Rest

\* A lost order that is given up is owed no longer, here and in the tables.
LEMMA LostOrderNotFoundInv ==
  ASSUME Inv, NEW o \in Order, LostOrderNotFound(o)
  PROVE  Inv'
<1> DEFINE given == abandoned \cup {o}
<1>1. /\ Rest /\ Book(orders) /\ Tables(db) /\ TablesFit(db, exStatus, abandoned)
      /\ BookFits(orders, db, exStatus, abandoned) /\ up
      /\ orders' = Without(o) /\ abandoned' = given
      /\ UNCHANGED <<exStatus, exTrades, up, placing, db, crashes>>
  BY DEF Inv, TypeInv, LostOrderNotFound, Lost, exchangeVars
<1>2. TablesFit(db, exStatus, given) /\ BookFits(orders, db, exStatus, given)
  BY <1>1, GivenUp
<1>3. /\ DOMAIN orders' = DOMAIN orders \ {o}
      /\ \A p \in DOMAIN orders' : orders'[p] = orders[p]
  BY <1>1 DEF Without
<1>4. Book(orders') /\ BookFits(orders', db, exStatus, given)
  BY <1>1, <1>2, <1>3 DEF Book, BookFits, Tracked, Owed
<1>5. QED
  BY <1>1, <1>2, <1>4 DEF Inv, TypeInv, Rest

\* The exchange goes on: what was open may be over, what was over remains so.
LEMMA ExchangeInv ==
  ASSUME Inv, NEW o \in Order,
         ExchangeAnswers(o) \/ ExchangeTrades(o) \/ ExchangeCancels(o) \/ PlaceAnswered(o)
  PROVE  Inv'
<1>1. /\ Rest /\ Book(orders) /\ Tables(db) /\ TablesFit(db, exStatus, abandoned)
      /\ up => BookFits(orders, db, exStatus, abandoned)
      /\ ~up => DOMAIN orders = {}
      /\ UNCHANGED <<up, orders, db, abandoned, crashes>>
      /\ placing' = placing \/ placing' = placing \ {o}
  BY DEF Inv, TypeInv, ExchangeAnswers, ExchangeTrades, ExchangeCancels, PlaceAnswered,
         exchangeVars
<1>2. /\ exStatus' \in [Order -> Over \cup {"none", "sent", "rejected", "live"}]
      /\ exTrades' \in [Order -> SUBSET Trade]
      /\ \A p \in Order : \/ exStatus'[p] = exStatus[p]
                          \/ exStatus[p] \in {"sent", "live"} /\ exStatus'[p] # "none"
      /\ \A p \in Order : exStatus[p] \in Over \cup {"live"} => exStatus'[p] \in Over \cup {"live"}
      /\ \A p \in Order : exTrades'[p] = exTrades[p] \/ exStatus'[p] \in Over \cup {"live"}
  <2>1. CASE PlaceAnswered(o)
    BY <1>1, <2>1 DEF Rest, PlaceAnswered, exchangeVars
  <2>2. CASE ExchangeAnswers(o) \/ ExchangeCancels(o)
    <3>1. /\ exTrades' = exTrades /\ exStatus[o] \in {"sent", "live"}
          /\ \E new \in {"live", "rejected", "canceled"} :
               /\ exStatus' = [exStatus EXCEPT ![o] = new]
               /\ exStatus[o] = "live" => new = "canceled"
      BY <2>2 DEF ExchangeAnswers, ExchangeCancels
    <3>2. QED
      BY <1>1, <3>1 DEF Rest, Over
  <2>3. CASE ExchangeTrades(o)
    <3>1. /\ exStatus[o] = "live"
          /\ \E t \in Trade : exTrades' = [exTrades EXCEPT ![o] = exTrades[o] \cup {t}]
          /\ \E new \in {"live", "filled"} : exStatus' = [exStatus EXCEPT ![o] = new]
      BY <2>3 DEF ExchangeTrades
    <3>2. QED
      BY <1>1, <3>1 DEF Rest, Over
  <2>4. QED
    BY <2>1, <2>2, <2>3
<1>3. Rest'
  BY <1>1, <1>2 DEF Rest
<1>4. Owed(db, exStatus', abandoned) \subseteq Owed(db, exStatus, abandoned)
  BY <1>1, <1>2 DEF Owed, TablesFit, Tables, Over
<1>5. TablesFit(db, exStatus', abandoned)
  BY <1>1, <1>2, <1>4 DEF TablesFit, Tables
<1>6. up => BookFits(orders, db, exStatus', abandoned)
  BY <1>1, <1>4 DEF BookFits
<1>7. QED
  BY <1>1, <1>3, <1>5, <1>6 DEF Inv, TypeInv
-------------------------------------------------------------------------------
(***************************************************************************)
(* Crash and restart.                                                      *)
(***************************************************************************)
LEMMA CrashInv ==
  ASSUME Inv, Crash
  PROVE  Inv'
<1>1. /\ Rest /\ Tables(db) /\ TablesFit(db, exStatus, abandoned)
      /\ up' = FALSE /\ orders' = Nothing /\ placing' = {}
      /\ crashes' = crashes + 1 /\ crashes < MaxCrashes
      /\ UNCHANGED <<exStatus, exTrades, db, abandoned>>
  BY DEF Inv, TypeInv, Crash, exchangeVars
<1>2. DOMAIN orders' = {}
  BY <1>1 DEF Nothing
<1>3. crashes' \in 0..MaxCrashes
  BY <1>1, BoundAssumption DEF Rest
<1>4. Rest'
  BY <1>1, <1>3 DEF Rest
<1>5. QED
  BY <1>1, <1>2, <1>4 DEF Inv, TypeInv, Book

LEMMA RestartInv ==
  ASSUME Inv, Restart
  PROVE  Inv'
<1>1. /\ Rest /\ Tables(db) /\ TablesFit(db, exStatus, abandoned)
      /\ up' = TRUE /\ orders' = Restored(db.states)
      /\ UNCHANGED <<exStatus, exTrades, placing, db, abandoned, crashes>>
  BY DEF Inv, TypeInv, Restart, exchangeVars
<1>2. /\ DOMAIN orders' =
           {o \in DOMAIN db.states : db.states[o].state \in OpenStates \cup {"FAILED"}}
      /\ \A o \in DOMAIN orders' :
           orders'[o] = [home |-> IF db.states[o].state = "FAILED" THEN "lost" ELSE "active",
                         state |-> db.states[o].state, fills |-> db.states[o].fills]
  BY <1>1 DEF Restored
<1>3. ASSUME NEW o \in DOMAIN orders'
      PROVE  /\ o \in DOMAIN db.states /\ db.states[o] \in Saved
             /\ orders'[o] \in InFlightOrder
             /\ orders'[o].fills = db.states[o].fills /\ orders'[o].state = db.states[o].state
             /\ orders'[o].home \in {"active", "lost"}
             /\ orders'[o].home = "lost" <=> orders'[o].state = "FAILED"
             /\ orders'[o].state \in OpenStates \cup {"FAILED"}
  <2> DEFINE home == IF db.states[o].state = "FAILED" THEN "lost" ELSE "active"
             saved == db.states[o]
  <2>1. o \in DOMAIN db.states /\ saved.state \in OpenStates \cup {"FAILED"}
    BY <1>2
  <2>2. saved \in Saved
    BY <1>1, <2>1 DEF Tables
  <2>3. home \in {"active", "lost"} /\ (home = "lost" <=> saved.state = "FAILED")
    OBVIOUS
  <2>4. orders'[o] = [home |-> home, state |-> saved.state, fills |-> saved.fills]
    BY <1>2
  <2> HIDE DEF home
  <2>5. orders'[o] \in InFlightOrder
    BY <2>2, <2>3, <2>4 DEF Saved, InFlightOrder
  <2>6. QED
    BY <2>1, <2>2, <2>3, <2>4, <2>5
<1>4. Book(orders')
  BY <1>1, <1>2, <1>3 DEF Book, Tables
<1>5. \A o \in db.ended : o \in DOMAIN orders' => orders'[o].home # "active"
  <2> SUFFICES ASSUME NEW o \in db.ended, o \in DOMAIN orders'
               PROVE  orders'[o].home # "active"
    OBVIOUS
  <2>1. db.states[o].state \notin OpenStates
    BY <1>1, <1>3 DEF TablesFit
  <2>2. QED
    BY <1>3, <2>1
<1>6. \A o \in Owed(db, exStatus, abandoned) : Tracked(orders', o)
  <2> SUFFICES ASSUME NEW o \in Owed(db, exStatus, abandoned) PROVE Tracked(orders', o)
    OBVIOUS
  <2>1. o \in DOMAIN db.states /\ Restorable(db.states[o].state)
    BY <1>1 DEF TablesFit
  <2>2. QED
    BY <1>2, <1>3, <2>1 DEF Restorable, Tracked
<1>7. \A o \in DOMAIN orders', t \in Trade : db.fills[o][t] = 1 => t \in orders'[o].fills
  BY <1>1, <1>3 DEF TablesFit, Tables
<1>8. BookFits(orders', db, exStatus, abandoned)
  BY <1>5, <1>6, <1>7 DEF BookFits
<1>9. QED
  BY <1>1, <1>4, <1>8 DEF Inv, TypeInv, Rest
-------------------------------------------------------------------------------
(***************************************************************************)
(* The theorems.                                                           *)
(***************************************************************************)
LEMMA InitInv == Init => Inv
<1> SUFFICES ASSUME Init PROVE Inv
  OBVIOUS
<1>1. DOMAIN orders = {}
  BY DEF Init, Nothing
<1>2. /\ DOMAIN db = {"states", "records", "ended", "fills"}
      /\ DOMAIN db.states = {} /\ db.records = {} /\ db.ended = {}
      /\ db.fills = [o \in Order |-> [t \in Trade |-> 0]]
  BY DEF Init, Nothing
<1>3. \A o \in Order, t \in Trade : db.fills[o][t] = 0
  BY <1>2
<1>4. Book(orders) /\ Tables(db)
  BY <1>1, <1>2 DEF Book, Tables
<1>5. Rest
  BY BoundAssumption DEF Init, Rest
<1>6. TablesFit(db, exStatus, abandoned)
  BY <1>2, <1>3 DEF TablesFit, Owed
<1>7. BookFits(orders, db, exStatus, abandoned)
  BY <1>1, <1>2 DEF BookFits, Owed
<1>8. QED
  BY <1>1, <1>4, <1>5, <1>6, <1>7 DEF Inv, TypeInv

LEMMA NextInv == Inv /\ [Next]_vars => Inv'
<1> SUFFICES ASSUME Inv, [Next]_vars PROVE Inv'
  OBVIOUS
<1>1. ASSUME NEW o \in Order, OrderStep(o)
      PROVE  Inv'
  BY <1>1, CreateInv, OpenedInv, PlaceFailsInv, TradeUpdateInv, OrderUpdateInv,
     OrderNotFoundInv, LostOrderNotFoundInv, ForgottenInv, ExchangeInv DEF OrderStep
<1>2. CASE Crash
  BY <1>2, CrashInv
<1>3. CASE Restart
  BY <1>3, RestartInv
<1>4. CASE UNCHANGED vars
  BY <1>4 DEF vars, exchangeVars, Inv, TypeInv, Rest
<1>5. QED
  BY <1>1, <1>2, <1>3, <1>4 DEF Next

LEMMA InvAlways == Spec => []Inv
BY InitInv, NextInv, PTL DEF Spec

\* The tracker, the tables and the exchange stay well typed; the active orders are open
\* and the lost ones failed, after a restart too.
THEOREM TypeCorrect == Spec => []TypeOK
<1>1. Inv => TypeOK
  BY WellTyped DEF Inv
<1>2. QED
  BY <1>1, InvAlways, PTL

\* A fill is recorded once at most, and an order knows those that are recorded of it,
\* whatever crashes and failed transactions come between.
THEOREM FillsRecorded == Spec => []FillsRecordedOnce
<1>1. ASSUME Inv PROVE FillsRecordedOnce
  <2>1. CASE up
    BY <1>1, <2>1 DEF Inv, TablesFit, BookFits, FillsRecordedOnce
  <2>2. CASE ~up
    BY <1>1, <2>2 DEF Inv, TablesFit, FillsRecordedOnce
  <2>3. QED
    BY <2>1, <2>2
<1>2. QED
  BY <1>1, InvAlways, PTL

\* A recorded order that is open on the exchange is tracked whenever the process runs,
\* unless it was given up: because its placement failed, or because it was lost and missed again.
THEOREM RecordedAreTracked == Spec => []RecordedIsTracked
<1>1. ASSUME Inv PROVE RecordedIsTracked
  BY <1>1 DEF Inv, BookFits, Owed, Tracked, RecordedIsTracked, Active, Lost
<1>2. QED
  BY <1>1, InvAlways, PTL

\* No restart makes an order active whose end is recorded.
THEOREM EndedStayEnded == Spec => []EndedStaysEnded
<1>1. ASSUME Inv PROVE EndedStaysEnded
  BY <1>1 DEF Inv, BookFits, EndedStaysEnded, Active
<1>2. QED
  BY <1>1, InvAlways, PTL
===============================================================================
