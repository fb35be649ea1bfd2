----------------------- MODULE ExecutorOrchestratorProofs -----------------------
(***************************************************************************)
(* Proofs about ExecutorOrchestrator, for every number of executors, every *)
(* deadline and every length of the deque and of the buffer.               *)
(***************************************************************************)
EXTENDS ExecutorOrchestrator, FiniteSums, TLAPS

\* Executors are TERMINATED in the step that ends them, and stored after it only.
Ends(executor) ==
  /\ Done(executor) => executor.ended
  /\ executor.stored => Done(executor)
  /\ executor.held # {} => executor.ended
  /\ Done(executor) /\ executor.closeType = "POSITION_HOLD" => executor.held # {}
  /\ Done(executor) /\ executor.held # {} => executor.closeType \in {"POSITION_HOLD", "FAILED"}
-------------------------------------------------------------------------------
\* PositionHold._process_order, with its four branches, adds the signed amount: reducing,
\* flipping and adding are one sum, for every net and every amount.
THEOREM ProcessOrderAdds ==
  \A net \in Int, amount \in Nat, isBuy \in BOOLEAN :
    ProcessOrder(net, isBuy, amount) = net + (IF isBuy THEN amount ELSE -amount)
<1> SUFFICES ASSUME NEW net \in Int, NEW amount \in Nat, NEW isBuy \in BOOLEAN
             PROVE  ProcessOrder(net, isBuy, amount) = net + (IF isBuy THEN amount ELSE -amount)
  OBVIOUS
<1>1. CASE isBuy = TRUE
  BY <1>1 DEF ProcessOrder, Smaller, Abs
<1>2. CASE isBuy = FALSE
  BY <1>2 DEF ProcessOrder, Smaller, Abs
<1>3. QED
  BY <1>1, <1>2

-------------------------------------------------------------------------------
(***************************************************************************)
(* What the orders of executors add up to.                                 *)
(***************************************************************************)
\* The orders of the executors there are.
Known(book) == {order \in Order : order[1] \in DOMAIN book}
SignedBy(book) == [order \in Order |-> Signed(book, order)]

LEMMA OrderFinite == IsFiniteSet(Order) /\ MaxExecutors \in Nat
<1>1. MaxExecutors \in Nat
  BY CountAssumption
<1>2. IsFiniteSet(Ids)
  BY <1>1, FS_Interval DEF Ids
<1>3. IsFiniteSet({"entry"}) /\ IsFiniteSet({"close"})
  BY FS_Singleton
<1>4. IsFiniteSet({"entry"} \cup {"close"})
  BY <1>3, FS_Union
<1>5. Kind = {"entry"} \cup {"close"}
  BY DEF Kind
<1>6. QED
  BY <1>1, <1>2, <1>4, <1>5, FS_Product DEF Order

LEMMA SignedIs ==
  ASSUME NEW book \in Seq(Executor), NEW order \in Known(book)
  PROVE  /\ book[order[1]].size \in Nat /\ IsBuy(book, order) \in BOOLEAN
         /\ Signed(book, order) \in Int /\ SignedBy(book)[order] = Signed(book, order)
         /\ Signed(book, order)
              = IF IsBuy(book, order) THEN book[order[1]].size ELSE -book[order[1]].size
<1>1. book[order[1]] \in Executor
  BY DEF Known
<1>2. book[order[1]].size \in Nat
  BY <1>1, SizeAssumption DEF Executor
<1>3. QED
  BY <1>2 DEF Signed, SignedBy, IsBuy, Known

LEMMA SumIs ==
  ASSUME NEW book \in Seq(Executor), NEW orders \in SUBSET Known(book)
  PROVE  /\ IsFiniteSet(orders) /\ \A order \in orders : SignedBy(book)[order] \in Int
         /\ Sum(book, orders) = SumFunctionOnSet(SignedBy(book), orders)
         /\ Sum(book, orders) \in Int
<1> DEFINE f == [order \in orders |-> Signed(book, order)]
<1>1. IsFiniteSet(orders)
  <2>1. orders \subseteq Order
    BY DEF Known
  <2>2. QED
    BY <2>1, OrderFinite, FS_Subset
<1>2. \A order \in orders : SignedBy(book)[order] \in Int /\ f[order] = SignedBy(book)[order]
  BY SignedIs
<1>3. Sum(book, orders) = SumFunctionOnSet(f, orders)
  BY DEF Sum, SumFunction
<1> HIDE DEF f
<1>4. SumFunctionOnSet(f, orders) = SumFunctionOnSet(SignedBy(book), orders)
  BY <1>1, <1>2, SumExtensional
<1>5. SumFunctionOnSet(SignedBy(book), orders) \in Int
  BY <1>1, <1>2, SumType
<1>6. QED
  BY <1>1, <1>2, <1>3, <1>4, <1>5

LEMMA SumOfBoth ==
  ASSUME NEW book \in Seq(Executor), NEW a \in SUBSET Known(book), NEW b \in SUBSET Known(book),
         a \cap b = {}
  PROVE  Sum(book, a \cup b) = Sum(book, a) + Sum(book, b)
<1> DEFINE f == SignedBy(book)
<1>1. IsFiniteSet(a) /\ IsFiniteSet(b) /\ \A order \in a \cup b : f[order] \in Int
  BY SumIs
<1> HIDE DEF f
<1>2. SumFunctionOnSet(f, a \cup b) = SumFunctionOnSet(f, a) + SumFunctionOnSet(f, b)
  BY <1>1, SumDisjoint
<1>3. a \cup b \in SUBSET Known(book)
  OBVIOUS
<1>4. QED
  BY <1>2, <1>3, SumIs DEF f

\* What executors do does not change what their orders add up to.
SameSizes(old, new) ==
  /\ DOMAIN old \subseteq DOMAIN new
  /\ \A e \in DOMAIN old : new[e].side = old[e].side /\ new[e].size = old[e].size

LEMMA SumSame ==
  ASSUME NEW old \in Seq(Executor), NEW new \in Seq(Executor), SameSizes(old, new),
         NEW orders \in SUBSET Known(old)
  PROVE  Sum(new, orders) = Sum(old, orders)
<1> DEFINE f == SignedBy(old)
           g == SignedBy(new)
<1>1. orders \in SUBSET Known(new)
  BY DEF Known, SameSizes
<1>2. \A order \in orders : g[order] = f[order] /\ f[order] \in Int
  <2>1. SUFFICES ASSUME NEW order \in orders PROVE g[order] = f[order] /\ f[order] \in Int
    OBVIOUS
  <2>2. order \in Order /\ order[1] \in DOMAIN old
    BY DEF Known
  <2>3. Signed(new, order) = Signed(old, order)
    BY <2>2 DEF Signed, IsBuy, SameSizes
  <2>4. QED
    BY <2>2, <2>3, SumIs DEF SignedBy
<1>3. IsFiniteSet(orders)
  BY SumIs
<1> HIDE DEF f, g
<1>4. SumFunctionOnSet(g, orders) = SumFunctionOnSet(f, orders)
  BY <1>2, <1>3, SumExtensional
<1>5. QED
  BY <1>1, <1>4, SumIs DEF f, g

\* Whatever order add_orders_from_executor takes them in, processing orders adds what they add
\* up to: reducing, closing, flipping and adding one by one end where one sum does.
THEOREM OrdersAddUp ==
  ASSUME NEW book \in Seq(Executor), NEW orders \in SUBSET Known(book), NEW net \in Int
  PROVE  Processed(book, net, orders) = net + Sum(book, orders)
<1> DEFINE one(s) == CHOOSE x \in s : TRUE
           Rule(g) == g = [s \in SUBSET orders |->
             IF s = {} THEN net
             ELSE ProcessOrder(g[s \ {one(s)}], IsBuy(book, one(s)), book[one(s)[1]].size)]
           iter == CHOOSE g : Rule(g)
           f == SignedBy(book)
           h == [s \in SUBSET orders |-> net + SumFunctionOnSet(f, s)]
<1>1. Processed(book, net, orders) = iter[orders]
  BY DEF Processed, FoldSet, MapThenFoldSet
<1>2. IsFiniteSet(orders) /\ \A order \in orders : f[order] \in Int
  BY SumIs
<1>3. ASSUME NEW s \in SUBSET orders, s # {}
      PROVE  /\ one(s) \in s /\ h[s \ {one(s)}] \in Int
             /\ h[s] = h[s \ {one(s)}] + f[one(s)]
             /\ ProcessOrder(h[s \ {one(s)}], IsBuy(book, one(s)), book[one(s)[1]].size)
                  = h[s \ {one(s)}] + f[one(s)]
  <2>1. one(s) \in s /\ one(s) \in Known(book)
    BY <1>3
  <2> DEFINE x == one(s)
             r == s \ {x}
  <2>2. IsFiniteSet(s) /\ IsFiniteSet(r) /\ \A order \in s : f[order] \in Int
    BY <1>2, FS_Subset
  <2>3. x \in s
    BY <2>1
  <2> HIDE DEF f, x
  <2>4. SumFunctionOnSet(f, s) = f[x] + SumFunctionOnSet(f, r)
    BY <2>2, <2>3, SumTakeOut
  <2>5. \A order \in r : f[order] \in Int
    BY <2>2
  <2>6. SumFunctionOnSet(f, r) \in Int /\ f[x] \in Int
    BY <2>2, <2>3, <2>5, SumType
  <2>7. h[r] = net + SumFunctionOnSet(f, r) /\ h[s] = net + SumFunctionOnSet(f, s)
    OBVIOUS
  <2> HIDE DEF h
  <2>8. h[r] \in Int /\ h[s] = h[r] + f[x]
    BY <2>4, <2>6, <2>7
  <2>9. /\ book[x[1]].size \in Nat /\ IsBuy(book, x) \in BOOLEAN
        /\ f[x] = IF IsBuy(book, x) THEN book[x[1]].size ELSE -book[x[1]].size
    BY <2>1, SignedIs DEF f, x
  <2>10. ProcessOrder(h[r], IsBuy(book, x), book[x[1]].size) = h[r] + f[x]
    BY <2>8, <2>9, ProcessOrderAdds
  <2>11. QED
    BY <2>1, <2>8, <2>10 DEF x
<1>4. h[{}] = net
  BY SumEmpty
<1>5. Rule(h)
  <2>1. \A s \in SUBSET orders :
          h[s] = IF s = {} THEN net
                 ELSE ProcessOrder(h[s \ {one(s)}], IsBuy(book, one(s)), book[one(s)[1]].size)
    BY <1>3, <1>4
  <2>2. h = [s \in SUBSET orders |-> h[s]]
    OBVIOUS
  <2> HIDE DEF h
  <2>3. QED
    BY <2>1, <2>2
<1>6. Rule(iter)
  BY <1>5
<1> HIDE DEF iter
<1>7. ASSUME iter[orders] # h[orders] PROVE FALSE
  <2> DEFINE bad == {s \in SUBSET orders : iter[s] # h[s]}
  <2>1. bad \subseteq SUBSET orders /\ bad # {}
    BY <1>7
  <2> HIDE DEF bad, h
  <2>2. PICK s \in bad : \A t \in bad : t \subseteq s => t = s
    BY <1>2, <2>1, SmallestSubset
  <2>3. s \in SUBSET orders /\ iter[s] # h[s]
    BY DEF bad
  <2>4. s # {}
    BY <1>4, <1>6, <2>3
  <2>5. one(s) \in s
    BY <2>4
  <2>6. iter[s \ {one(s)}] = h[s \ {one(s)}]
    BY <2>2, <2>3, <2>5 DEF bad
  <2>7. iter[s] = ProcessOrder(iter[s \ {one(s)}], IsBuy(book, one(s)), book[one(s)[1]].size)
    BY <1>6, <2>3, <2>4
  <2>8. QED
    BY <1>3, <2>3, <2>4, <2>6, <2>7
<1>8. QED
  BY <1>1, <1>7, SumIs
-------------------------------------------------------------------------------
(***************************************************************************)
(* The held positions, and the executors that are remembered.              *)
(***************************************************************************)
OrdersOf(held) == UNION {held[i].orders : i \in DOMAIN held}
\* Orders go to the first position only.
FirstOnly(held) == held \in Seq(Position) /\ \A i \in DOMAIN held : i # 1 => held[i].orders = {}

PositionNet == [position \in Position |-> position.net]

LEMMA NetIs ==
  ASSUME NEW held \in Seq(Position)
  PROVE  /\ Net(held) = SumMapped(held, PositionNet) /\ Net(held) \in Int
         /\ PositionNet \in [Position -> Int]
<1>1. PositionNet \in [Position -> Int]
  BY DEF PositionNet, Position
<1>2. \A i \in DOMAIN held : held[i].net = PositionNet[held[i]]
  <2>1. \A i \in DOMAIN held : held[i] \in Position
    OBVIOUS
  <2>2. QED
    BY <2>1 DEF PositionNet
<1>3. Net(held) = SumMapped(held, PositionNet)
  BY <1>2 DEF Net, SumMapped, Mapped
<1>4. QED
  BY <1>1, <1>3, SumMappedType

LEMMA NetEmpty == Net(<<>>) = 0
<1>1. <<>> \in Seq(Position)
  OBVIOUS
<1>2. SumMapped(<<>>, PositionNet) = 0
  BY <1>1, NetIs, SumMappedEmpty
<1>3. QED
  BY <1>1, <1>2, NetIs

LEMMA NetOfOne ==
  ASSUME NEW position \in Position
  PROVE  Net(<<position>>) = position.net
<1>1. [i \in DOMAIN <<position>> |-> <<position>>[i].net] = <<position.net>>
  OBVIOUS
<1>2. position.net \in Int
  BY DEF Position
<1>3. QED
  BY <1>1, <1>2, SeqSumSingleton DEF Net

LEMMA NetFirst ==
  ASSUME NEW held \in Seq(Position), held # <<>>, NEW position \in Position
  PROVE  /\ [held EXCEPT ![1] = position] \in Seq(Position)
         /\ Net([held EXCEPT ![1] = position]) = Net(held) - held[1].net + position.net
<1> DEFINE new == [held EXCEPT ![1] = position]
           S == 1..Len(held)
           f == [i \in DOMAIN held |-> held[i].net]
           g == [i \in DOMAIN new |-> new[i].net]
<1>1. /\ DOMAIN held = S /\ IsFiniteSet(S) /\ 1 \in S /\ DOMAIN new = S
      /\ new \in Seq(Position) /\ new[1] = position /\ \A i \in S \ {1} : new[i] = held[i]
  BY FS_Interval
<1>2. \A i \in S : held[i] \in Position
  BY <1>1
<1>3. \A i \in S : f[i] = held[i].net /\ f[i] \in Int
  BY <1>1, <1>2 DEF Position
<1>4. g[1] = position.net /\ g[1] \in Int /\ \A i \in S \ {1} : g[i] = f[i]
  BY <1>1 DEF Position
<1>5. Net(held) = SumFunctionOnSet(f, S) /\ Net(new) = SumFunctionOnSet(g, S)
  BY <1>1 DEF Net, SumFunction
<1> HIDE DEF S, f, g, new
<1>6. SumFunctionOnSet(g, S) = SumFunctionOnSet(f, S) - f[1] + g[1]
  BY <1>1, <1>3, <1>4, SumChanged
<1>7. QED
  BY <1>1, <1>3, <1>4, <1>5, <1>6 DEF new

LEMMA AddOrdersIs ==
  ASSUME NEW book \in Seq(Executor), NEW position \in Position, NEW orders \in SUBSET Known(book)
  PROVE  /\ AddOrders(book, position, orders) \in Position
         /\ AddOrders(book, position, orders).orders = position.orders \cup orders
         /\ AddOrders(book, position, orders).net
              = position.net + Sum(book, orders \ position.orders)
<1>1. /\ orders \ position.orders \in SUBSET Known(book) /\ orders \subseteq Order
      /\ position.net \in Int /\ position.orders \subseteq Order
  BY DEF Position, Known
<1>2. Processed(book, position.net, orders \ position.orders)
        = position.net + Sum(book, orders \ position.orders)
  BY <1>1, OrdersAddUp
<1>3. Sum(book, orders \ position.orders) \in Int
  BY <1>1, SumIs
<1>4. QED
  BY <1>1, <1>2, <1>3 DEF AddOrders, Position

\* _update_positions_from_done_executors counts the orders it has not counted yet, once.
LEMMA PositionsWithIs ==
  ASSUME NEW book \in Seq(Executor), FirstOnly(positions)
  PROVE  LET new == PositionsWith(book)
             orders == HeldOrders(book, ToCount(book))
         IN /\ orders \in SUBSET Known(book)
            /\ FirstOnly(new) /\ OrdersOf(new) = OrdersOf(positions) \cup orders
            /\ Net(new) = Net(positions) + Sum(book, orders \ OrdersOf(positions))
            /\ positions # <<>> => Len(new) = Len(positions)
            /\ positions = <<>> => Len(new) <= 1
<1> DEFINE orders == HeldOrders(book, ToCount(book))
           new == PositionsWith(book)
<1>1. PICK held : held = positions
  OBVIOUS
<1>2. held \in Seq(Position) /\ \A i \in DOMAIN held : i # 1 => held[i].orders = {}
  BY <1>1 DEF FirstOnly
<1>3. orders \in SUBSET Known(book)
  BY DEF HeldOrders, ToCount, Active, Known
<1>4. CASE ToCount(book) = {}
  <2>1. orders = {} /\ new = held
    BY <1>1, <1>4 DEF HeldOrders, PositionsWith
  <2>2. Sum(book, {}) = 0
    <3>1. {} \in SUBSET Known(book)
      OBVIOUS
    <3>2. Sum(book, {}) = SumFunctionOnSet(SignedBy(book), {})
      BY <3>1, SumIs
    <3>3. QED
      BY <3>2, SumEmpty
  <2>3. Net(held) \in Int /\ orders \ OrdersOf(held) = {} /\ OrdersOf(held) \cup orders = OrdersOf(held)
    BY <1>2, <2>1, NetIs
  <2>4. Net(held) = Net(held) + Sum(book, orders \ OrdersOf(held))
    <3> DEFINE rest == orders \ OrdersOf(held)
    <3>1. rest = {}
      BY <2>3
    <3> HIDE DEF rest
    <3>2. Net(held) = Net(held) + Sum(book, rest)
      BY <2>2, <2>3, <3>1
    <3>3. QED
      BY <3>2 DEF rest
  <2>5. held = <<>> => Len(held) <= 1
    OBVIOUS
  <2> HIDE DEF orders, new
  <2>6. QED
    BY <1>1, <1>2, <1>3, <2>1, <2>3, <2>4, <2>5 DEF FirstOnly, orders, new
<1>5. CASE ToCount(book) # {} /\ held = <<>>
  <2> DEFINE empty == [net |-> 0, orders |-> {}]
             first == AddOrders(book, empty, orders)
  <2>1. new = <<first>>
    BY <1>1, <1>5 DEF PositionsWith
  <2>2. empty \in Position /\ empty.net = 0 /\ empty.orders = {}
    BY DEF Position
  <2> HIDE DEF empty, orders
  <2>3. first \in Position /\ first.orders = orders /\ first.net = Sum(book, orders)
    <3>1. /\ first \in Position /\ first.orders = empty.orders \cup orders
          /\ first.net = empty.net + Sum(book, orders \ empty.orders)
      BY <1>3, <2>2, AddOrdersIs
    <3>2. Sum(book, orders) \in Int /\ orders \ empty.orders = orders
      BY <1>3, <2>2, SumIs
    <3>3. QED
      BY <2>2, <3>1, <3>2
  <2> HIDE DEF first, new
  <2>4. FirstOnly(new) /\ OrdersOf(new) = orders /\ Net(new) = first.net /\ Len(new) = 1
    BY <2>1, <2>3, NetOfOne DEF FirstOnly, OrdersOf
  <2>5. OrdersOf(held) = {} /\ Net(held) = 0 /\ Sum(book, orders) \in Int
    BY <1>3, <1>5, NetEmpty, SumIs DEF OrdersOf
  <2>6. /\ OrdersOf(held) \cup orders = orders /\ orders \ OrdersOf(held) = orders
        /\ Net(new) = Net(held) + Sum(book, orders)
    BY <2>3, <2>4, <2>5
  <2>7. FirstOnly(new) /\ OrdersOf(new) = OrdersOf(held) \cup orders
    BY <2>4, <2>6
  <2>8. Net(new) = Net(held) + Sum(book, orders \ OrdersOf(held))
    BY <2>6
  <2>9. QED
    BY <1>1, <1>3, <1>5, <2>4, <2>7, <2>8 DEF orders, new
<1>6. CASE ToCount(book) # {} /\ held # <<>>
  <2> DEFINE first == AddOrders(book, held[1], orders)
  <2>1. new = [held EXCEPT ![1] = first]
    BY <1>1, <1>6 DEF PositionsWith
  <2>2. 1 \in DOMAIN held /\ held[1] \in Position
    BY <1>2, <1>6
  <2> HIDE DEF orders
  <2>3. /\ first \in Position /\ first.orders = held[1].orders \cup orders
        /\ first.net = held[1].net + Sum(book, orders \ held[1].orders)
    <3>1. PICK one \in Position : one = held[1]
      BY <2>2
    <3> DEFINE added == AddOrders(book, one, orders)
    <3>2. /\ added \in Position /\ added.orders = one.orders \cup orders
          /\ added.net = one.net + Sum(book, orders \ one.orders)
      BY <1>3, AddOrdersIs
    <3>3. first = added
      BY <3>1
    <3> HIDE DEF added, first
    <3>4. QED
      BY <3>1, <3>2, <3>3
  <2> HIDE DEF first, new
  <2>4. new \in Seq(Position) /\ Net(new) = Net(held) - held[1].net + first.net
    BY <1>2, <1>6, <2>1, <2>3, NetFirst
  <2>5. DOMAIN new = DOMAIN held /\ new[1] = first /\ \A i \in DOMAIN held : i # 1 => new[i] = held[i]
    BY <1>2, <2>1, <2>2
  <2>6. OrdersOf(held) = held[1].orders
    BY <1>2, <2>2 DEF OrdersOf
  <2>7. FirstOnly(new) /\ OrdersOf(new) = first.orders /\ Len(new) = Len(held)
    <3>1. \A i \in DOMAIN new : i # 1 => new[i].orders = {}
      BY <1>2, <2>5
    <3>2. OrdersOf(new) = first.orders
      BY <2>2, <2>5, <3>1 DEF OrdersOf
    <3>3. Len(new) = Len(held)
      BY <1>2, <2>4, <2>5
    <3>4. QED
      BY <2>4, <3>1, <3>2, <3>3 DEF FirstOnly
  <2>8. /\ Net(held) \in Int /\ held[1].net \in Int
        /\ Sum(book, orders \ held[1].orders) \in Int
    <3>1. orders \ held[1].orders \in SUBSET Known(book)
      BY <1>3
    <3>2. QED
      BY <1>2, <2>2, <3>1, NetIs, SumIs DEF Position
  <2>9. QED
    BY <1>1, <1>3, <1>6, <2>3, <2>4, <2>6, <2>7, <2>8 DEF orders, new
<1>7. QED
  BY <1>1, <1>4, <1>5, <1>6
ListedUpTo(listed, ids) ==
  listed = [n \in 0..MaxExecutors |->
              IF n = 0 THEN <<>>
              ELSE IF n \in ids THEN Append(listed[n - 1], n) ELSE listed[n - 1]]

LEMMA ListedIs == ASSUME NEW ids \in SUBSET Ids PROVE Listed(ids) \in Seq(ids)
<1> DEFINE N == MaxExecutors
           V == Seq(ids)
           F == [p \in (1..N) \X V |-> IF p[1] \in ids THEN Append(p[2], p[1]) ELSE p[2]]
<1>1. N \in Nat /\ <<>> \in V
  BY OrderFinite
<1>2. ASSUME NEW n \in 1..N, NEW v \in V
      PROVE  F[<<n, v>>] = (IF n \in ids THEN Append(v, n) ELSE v) /\ F[<<n, v>>] \in V
  OBVIOUS
<1> HIDE DEF F, V
<1>3. PICK g : IsRecursion(g, N, V, <<>>, F)
  BY <1>1, <1>2, RecursionExists
<1>4. /\ g = [n \in 0..N |-> g[n]] /\ g[0] = <<>> /\ \A n \in 0..N : g[n] \in V
      /\ \A n \in 1..N : g[n] = F[<<n, g[n - 1]>>]
  BY <1>3 DEF IsRecursion
<1>5. ASSUME NEW n \in 1..N
      PROVE  n - 1 \in 0..N /\ g[n] = IF n \in ids THEN Append(g[n - 1], n) ELSE g[n - 1]
  <2>1. n - 1 \in 0..N
    BY <1>1
  <2>2. QED
    BY <1>2, <1>4, <2>1
<1>6. ListedUpTo(g, ids)
  <2>1. \A n \in 0..N : g[n] = IF n = 0 THEN <<>>
                               ELSE IF n \in ids THEN Append(g[n - 1], n) ELSE g[n - 1]
    <3>1. \A n \in 0..N : n = 0 \/ n \in 1..N
      BY <1>1
    <3>2. QED
      BY <1>4, <1>5, <3>1
  <2>2. g = [n \in 0..N |-> IF n = 0 THEN <<>>
                            ELSE IF n \in ids THEN Append(g[n - 1], n) ELSE g[n - 1]]
    BY <1>4, <2>1
  <2>3. QED
    BY <2>2 DEF ListedUpTo
<1> DEFINE listed == CHOOSE l : ListedUpTo(l, ids)
<1>7. ListedUpTo(listed, ids)
  BY <1>6
<1>8. Listed(ids) = listed[N]
  BY DEF Listed, ListedUpTo
<1> HIDE DEF listed
<1>9. \A n \in 0..N : listed[n] = IF n = 0 THEN <<>>
                                  ELSE IF n \in ids THEN Append(listed[n - 1], n) ELSE listed[n - 1]
  BY <1>7 DEF ListedUpTo
<1> DEFINE good == {n \in 0..N : listed[n] \in V}
<1>10. 0 \in good
  BY <1>1, <1>9
<1>11. ASSUME NEW n \in 1..N, n - 1 \in good PROVE n \in good
  <2>1. n \in 0..N /\ n # 0 /\ listed[n - 1] \in V
    BY <1>1, <1>11
  <2>2. listed[n] = IF n \in ids THEN Append(listed[n - 1], n) ELSE listed[n - 1]
    BY <1>9, <2>1
  <2>3. \A v \in V : n \in ids => Append(v, n) \in V
    BY DEF V
  <2>4. listed[n] \in V
    BY <2>1, <2>2, <2>3
  <2>5. QED
    BY <2>1, <2>4
<1> HIDE DEF good
<1>12. 0..N \subseteq good
  BY <1>1, <1>10, <1>11, UpTo
<1>13. QED
  BY <1>1, <1>8, <1>12 DEF good, V

\* The deque keeps the latest ones.
LEMMA LatestIs ==
  ASSUME NEW V, NEW ids \in Seq(V)
  PROVE  Latest(ids) \in Seq(V) /\ Len(Latest(ids)) <= Remembered /\ Range(Latest(ids)) \subseteq Range(ids)
<1> DEFINE L == Len(ids)
           kept == Smaller(L, Remembered)
           new == Latest(ids)
<1>1. L \in Nat /\ kept \in 0..L /\ kept <= Remembered /\ DOMAIN ids = 1..L
  BY CountAssumption DEF Smaller
<1>2. new = SubSeq(ids, 1 + L - kept, L)
  BY DEF Latest
<1> HIDE DEF kept, new
<1>3. \A i \in (1 + L - kept)..L : ids[i] \in V
  BY <1>1
<1>4. new \in Seq(V)
  BY <1>1, <1>2, <1>3
<1>5. Len(new) = kept /\ \A i \in 1..kept : new[i] = ids[i + L - kept] /\ i + L - kept \in 1..L
  BY <1>1, <1>2
<1>6. DOMAIN new = 1..kept
  BY <1>4, <1>5
<1>7. QED
  BY <1>1, <1>4, <1>5, <1>6 DEF Range, new
-------------------------------------------------------------------------------
(***************************************************************************)
(* What is counted.                                                        *)
(***************************************************************************)
\* Every counted order is held by an executor and added once; what the deque remembers and what
\* is stored is counted.
Accounted(book, held, ids, start) ==
  /\ FirstOnly(held) /\ ids \in Seq(DOMAIN book) /\ start \in Int
  /\ OrdersOf(held) \subseteq HeldOrders(book, DOMAIN book)
  /\ \A e \in Range(ids) : book[e].held # {}
  /\ \A e \in DOMAIN book :
       e \in Range(ids) \/ (book[e].stored /\ book[e].closeType = "POSITION_HOLD")
         => HeldOrders(book, {e}) \subseteq OrdersOf(held)
  /\ Net(held) = start + Sum(book, OrdersOf(held))

DoneCounted(book, held) ==
  \A e \in Active(book) :
    Done(book[e]) /\ book[e].closeType = "POSITION_HOLD" => HeldOrders(book, {e}) \subseteq OrdersOf(held)

Book(book) ==
  /\ book \in Seq(Executor) /\ Len(book) <= MaxExecutors
  /\ \A e \in DOMAIN book : Ends(book[e])

LEMMA BookIds == ASSUME NEW book, Book(book) PROVE DOMAIN book \subseteq Ids
BY OrderFinite DEF Book, Ids

\* Counting accounts for every executor that has ended holding its position.
LEMMA CountStep ==
  ASSUME NEW book, Book(book), Accounted(book, positions, remembered, opening), Count(book)
  PROVE  /\ Accounted(book, positions', remembered', opening) /\ DoneCounted(book, positions')
         /\ Len(remembered') <= Remembered
         /\ positions # <<>> => Len(positions') = Len(positions)
         /\ positions = <<>> => Len(positions') <= 1
<1> DEFINE new == PositionsWith(book)
           fresh == ToCount(book)
           orders == HeldOrders(book, fresh)
<1>1. PICK held, ids, after : held = positions /\ ids = remembered /\ after = remembered'
  OBVIOUS
<1>2. /\ Accounted(book, held, ids, opening) /\ book \in Seq(Executor) /\ positions' = new
      /\ after = Latest(ids \o Listed(fresh))
  BY <1>1 DEF Count, Book
<1>3. /\ fresh \subseteq DOMAIN book /\ fresh \subseteq Ids
      /\ \A e \in Active(book) : Done(book[e]) /\ book[e].closeType = "POSITION_HOLD"
                                   => e \in fresh \/ e \in Range(ids)
      /\ \A e \in fresh : book[e].held # {}
  <2>1. DOMAIN book \subseteq Ids /\ fresh \subseteq DOMAIN book
    BY BookIds DEF ToCount, Active
  <2>2. QED
    BY <1>1, <2>1 DEF ToCount, Book, Ends, Active
<1>4. /\ orders \in SUBSET Known(book) /\ FirstOnly(new) /\ OrdersOf(new) = OrdersOf(held) \cup orders
      /\ Net(new) = Net(held) + Sum(book, orders \ OrdersOf(held))
      /\ held # <<>> => Len(new) = Len(held)
      /\ held = <<>> => Len(new) <= 1
  BY <1>1, <1>2, PositionsWithIs DEF Accounted
<1> HIDE DEF new, fresh
<1>5. after \in Seq(DOMAIN book) /\ Len(after) <= Remembered /\ Range(after) \subseteq Range(ids) \cup fresh
  <2>1. Listed(fresh) \in Seq(fresh) /\ ids \in Seq(DOMAIN book)
    BY <1>2, <1>3, ListedIs DEF Accounted
  <2> DEFINE more == Listed(fresh)
             both == ids \o more
  <2>2. more \in Seq(fresh) /\ more \in Seq(DOMAIN book)
    BY <1>3, <2>1
  <2> HIDE DEF more
  <2>3. both \in Seq(DOMAIN book) /\ Range(both) \subseteq Range(ids) \cup fresh
    <3>1. /\ both \in Seq(DOMAIN book) /\ Len(both) = Len(ids) + Len(more)
          /\ \A i \in 1..Len(both) : both[i] = IF i <= Len(ids) THEN ids[i] ELSE more[i - Len(ids)]
      BY <2>1, <2>2
    <3>2. ASSUME NEW i \in 1..Len(both) PROVE both[i] \in Range(ids) \cup fresh
      <4>1. CASE i <= Len(ids)
        BY <2>1, <3>1, <4>1 DEF Range
      <4>2. CASE ~ (i <= Len(ids))
        <5>1. i - Len(ids) \in 1..Len(more)
          BY <2>1, <2>2, <3>1, <4>2
        <5>2. QED
          BY <2>2, <3>1, <4>2, <5>1
      <4>3. QED
        BY <4>1, <4>2
    <3>3. DOMAIN both = 1..Len(both)
      BY <3>1
    <3> HIDE DEF both
    <3>4. QED
      BY <3>1, <3>2, <3>3 DEF Range
  <2> HIDE DEF both
  <2>4. after = Latest(both)
    BY <1>2 DEF both, more
  <2>5. QED
    BY <2>3, <2>4, LatestIs
<1>6. OrdersOf(new) \subseteq HeldOrders(book, DOMAIN book)
  BY <1>2, <1>3, <1>4 DEF Accounted, HeldOrders
<1>7. ASSUME NEW e \in fresh PROVE HeldOrders(book, {e}) \subseteq OrdersOf(new)
  BY <1>4 DEF HeldOrders
<1>8. \A e \in Range(ids) : e \in DOMAIN book /\ HeldOrders(book, {e}) \subseteq OrdersOf(new)
  <2>1. \A e \in Range(ids) : e \in DOMAIN book
    BY <1>2 DEF Accounted, Range
  <2>2. QED
    BY <1>2, <1>4, <2>1 DEF Accounted
<1>9. Net(new) = opening + Sum(book, OrdersOf(new))
  <2> DEFINE old == OrdersOf(held)
             rest == orders \ old
  <2>1. old \in SUBSET Known(book) /\ rest \in SUBSET Known(book) /\ old \cap rest = {}
        /\ old \cup rest = OrdersOf(new)
    BY <1>2, <1>4 DEF Accounted, HeldOrders, Known
  <2>2. Net(held) = opening + Sum(book, old) /\ opening \in Int /\ Net(new) = Net(held) + Sum(book, rest)
    BY <1>2, <1>4 DEF Accounted
  <2> HIDE DEF old, rest, orders
  <2>3. Sum(book, old \cup rest) = Sum(book, old) + Sum(book, rest)
    BY <1>2, <2>1, SumOfBoth
  <2>4. Sum(book, old) \in Int /\ Sum(book, rest) \in Int
    BY <1>2, <2>1, SumIs
  <2>5. Net(new) = opening + Sum(book, old \cup rest)
    BY <2>2, <2>3, <2>4
  <2>6. QED
    BY <2>1, <2>5
<1>10. Accounted(book, new, after, opening)
  <2>1. \A e \in Range(after) : book[e].held # {} /\ HeldOrders(book, {e}) \subseteq OrdersOf(new)
    BY <1>2, <1>3, <1>5, <1>7, <1>8 DEF Accounted
  <2>2. \A e \in DOMAIN book : book[e].stored /\ book[e].closeType = "POSITION_HOLD"
                                 => HeldOrders(book, {e}) \subseteq OrdersOf(new)
    BY <1>2, <1>4 DEF Accounted
  <2>3. opening \in Int
    BY <1>2 DEF Accounted
  <2>4. QED
    BY <1>4, <1>5, <1>6, <1>9, <2>1, <2>2, <2>3 DEF Accounted
<1>11. DoneCounted(book, new)
  BY <1>3, <1>7, <1>8 DEF DoneCounted
<1>12. QED
  BY <1>1, <1>2, <1>4, <1>5, <1>10, <1>11

\* What executors go on doing: those that hold orders keep them, and stored ones rest.
Advanced(old, new) ==
  /\ SameSizes(old, new)
  /\ \A e \in DOMAIN old : old[e].held # {} => new[e].held = old[e].held
  /\ \A e \in DOMAIN new : new[e].stored => e \in DOMAIN old /\ new[e] = old[e]

LEMMA AdvancedAccounted ==
  ASSUME NEW old \in Seq(Executor), NEW new \in Seq(Executor), Advanced(old, new),
         NEW held, NEW ids, NEW start, Accounted(old, held, ids, start)
  PROVE  Accounted(new, held, ids, start)
<1>1. /\ SameSizes(old, new) /\ DOMAIN old \subseteq DOMAIN new
      /\ \A e \in DOMAIN old : old[e].held # {} => new[e].held = old[e].held
  BY DEF Advanced, SameSizes
<1>2. ids \in Seq(DOMAIN new) /\ \A e \in Range(ids) : e \in DOMAIN old
  BY <1>1 DEF Accounted, Range
<1>3. OrdersOf(held) \subseteq HeldOrders(new, DOMAIN new)
  BY <1>1 DEF Accounted, HeldOrders
<1>4. \A e \in Range(ids) : new[e].held # {} /\ HeldOrders(new, {e}) = HeldOrders(old, {e})
  BY <1>1, <1>2 DEF Accounted, HeldOrders
<1>5. \A e \in DOMAIN new : new[e].stored /\ new[e].closeType = "POSITION_HOLD"
        => HeldOrders(new, {e}) \subseteq OrdersOf(held)
  BY DEF Advanced, Accounted, HeldOrders
<1>6. Sum(new, OrdersOf(held)) = Sum(old, OrdersOf(held))
  <2>1. OrdersOf(held) \in SUBSET Known(old)
    BY DEF Accounted, HeldOrders, Known
  <2>2. QED
    BY <1>1, <2>1, SumSame
<1>7. QED
  BY <1>2, <1>3, <1>4, <1>5, <1>6 DEF Accounted

\* Executors that are stored are counted.
Stores(old, new, held) ==
  /\ DOMAIN new = DOMAIN old
  /\ \A e \in DOMAIN old :
       \/ new[e] = old[e]
       \/ /\ new[e] = [old[e] EXCEPT !.stored = TRUE]
          /\ old[e].closeType = "POSITION_HOLD" => HeldOrders(old, {e}) \subseteq OrdersOf(held)

LEMMA StoresAccounted ==
  ASSUME NEW old \in Seq(Executor), NEW new \in Seq(Executor),
         NEW held, NEW ids, NEW start, Accounted(old, held, ids, start), Stores(old, new, held)
  PROVE  Accounted(new, held, ids, start)
<1>1. \A e \in DOMAIN old : old[e] \in Executor
  OBVIOUS
<1>2. /\ DOMAIN new = DOMAIN old
      /\ \A e \in DOMAIN old : /\ new[e].held = old[e].held /\ new[e].side = old[e].side
                               /\ new[e].size = old[e].size /\ new[e].closeType = old[e].closeType
                               /\ HeldOrders(new, {e}) = HeldOrders(old, {e})
  BY <1>1 DEF Stores, HeldOrders, Executor
<1>3. HeldOrders(new, DOMAIN new) = HeldOrders(old, DOMAIN old)
  BY <1>2 DEF HeldOrders
<1>4. \A e \in DOMAIN new : new[e].stored /\ new[e].closeType = "POSITION_HOLD"
        => HeldOrders(new, {e}) \subseteq OrdersOf(held)
  BY <1>1, <1>2 DEF Stores, Accounted, Executor
<1>5. \A e \in Range(ids) : e \in DOMAIN old
  BY DEF Accounted, Range
<1>6. Sum(new, OrdersOf(held)) = Sum(old, OrdersOf(held))
  <2>1. OrdersOf(held) \in SUBSET Known(old)
    BY DEF Accounted, HeldOrders, Known
  <2>2. SameSizes(old, new)
    BY <1>2 DEF SameSizes
  <2>3. QED
    BY <2>1, <2>2, SumSame
<1>7. QED
  BY <1>2, <1>3, <1>4, <1>5, <1>6 DEF Accounted
-------------------------------------------------------------------------------
(***************************************************************************)
(* The steps of executors, controllers and strategy.                       *)
(***************************************************************************)
Control ==
  /\ phase \in {"running", "stopping", "finishing", "stopped"}
  /\ elapsed \in 0..HardCap /\ stalled \in 0..StallBudget
  /\ DOMAIN signature \subseteq Ids
  /\ {opening, saved} \subseteq Int
  /\ rows \in [{"BUY", "SELL"} -> Nat \cup {NoRow}]

\* Unless there are rows of both sides there is one position at most.
RowsMatch ==
  phase # "stopped" =>
    /\ Present = {} => Len(positions) <= 1
    /\ \A side : Present = {side} => Len(positions) = 1

Inv ==
  /\ Control /\ Book(executors) /\ Len(remembered) <= Remembered
  /\ Accounted(executors, positions, remembered, opening)
  /\ StopEndsAll /\ RowsMatch /\ HeldIsSaved /\ OneRowIsTheNet

LEMMA Bounds == HardCap \in Nat /\ StallBudget \in Nat
BY CountAssumption DEF HardCap

\* What a step before the end has to show.
Grown ==
  /\ positions # <<>> => Len(positions') = Len(positions)
  /\ positions = <<>> => Len(positions') <= 1

LEMMA NotStopped ==
  ASSUME Inv, phase # "stopped", phase' # "stopped", Control', rows' = rows, Book(executors'),
         Accounted(executors', positions', remembered', opening'), Len(remembered') <= Remembered, Grown
  PROVE  Inv'
<1>1. Present' = Present
  BY DEF Present
<1>2. positions \in Seq(Position) /\ positions' \in Seq(Position)
  BY DEF Inv, Accounted, FirstOnly
<1>3. RowsMatch'
  <2>1. Present = {} => Len(positions') <= 1
    BY <1>2 DEF Inv, RowsMatch, Grown
  <2>2. \A side : Present = {side} => Len(positions') = 1
    BY <1>2 DEF Inv, RowsMatch, Grown
  <2>3. QED
    BY <1>1, <2>1, <2>2 DEF RowsMatch
<1>4. StopEndsAll' /\ HeldIsSaved' /\ OneRowIsTheNet'
  BY DEF StopEndsAll, HeldIsSaved, OneRowIsTheNet
<1>5. QED
  BY <1>3, <1>4 DEF Inv

LEMMA AdvancedCounted ==
  ASSUME Inv, Book(executors'), Advanced(executors, executors'), opening' = opening,
         Count(executors') \/ UNCHANGED <<positions, remembered>>
  PROVE  /\ Accounted(executors', positions', remembered', opening')
         /\ Len(remembered') <= Remembered /\ Grown
<1>1. PICK book : book = executors'
  OBVIOUS
<1>2. PICK old : old = executors
  OBVIOUS
<1>3. /\ old \in Seq(Executor) /\ book \in Seq(Executor) /\ Advanced(old, book) /\ Book(book)
      /\ Accounted(old, positions, remembered, opening) /\ Len(remembered) <= Remembered
  BY <1>1, <1>2 DEF Inv, Book
<1>4. Accounted(book, positions, remembered, opening)
  BY <1>3, AdvancedAccounted
<1>5. CASE Count(executors')
  <2>1. Count(book)
    BY <1>1, <1>5 DEF Count
  <2>2. QED
    BY <1>1, <1>3, <1>4, <2>1, CountStep DEF Grown
<1>6. CASE UNCHANGED <<positions, remembered>>
  BY <1>1, <1>3, <1>4, <1>6 DEF Grown
<1>7. QED
  BY <1>5, <1>6

LEMMA StoppedEnds ==
  ASSUME NEW executor \in Executor, ~executor.stored, Ends(executor), NEW keepPosition \in BOOLEAN
  PROVE  LET new == Stopped(executor, keepPosition)
         IN /\ new \in Executor /\ Ends(new) /\ ~new.stored
            /\ new.side = executor.side /\ new.size = executor.size /\ new.held = executor.held
BY CloseTypeAssumption DEF Stopped, Executor, Statuses, Ends, Done

\* One executor goes on.
LEMMA OneAdvances ==
  ASSUME NEW book, Book(book), NEW e \in DOMAIN book, NEW new \in Executor, Ends(new), ~new.stored,
         new.side = book[e].side, new.size = book[e].size,
         book[e].held # {} => new.held = book[e].held
  PROVE  Book([book EXCEPT ![e] = new]) /\ Advanced(book, [book EXCEPT ![e] = new])
<1> DEFINE after == [book EXCEPT ![e] = new]
<1>1. book \in Seq(Executor)
  BY DEF Book
<1>2. /\ after \in Seq(Executor) /\ Len(after) = Len(book) /\ DOMAIN after = DOMAIN book
      /\ after[e] = new /\ \A d \in DOMAIN book : d # e => after[d] = book[d]
  BY <1>1
<1> HIDE DEF after
<1>3. Book(after)
  BY <1>2 DEF Book
<1>4. Advanced(book, after)
  BY <1>2 DEF Advanced, SameSizes
<1>5. QED
  BY <1>3, <1>4 DEF after

LEMMA CreateExecutorInv == ASSUME Inv, CreateExecutor PROVE Inv'
<1>1. PICK side \in {-1, 1}, size \in Sizes :
        executors' = Append(executors,
          [side |-> side, size |-> size, status |-> "RUNNING", closeType |-> "none", ended |-> FALSE,
           held |-> {}, stored |-> FALSE])
  BY DEF CreateExecutor
<1> DEFINE new == [side |-> side, size |-> size, status |-> "RUNNING", closeType |-> "none",
                   ended |-> FALSE, held |-> {}, stored |-> FALSE]
<1>2. new \in Executor /\ Ends(new) /\ ~new.stored
  BY DEF Executor, Statuses, Kind, Ends, Done
<1> HIDE DEF new
<1>3. executors' = Append(executors, new) /\ executors \in Seq(Executor) /\ Len(executors) < MaxExecutors
  BY <1>1 DEF new, Inv, Book, CreateExecutor
<1>4. /\ executors' \in Seq(Executor) /\ Len(executors') = Len(executors) + 1
      /\ DOMAIN executors' = DOMAIN executors \cup {Len(executors) + 1}
      /\ executors'[Len(executors) + 1] = new
      /\ \A e \in DOMAIN executors : executors'[e] = executors[e]
  BY <1>2, <1>3
<1>5. Book(executors')
  BY <1>2, <1>3, <1>4, OrderFinite DEF Inv, Book
<1>6. Advanced(executors, executors')
  BY <1>2, <1>4 DEF Advanced, SameSizes
<1>7. Count(executors') /\ rows' = rows /\ opening' = opening /\ phase # "stopped" /\ phase' # "stopped"
  BY DEF CreateExecutor
<1>8. Control'
  BY DEF CreateExecutor, Inv, Control, stopVars
<1>9. QED
  BY <1>5, <1>6, <1>7, <1>8, AdvancedCounted, NotStopped

LEMMA StopExecutorInv == ASSUME Inv, StopExecutor PROVE Inv'
<1>1. PICK e \in Active(executors), keepPosition \in BOOLEAN :
        executors' = [executors EXCEPT ![e] = Stopped(executors[e], keepPosition)]
  BY DEF StopExecutor
<1> DEFINE new == Stopped(executors[e], keepPosition)
<1>2. Book(executors) /\ e \in DOMAIN executors /\ executors[e] \in Executor /\ Ends(executors[e])
  BY DEF Active, Inv, Book
<1>3. ~executors[e].stored
  BY DEF Active
<1>4. /\ new \in Executor /\ Ends(new) /\ ~new.stored /\ new.side = executors[e].side
      /\ new.size = executors[e].size /\ new.held = executors[e].held
  BY <1>2, <1>3, StoppedEnds
<1>5. executors' = [executors EXCEPT ![e] = new]
  BY <1>1
<1> HIDE DEF new
<1>6. Book(executors') /\ Advanced(executors, executors')
  BY <1>2, <1>4, <1>5, OneAdvances
<1>7. /\ Count(executors') \/ UNCHANGED <<positions, remembered>>
      /\ rows' = rows /\ opening' = opening /\ phase # "stopped" /\ phase' # "stopped"
  BY DEF StopExecutor
<1>8. Control'
  BY DEF StopExecutor, Inv, Control, stopVars
<1>9. QED
  BY <1>6, <1>7, <1>8, AdvancedCounted, NotStopped

LEMMA TickInv == ASSUME Inv, Tick PROVE Inv'
<1> DEFINE done == {e \in Active(executors) : Done(executors[e])}
           old == {e \in done : Cardinality({d \in done : d > e}) >= Buffer}
<1>1. PICK stores \in BOOLEAN :
      /\ executors' = [e \in DOMAIN executors |->
            IF stores /\ e \in old THEN [executors[e] EXCEPT !.stored = TRUE] ELSE executors[e]]
      /\ phase' = phase /\ phase \in {"running", "stopping"} /\ rows' = rows /\ opening' = opening
  BY DEF Tick
<1>2. \A e \in old : Done(executors[e]) /\ e \in Active(executors)
  OBVIOUS
<1> HIDE DEF old
<1>3. \A e \in DOMAIN executors : executors'[e] \in Executor /\ Ends(executors'[e])
  <2> SUFFICES ASSUME NEW e \in DOMAIN executors
               PROVE  executors'[e] \in Executor /\ Ends(executors'[e])
    OBVIOUS
  <2>1. executors[e] \in Executor /\ Ends(executors[e])
    BY DEF Inv, Book
  <2>2. CASE executors'[e] = [executors[e] EXCEPT !.stored = TRUE] /\ Done(executors[e])
    BY <2>1, <2>2 DEF Executor, Ends, Done
  <2>3. CASE executors'[e] = executors[e]
    BY <2>1, <2>3
  <2>4. QED
    BY <1>1, <1>2, <2>2, <2>3
<1>4. /\ DOMAIN executors' = DOMAIN executors /\ executors' \in Seq(Executor)
      /\ Len(executors') = Len(executors)
  BY <1>1, <1>3 DEF Inv, Book
<1>5. PICK book : book = executors
  OBVIOUS
<1>6. Book(book) /\ Count(book) /\ Accounted(book, positions, remembered, opening)
  BY <1>5 DEF Inv, Tick, Count
<1>7. /\ Accounted(book, positions', remembered', opening) /\ DoneCounted(book, positions')
      /\ Len(remembered') <= Remembered /\ Grown
  BY <1>6, CountStep DEF Grown
<1>8. Stores(book, executors', positions')
  <2>1. \A e \in old : book[e].closeType = "POSITION_HOLD" => HeldOrders(book, {e}) \subseteq OrdersOf(positions')
    BY <1>2, <1>5, <1>7 DEF DoneCounted
  <2>2. QED
    BY <1>1, <1>4, <1>5, <2>1 DEF Stores
<1>9. Accounted(executors', positions', remembered', opening')
  <2>1. book \in Seq(Executor)
    BY <1>6 DEF Book
  <2>2. QED
    BY <1>1, <1>4, <1>7, <1>8, <2>1, StoresAccounted
<1>10. Book(executors')
  BY <1>3, <1>4 DEF Inv, Book
<1>11. Control'
  BY DEF Tick, Inv, Control, stopVars
<1>12. QED
  BY <1>1, <1>7, <1>9, <1>10, <1>11, NotStopped

LEMMA ExecutorStepInv == ASSUME Inv, ExecutorStep PROVE Inv'
<1>1. PICK e \in Active(executors) :
        /\ \E status \in Statuses, why \in CloseTypes, ended \in BOOLEAN, held \in SUBSET Kind :
             /\ executors[e].held \subseteq held
             /\ executors' = [executors EXCEPT ![e].status = status, ![e].closeType = why,
                                               ![e].ended = ended, ![e].held = held]
        /\ Lifecycle(e)!OwnStep
        /\ executors'[e].held # executors[e].held => Lifecycle(e)!Hold
        /\ Done(executors[e]) => e \notin ToCount(executors)
  BY Zenon DEF ExecutorStep
<1>2. PICK status \in Statuses, why \in CloseTypes, ended \in BOOLEAN, held \in SUBSET Kind :
        /\ executors[e].held \subseteq held
        /\ executors' = [executors EXCEPT ![e].status = status, ![e].closeType = why,
                                          ![e].ended = ended, ![e].held = held]
  BY <1>1, Zenon
<1> DEFINE new == [executors[e] EXCEPT !.status = status, !.closeType = why,
                                       !.ended = ended, !.held = held]
<1>3. /\ Book(executors) /\ e \in DOMAIN executors /\ ~executors[e].stored
      /\ executors[e] \in Executor /\ Ends(executors[e])
  BY DEF Active, Inv, Book
<1>4. /\ new \in Executor /\ ~new.stored /\ new.side = executors[e].side /\ new.size = executors[e].size
      /\ new.status = status /\ new.ended = ended /\ new.held = held /\ new.closeType = why
  BY <1>3 DEF Executor
<1> HIDE DEF new
<1>5. executors' = [executors EXCEPT ![e] = new]
  BY <1>2 DEF new
<1>6. executors'[e] = new
  BY <1>3, <1>5 DEF Book
<1>7. executors[e].held # {} => new.held = executors[e].held
  BY <1>1, <1>3, <1>6 DEF Lifecycle!Hold, Ends
<1>8. Ends(new)
  BY <1>1, <1>3, <1>4, <1>6 DEF Ends, Done, Executor,
     Lifecycle!OwnStep, Lifecycle!HitBarrier, Lifecycle!Finish, Lifecycle!Hold,
     Lifecycle!Abandon, Lifecycle!GiveUp, Lifecycle!Terminate, Lifecycle!Barriers
<1>9. Book(executors') /\ Advanced(executors, executors')
  BY <1>3, <1>4, <1>5, <1>7, <1>8, OneAdvances
<1>10. /\ UNCHANGED <<positions, remembered>> /\ rows' = rows /\ opening' = opening
       /\ phase # "stopped" /\ phase' # "stopped"
  BY DEF ExecutorStep
<1>11. Control'
  BY DEF ExecutorStep, Inv, Control, stopVars
<1>12. QED
  BY <1>9, <1>10, <1>11, AdvancedCounted, NotStopped

LEMMA BeginStopInv == ASSUME Inv, BeginStop PROVE Inv'
<1>1. /\ phase # "stopped" /\ phase' \in {"finishing", "stopping"}
      /\ executors' = [e \in DOMAIN executors |->
           IF executors[e].stored \/ Done(executors[e]) \/ executors[e].status = "SHUTTING_DOWN"
           THEN executors[e] ELSE Stopped(executors[e], FALSE)]
      /\ UNCHANGED <<positions, remembered>> /\ rows' = rows /\ opening' = opening
  BY DEF BeginStop, StoppedRunning
<1>2. ASSUME NEW e \in DOMAIN executors
      PROVE  /\ executors'[e] \in Executor /\ Ends(executors'[e])
             /\ executors'[e].side = executors[e].side /\ executors'[e].size = executors[e].size
             /\ executors'[e].held = executors[e].held
             /\ executors'[e].stored => executors'[e] = executors[e]
  <2>1. executors[e] \in Executor /\ Ends(executors[e])
    BY DEF Inv, Book
  <2>2. CASE executors'[e] = executors[e]
    BY <2>1, <2>2
  <2>3. CASE executors'[e] = Stopped(executors[e], FALSE) /\ ~executors[e].stored
    BY <2>1, <2>3, StoppedEnds
  <2>4. QED
    BY <1>1, <2>2, <2>3
<1>3. executors' \in [DOMAIN executors -> Executor]
  BY <1>1, <1>2
<1>4. /\ DOMAIN executors' = DOMAIN executors /\ executors' \in Seq(Executor)
      /\ Len(executors') = Len(executors)
  BY <1>3 DEF Inv, Book
<1>5. Book(executors') /\ Advanced(executors, executors')
  BY <1>2, <1>4 DEF Inv, Book, Advanced, SameSizes
<1>6. Control'
  <2>1. DOMAIN signature' \subseteq Ids
    <3>1. PICK book : book = executors'
      OBVIOUS
    <3>2. DOMAIN book \subseteq Ids
      BY <1>5, <3>1, BookIds
    <3>3. signature' = SignatureOf(book)
      BY <3>1 DEF BeginStop, SignatureOf, Active
    <3>4. QED
      BY <3>2, <3>3 DEF SignatureOf, Active
  <2>2. QED
    BY <1>1, <2>1 DEF BeginStop, Inv, Control
<1>7. QED
  BY <1>1, <1>5, <1>6, AdvancedCounted, NotStopped

LEMMA StopPollInv == ASSUME Inv, StopPoll PROVE Inv'
<1>1. /\ executors' = executors /\ UNCHANGED <<positions, remembered>> /\ rows' = rows /\ opening' = opening
      /\ phase # "stopped" /\ phase' \in {"stopping", "finishing"}
  BY DEF StopPoll
<1>2. Accounted(executors', positions', remembered', opening') /\ Book(executors')
  BY <1>1 DEF Inv
<1>3. Control'
  <2>1. DOMAIN signature' \subseteq Ids
    BY BookIds DEF StopPoll, SignatureOf, Active, Inv
  <2>2. elapsed' \in 0..HardCap /\ stalled' \in 0..StallBudget
    BY Bounds DEF StopPoll, Inv, Control, Smaller
  <2>3. QED
    BY <1>1, <2>1, <2>2 DEF StopPoll, Inv, Control
<1>4. Grown /\ Len(remembered') <= Remembered
  BY <1>1 DEF Grown, Inv, Accounted, FirstOnly
<1>5. QED
  BY <1>1, <1>2, <1>3, <1>4, NotStopped
-------------------------------------------------------------------------------
(***************************************************************************)
(* The rows of the Position table.                                         *)
(***************************************************************************)
Side == {"BUY", "SELL"}
Table == [Side -> Nat \cup {NoRow}]
\* Tables that have every row that table has.
Keeping(table) == {t \in Table : \A side \in Side : table[side] # NoRow => t[side] # NoRow}

LEMMA MaxIs == ASSUME NEW N \in Nat, NEW s \in SUBSET (1..N), s # {} PROVE Max(s) \in s
<1> DEFINE good == {r \in SUBSET (1..N) : r = {} \/ \E x \in r : \A y \in r : x >= y}
<1>1. {} \in good /\ IsFiniteSet(s)
  <2>1. IsFiniteSet(1..N)
    BY FS_Interval
  <2>2. IsFiniteSet(s)
    BY <2>1, FS_Subset
  <2>3. QED
    BY <2>2
<1>2. ASSUME NEW r \in SUBSET s, NEW x \in s \ r, r \in good PROVE r \cup {x} \in good
  <2>1. r \cup {x} \in SUBSET (1..N) /\ x \in Int /\ \A y \in r : y \in Int
    OBVIOUS
  <2>2. CASE r = {}
    BY <2>1, <2>2
  <2>3. CASE r # {}
    <3>1. PICK z \in r : \A y \in r : z >= y
      BY <1>2, <2>3
    <3>2. CASE z >= x
      BY <2>1, <3>1, <3>2
    <3>3. CASE ~ (z >= x)
      <4>1. \A y \in r \cup {x} : x >= y
        BY <2>1, <3>1, <3>3
      <4>2. QED
        BY <2>1, <4>1
    <3>4. QED
      BY <3>2, <3>3
  <2>4. QED
    BY <2>2, <2>3
<1> HIDE DEF good
<1>3. s \in good
  BY <1>1, <1>2, SetInduction
<1>4. PICK x \in s : \A y \in s : x >= y
  BY <1>3 DEF good
<1>5. QED
  BY <1>4 DEF Max

LEMMA StorePositionIs ==
  ASSUME NEW table \in Table, NEW position \in Position
  PROVE  LET side == SideOf(position.net)
             new == StorePosition(table, position)
         IN /\ new \in Table /\ side \in Side /\ Abs(position.net) \in Nat
            /\ new[side] = Abs(position.net)
            /\ \A other \in Side \ {side} : new[other] = table[other]
<1>1. position.net \in Int
  BY DEF Position
<1>2. SideOf(position.net) \in Side /\ Abs(position.net) \in Nat
  BY <1>1 DEF SideOf, Side, Abs
<1>3. QED
  BY <1>2 DEF StorePosition, Table

\* Rows are never taken away, and one position alone sets the row of its side.
LEMMA StoredIs ==
  ASSUME NEW table \in Table, NEW held \in Seq(Position)
  PROVE  LET new == FoldLeft(StorePosition, table, held)
         IN /\ new \in Keeping(table)
            /\ Len(held) = 0 => new = table
            /\ Len(held) = 1 => new = StorePosition(table, held[1])
<1> DEFINE N == Len(held)
           S == 1..N
           V == Keeping(table)
           pick == [s \in SUBSET S |-> Max(s)]
           F == [p \in S \X V |-> StorePosition(p[2], held[p[1]])]
           Rule(g) == g = [s \in SUBSET S |->
             IF s = {} THEN table ELSE StorePosition(g[s \ {Max(s)}], held[Max(s)])]
           iter == CHOOSE g : Rule(g)
<1>1. N \in Nat /\ DOMAIN held = S /\ IsFiniteSet(S) /\ table \in V
  BY FS_Interval DEF Keeping
<1>2. FoldLeft(StorePosition, table, held) = iter[S]
  <2>1. FoldLeft(StorePosition, table, held) = (CHOOSE g : g = [s \in SUBSET DOMAIN held |->
             IF s = {} THEN table ELSE StorePosition(g[s \ {Max(s)}], held[Max(s)])])[DOMAIN held]
    BY DEF FoldLeft, MapThenFoldSet
  <2>2. QED
    BY <1>1, <2>1
<1>3. \A s \in SUBSET S : s # {} => Max(s) \in s
  BY <1>1, MaxIs
<1>4. ASSUME NEW i \in S, NEW t \in V PROVE StorePosition(t, held[i]) \in V
  <2>1. held[i] \in Position /\ t \in Table
    BY DEF Keeping
  <2>2. /\ StorePosition(t, held[i]) \in Table
        /\ \A side \in Side : StorePosition(t, held[i])[side] = t[side]
                              \/ StorePosition(t, held[i])[side] \in Nat
    <3>1. PICK position \in Position : position = held[i]
      BY <2>1
    <3> DEFINE side == SideOf(position.net)
               set == StorePosition(t, position)
    <3>2. /\ set \in Table /\ Abs(position.net) \in Nat /\ set[side] = Abs(position.net)
          /\ \A other \in Side \ {side} : set[other] = t[other]
      BY <2>1, StorePositionIs
    <3>3. StorePosition(t, held[i]) = set
      BY <3>1
    <3> HIDE DEF side, set
    <3>4. set \in Table /\ \A any \in Side : set[any] = t[any] \/ set[any] \in Nat
      BY <3>2
    <3>5. QED
      BY <3>3, <3>4
  <2>3. QED
    BY <2>2 DEF Keeping, NoRow
<1>5. \E g : Rule(g)
  <2>1. \A i \in S : \A t \in V : F[<<i, t>>] = StorePosition(t, held[i]) /\ F[<<i, t>>] \in V
    BY <1>4
  <2>2. \A s \in SUBSET S : pick[s] = Max(s) /\ (s # {} => pick[s] \in s)
    BY <1>3
  <2> HIDE DEF F, V, S, pick
  <2>3. PICK g : IsFold(g, S, V, table, F, pick)
    BY <1>1, <2>1, <2>2, FoldExists
  <2>4. /\ g = [s \in SUBSET S |-> g[s]] /\ \A s \in SUBSET S : g[s] \in V
        /\ \A s \in SUBSET S : g[s] = IF s = {} THEN table ELSE F[<<pick[s], g[s \ {pick[s]}]>>]
    BY <2>3 DEF IsFold
  <2>5. ASSUME NEW s \in SUBSET S, s # {} PROVE g[s] = StorePosition(g[s \ {Max(s)}], held[Max(s)])
    <3>1. Max(s) \in S /\ s \ {Max(s)} \in SUBSET S /\ pick[s] = Max(s)
      BY <1>3, <2>2, <2>5
    <3>2. g[s \ {Max(s)}] \in V /\ g[s] = F[<<Max(s), g[s \ {Max(s)}]>>]
      BY <2>4, <2>5, <3>1
    <3>3. QED
      BY <2>1, <3>1, <3>2
  <2>6. g = [s \in SUBSET S |->
               IF s = {} THEN table ELSE StorePosition(g[s \ {Max(s)}], held[Max(s)])]
    <3>1. \A s \in SUBSET S :
            g[s] = IF s = {} THEN table ELSE StorePosition(g[s \ {Max(s)}], held[Max(s)])
      BY <2>4, <2>5
    <3>2. QED
      BY <2>4, <3>1
  <2>7. QED
    BY <2>6
<1>6. Rule(iter)
  BY <1>5
<1> HIDE DEF iter
<1>7. \A s \in SUBSET S :
        iter[s] = IF s = {} THEN table ELSE StorePosition(iter[s \ {Max(s)}], held[Max(s)])
  BY <1>6
<1>8. iter[S] \in V
  <2> DEFINE bad == {s \in SUBSET S : iter[s] \notin V}
  <2>1. SUFFICES ASSUME bad # {} PROVE FALSE
    OBVIOUS
  <2>2. bad \subseteq SUBSET S
    OBVIOUS
  <2> HIDE DEF bad, S, V
  <2>3. PICK s \in bad : \A t \in bad : t \subseteq s => t = s
    BY <1>1, <2>1, <2>2, SmallestSubset
  <2>4. s \in SUBSET S /\ iter[s] \notin V
    BY DEF bad
  <2>5. s # {}
    BY <1>1, <1>7, <2>4
  <2>6. Max(s) \in s /\ Max(s) \in S /\ s \ {Max(s)} \in SUBSET S
    BY <1>3, <2>4, <2>5
  <2>7. iter[s \ {Max(s)}] \in V
    BY <2>3, <2>6 DEF bad
  <2>8. iter[s] = StorePosition(iter[s \ {Max(s)}], held[Max(s)])
    BY <1>7, <2>4, <2>5
  <2>9. QED
    BY <1>4, <2>4, <2>6, <2>7, <2>8
<1>9. N = 0 => iter[S] = table
  <2>1. N = 0 => S = {}
    OBVIOUS
  <2>2. QED
    BY <1>7, <2>1
<1>10. N = 1 => iter[S] = StorePosition(table, held[1])
  <2> SUFFICES ASSUME N = 1 PROVE iter[S] = StorePosition(table, held[1])
    OBVIOUS
  <2>1. S = {1} /\ Max(S) = 1 /\ S \ {1} = {}
    BY <1>3
  <2> HIDE DEF S
  <2>2. iter[{}] = table
    BY <1>7
  <2>3. iter[S] = StorePosition(iter[S \ {Max(S)}], held[Max(S)])
    BY <1>7, <2>1
  <2>4. QED
    BY <2>1, <2>2, <2>3
<1>11. QED
  BY <1>2, <1>8, <1>9, <1>10

\* A sum over no side, one side or both.
LEMMA SumOfSides ==
  ASSUME NEW f
  PROVE  /\ SumFunctionOnSet(f, {}) = 0
         /\ \A side : f[side] \in Int => SumFunctionOnSet(f, {side}) = f[side]
         /\ f["BUY"] \in Int /\ f["SELL"] \in Int
              => SumFunctionOnSet(f, Side) = f["BUY"] + f["SELL"]
<1>1. SumFunctionOnSet(f, {}) = 0 /\ IsFiniteSet({})
  BY SumEmpty, FS_EmptySet
<1>2. ASSUME NEW side, f[side] \in Int PROVE SumFunctionOnSet(f, {side}) = f[side]
  <2>1. SumFunctionOnSet(f, {} \cup {side}) = f[side] + SumFunctionOnSet(f, {})
    BY <1>1, <1>2, SumAdd
  <2>2. {} \cup {side} = {side}
    OBVIOUS
  <2>3. QED
    BY <1>1, <1>2, <2>1, <2>2
<1>3. ASSUME f["BUY"] \in Int, f["SELL"] \in Int
      PROVE  SumFunctionOnSet(f, Side) = f["BUY"] + f["SELL"]
  <2>1. IsFiniteSet({"SELL"}) /\ \A side \in {"SELL"} : f[side] \in Int
    BY <1>3, FS_Singleton
  <2>2. "BUY" \notin {"SELL"} /\ Side = {"SELL"} \cup {"BUY"}
    BY DEF Side
  <2>3. SumFunctionOnSet(f, {"SELL"} \cup {"BUY"}) = f["BUY"] + SumFunctionOnSet(f, {"SELL"})
    BY <1>3, <2>1, <2>2, SumAdd
  <2>4. QED
    BY <1>2, <1>3, <2>2, <2>3
<1>4. QED
  BY <1>1, <1>2, <1>3
-------------------------------------------------------------------------------
LEMMA InitInv == Init => Inv
<1> SUFFICES ASSUME Init PROVE Inv
  OBVIOUS
<1>1. /\ phase = "running" /\ executors = <<>> /\ remembered = <<>> /\ elapsed = 0 /\ stalled = 0
      /\ signature = <<>> /\ rows \in [Side -> Amounts \cup {NoRow}]
      /\ positions = RowPosition("BUY") \o RowPosition("SELL") /\ opening = RowsNet /\ saved = RowsNet
  BY DEF Init, Side
<1>2. rows \in Table
  BY <1>1, SizeAssumption DEF Table
<1>3. \A side \in Present : side \in Side /\ RowNet(side) \in Int
  BY <1>2 DEF Present, RowNet, Table, Side
<1> DEFINE row(side) == [net |-> RowNet(side), orders |-> {}]
           f == [side \in Present |-> RowNet(side)]
<1>4. \A side \in Present : /\ row(side) \in Position /\ f[side] = row(side).net
                            /\ row(side).orders = {} /\ f[side] \in Int
  BY <1>3 DEF Position
<1>5. RowsNet = SumFunctionOnSet(f, Present)
  BY DEF RowsNet, SumFunction
<1>6. \A side \in Side : RowPosition(side) = IF side \in Present THEN <<row(side)>> ELSE <<>>
  BY DEF RowPosition
<1> HIDE DEF row, f
<1>7. ASSUME NEW side \in Side
      PROVE  /\ RowPosition(side) \in Seq(Position)
             /\ Net(RowPosition(side)) = IF side \in Present THEN f[side] ELSE 0
             /\ \A i \in DOMAIN RowPosition(side) : RowPosition(side)[i].orders = {}
  <2>1. CASE side \in Present
    <3>1. RowPosition(side) = <<row(side)>> /\ row(side) \in Position /\ f[side] = row(side).net
      BY <1>4, <1>6, <2>1
    <3>2. Net(<<row(side)>>) = f[side]
      BY <3>1, NetOfOne
    <3>3. QED
      BY <1>4, <2>1, <3>1, <3>2
  <2>2. CASE side \notin Present
    <3>1. RowPosition(side) = <<>>
      BY <1>6, <2>2
    <3>2. QED
      BY <2>2, <3>1, NetEmpty
  <2>3. QED
    BY <2>1, <2>2
<1> DEFINE buy == RowPosition("BUY")
           sell == RowPosition("SELL")
<1>8. /\ positions = buy \o sell /\ buy \in Seq(Position) /\ sell \in Seq(Position)
      /\ Net(buy) = (IF "BUY" \in Present THEN f["BUY"] ELSE 0)
      /\ Net(sell) = (IF "SELL" \in Present THEN f["SELL"] ELSE 0)
      /\ \A i \in DOMAIN buy : buy[i].orders = {}
      /\ \A i \in DOMAIN sell : sell[i].orders = {}
      /\ Len(buy) = (IF "BUY" \in Present THEN 1 ELSE 0)
      /\ Len(sell) = (IF "SELL" \in Present THEN 1 ELSE 0)
  <2>1. "BUY" \in Side /\ "SELL" \in Side
    BY DEF Side
  <2>2. Len(buy) = (IF "BUY" \in Present THEN 1 ELSE 0) /\ Len(sell) = (IF "SELL" \in Present THEN 1 ELSE 0)
    BY <1>6, <2>1
  <2>3. QED
    BY <1>1, <1>7, <2>1, <2>2
<1> HIDE DEF buy, sell
<1>9. /\ positions \in Seq(Position) /\ Len(positions) = Len(buy) + Len(sell)
      /\ \A i \in DOMAIN positions : positions[i].orders = {}
  <2>1. /\ positions \in Seq(Position) /\ Len(positions) = Len(buy) + Len(sell)
        /\ \A i \in 1..Len(positions) :
             positions[i] = IF i <= Len(buy) THEN buy[i] ELSE sell[i - Len(buy)]
    <3>1. PICK both : both = positions
      OBVIOUS
    <3>2. both = buy \o sell /\ buy \in Seq(Position) /\ sell \in Seq(Position)
      BY <1>8, <3>1
    <3>3. /\ both \in Seq(Position) /\ Len(both) = Len(buy) + Len(sell)
          /\ \A i \in 1..Len(both) : both[i] = IF i <= Len(buy) THEN buy[i] ELSE sell[i - Len(buy)]
      BY <3>2
    <3>4. QED
      BY <3>1, <3>3
  <2>2. ASSUME NEW i \in 1..Len(positions) PROVE positions[i].orders = {}
    <3>1. CASE i <= Len(buy)
      BY <1>8, <2>1, <3>1
    <3>2. CASE ~ (i <= Len(buy))
      <4>1. i - Len(buy) \in DOMAIN sell
        BY <1>8, <2>1, <3>2
      <4>2. QED
        BY <1>8, <2>1, <3>2, <4>1
    <3>3. QED
      BY <3>1, <3>2
  <2>3. DOMAIN positions = 1..Len(positions)
    BY <2>1
  <2>4. QED
    BY <2>1, <2>2, <2>3
<1>10. Net(positions) = Net(buy) + Net(sell) /\ Net(buy) \in Int /\ Net(sell) \in Int
  <2>1. PositionNet \in [Position -> Int]
    BY <1>8, NetIs
  <2>2. SumMapped(buy \o sell, PositionNet) = SumMapped(buy, PositionNet) + SumMapped(sell, PositionNet)
    BY <1>8, <2>1, SumMappedConcat
  <2>3. QED
    BY <1>8, <1>9, <2>2, NetIs
<1>11. Net(positions) = RowsNet
  <2>1. Present = {} \/ Present = {"BUY"} \/ Present = {"SELL"} \/ Present = Side
    BY <1>3 DEF Side
  <2>2. CASE Present = {}
    BY <1>5, <1>8, <1>10, <2>2, SumOfSides
  <2>3. CASE Present = {"BUY"}
    <3>1. f["BUY"] \in Int /\ SumFunctionOnSet(f, {"BUY"}) = f["BUY"]
      BY <1>4, <2>3, SumOfSides
    <3>2. QED
      BY <1>5, <1>8, <1>10, <2>3, <3>1
  <2>4. CASE Present = {"SELL"}
    <3>1. f["SELL"] \in Int /\ SumFunctionOnSet(f, {"SELL"}) = f["SELL"]
      BY <1>4, <2>4, SumOfSides
    <3>2. QED
      BY <1>5, <1>8, <1>10, <2>4, <3>1
  <2>5. CASE Present = Side
    <3>1. "BUY" \in Present /\ "SELL" \in Present
      BY <2>5 DEF Side
    <3>2. f["BUY"] \in Int /\ f["SELL"] \in Int
      BY <1>4, <3>1
    <3>3. SumFunctionOnSet(f, Side) = f["BUY"] + f["SELL"]
      BY <3>2, SumOfSides
    <3>4. QED
      BY <1>5, <1>8, <1>10, <2>5, <3>1, <3>3
  <2>6. QED
    BY <2>1, <2>2, <2>3, <2>4, <2>5
<1>12. Accounted(executors, positions, remembered, opening)
  <2>1. OrdersOf(positions) = {} /\ FirstOnly(positions)
    BY <1>9 DEF OrdersOf, FirstOnly
  <2>2. Sum(executors, {}) = 0
    <3>1. executors \in Seq(Executor) /\ {} \in SUBSET Known(executors)
      BY <1>1
    <3>2. Sum(executors, {}) = SumFunctionOnSet(SignedBy(executors), {})
      BY <3>1, SumIs
    <3>3. QED
      BY <3>2, SumEmpty
  <2>3. opening \in Int /\ Net(positions) = opening
    BY <1>1, <1>9, <1>11, NetIs
  <2>4. DOMAIN executors = {} /\ Range(remembered) = {} /\ remembered \in Seq(DOMAIN executors)
    BY <1>1 DEF Range
  <2>5. Net(positions) = opening + Sum(executors, OrdersOf(positions))
    BY <2>1, <2>2, <2>3
  <2>6. QED
    BY <2>1, <2>3, <2>4, <2>5 DEF Accounted
<1>13. RowsMatch
  <2>1. Present = {} => Len(positions) <= 1
    BY <1>8, <1>9
  <2>2. ASSUME NEW side, Present = {side} PROVE Len(positions) = 1
    <3>1. side = "BUY" \/ side = "SELL"
      BY <1>3, <2>2 DEF Side
    <3>2. QED
      BY <1>8, <1>9, <2>2, <3>1
  <2>3. QED
    BY <2>1, <2>2 DEF RowsMatch
<1>14. Control
  <2>1. opening \in Int /\ saved \in Int
    BY <1>1, <1>9, <1>11, NetIs
  <2>2. DOMAIN signature = {}
    BY <1>1
  <2>3. elapsed \in 0..HardCap /\ stalled \in 0..StallBudget
    BY <1>1, Bounds
  <2>4. QED
    BY <1>1, <1>2, <2>1, <2>2, <2>3 DEF Control, Table, Side
<1>15. Book(executors) /\ Len(remembered) <= Remembered
  BY <1>1, CountAssumption DEF Book
<1>16. StopEndsAll /\ HeldIsSaved /\ OneRowIsTheNet
  BY <1>1 DEF StopEndsAll, HeldIsSaved, OneRowIsTheNet
<1>17. QED
  BY <1>12, <1>13, <1>14, <1>15, <1>16 DEF Inv

\* Forcing an executor ends it, and takes nothing from it.
LEMMA EndedEnds ==
  ASSUME Book(executors), NEW e \in DOMAIN executors, NEW fills \in [Unfinished -> SUBSET Kind]
  PROVE  LET new == Ended(e, fills)
         IN /\ new \in Executor /\ Ends(new) /\ Done(new) /\ new.ended
            /\ new.side = executors[e].side /\ new.size = executors[e].size
            /\ executors[e].held # {} => new.held = executors[e].held
            /\ new.stored => new = executors[e]
<1>1. executors[e] \in Executor /\ Ends(executors[e])
  BY DEF Book
<1>2. CASE e \in Unfinished
  <2>1. fills[e] \in SUBSET Kind
    BY <1>2
  <2>2. Ended(e, fills) = Forced(executors[e], fills[e]) /\ ~executors[e].stored
    BY <1>2 DEF Ended, Unfinished, Active
  <2> DEFINE held == IF executors[e].held = {} THEN fills[e] ELSE executors[e].held
             why == IF held # {} THEN "POSITION_HOLD" ELSE "FAILED"
             new == Forced(executors[e], fills[e])
  <2>3. new = [executors[e] EXCEPT !.status = "TERMINATED", !.ended = TRUE, !.held = held, !.closeType = why]
    BY DEF Forced
  <2>4. held \in SUBSET Kind /\ (executors[e].held # {} => held = executors[e].held)
    BY <1>1, <2>1 DEF Executor
  <2>5. /\ why \in CloseTypes /\ (why = "POSITION_HOLD" => held # {})
        /\ why \in {"POSITION_HOLD", "FAILED"}
    BY CloseTypeAssumption
  <2> HIDE DEF held, why, new
  <2>6. /\ new \in Executor /\ new.status = "TERMINATED" /\ new.ended /\ new.held = held
        /\ new.closeType = why /\ new.stored = executors[e].stored
        /\ new.side = executors[e].side /\ new.size = executors[e].size
    BY <1>1, <2>3, <2>4, <2>5 DEF Executor, Statuses
  <2>7. Ends(new) /\ Done(new)
    BY <2>2, <2>5, <2>6 DEF Ends, Done
  <2>8. QED
    BY <2>2, <2>4, <2>6, <2>7 DEF new
<1>3. CASE e \notin Unfinished
  BY <1>1, <1>3 DEF Ended, Unfinished, Active, Ends
<1>4. QED
  BY <1>2, <1>3

LEMMA OnlyOne ==
  ASSUME NEW V, NEW s \in Seq(V), Len(s) = 1
  PROVE  s = <<s[1]>> /\ s[1] \in V
OBVIOUS

\* The rows that are stored, and the next run that opens with them.
LEMMA StoredRows ==
  ASSUME Inv, phase # "stopped", Grown, positions' \in Seq(Position),
         rows' = FoldLeft(StorePosition, rows, positions'), saved' = Net(positions')
  PROVE  rows' \in Table /\ OneRowIsTheNet'
<1>1. PICK table, held : table = rows /\ held = positions'
  OBVIOUS
<1>2. table \in Table /\ held \in Seq(Position)
  BY <1>1 DEF Inv, Control, Table, Side
<1> DEFINE new == FoldLeft(StorePosition, table, held)
<1>3. /\ new \in Keeping(table)
      /\ Len(held) = 0 => new = table
      /\ Len(held) = 1 => new = StorePosition(table, held[1])
  BY <1>2, StoredIs
<1>4. rows' = new /\ saved' = Net(held)
  BY <1>1
<1> HIDE DEF new
<1>5. PICK before, after : /\ before = {side \in Side : table[side] # NoRow}
                           /\ after = {side \in Side : new[side] # NoRow}
  OBVIOUS
<1>6. /\ Present = before /\ Present' = after
      /\ before \subseteq after /\ after \subseteq Side /\ new \in Table
      /\ new = table => after = before
      /\ \A side \in Side : side \in after <=> new[side] # NoRow
  BY <1>1, <1>3, <1>4, <1>5 DEF Present, Keeping, Side
<1> DEFINE net(side) == IF side = "BUY" THEN new["BUY"] ELSE -new["SELL"]
           f == [side \in after |-> net(side)]
<1>7. RowsNet' = SumFunctionOnSet(f, after)
  <2>1. \A side : RowNet(side)' = net(side)
    BY <1>4 DEF RowNet
  <2>2. RowsNet' = SumFunction([side \in Present' |-> RowNet(side)'])
    BY DEF RowsNet
  <2> HIDE DEF net
  <2>3. [side \in Present' |-> RowNet(side)'] = f
    BY <1>6, <2>1
  <2>4. QED
    BY <2>2, <2>3 DEF SumFunction
<1>8. ASSUME Cardinality(after) = 1 PROVE SumFunctionOnSet(f, after) = Net(held)
  <2>1. IsFiniteSet(after)
    <3>1. IsFiniteSet({"BUY"}) /\ IsFiniteSet({"SELL"})
      BY FS_Singleton
    <3>2. IsFiniteSet({"BUY"} \cup {"SELL"})
      BY <3>1, FS_Union
    <3>3. after \subseteq {"BUY"} \cup {"SELL"}
      BY <1>6 DEF Side
    <3>4. QED
      BY <3>2, <3>3, FS_Subset
  <2>2. PICK side : after = {side}
    BY <1>8, <2>1, FS_Singleton
  <2>3. side \in Side /\ new[side] \in Nat /\ (before = {} \/ before = {side})
    <3>1. before \subseteq {side} /\ side \in after
      BY <1>6, <2>2
    <3>2. new[side] \in Nat
      BY <1>6, <3>1 DEF Table
    <3>3. QED
      BY <1>6, <3>1, <3>2
  <2>4. positions \in Seq(Position) /\ Len(held) \in Nat
    BY <1>2 DEF Inv, Accounted, FirstOnly
  <2>5. before = {side} => Len(held) = 1
    <3>1. SUFFICES ASSUME before = {side} PROVE Len(held) = 1
      OBVIOUS
    <3>2. Present = {side}
      BY <1>6, <3>1
    <3>3. Len(positions) = 1
      BY <3>2 DEF Inv, RowsMatch
    <3>4. positions # <<>>
      <4>1. Len(<<>>) = 0 /\ 1 # 0
        OBVIOUS
      <4>2. QED
        BY <3>3, <4>1, Zenon
    <3>5. QED
      BY <1>1, <3>3, <3>4 DEF Grown
  <2>6. before = {} => Len(held) <= 1
    <3>1. SUFFICES ASSUME before = {} PROVE Len(held) <= 1
      OBVIOUS
    <3>2. Len(positions) <= 1
      BY <1>6, <3>1 DEF Inv, RowsMatch
    <3>3. QED
      BY <1>1, <2>4, <3>2 DEF Grown
  <2>7. Len(held) = 1
    <3>1. before = {} => Len(held) # 0
      BY <1>3, <1>6, <2>2
    <3>2. CASE before = {side}
      BY <2>5, <3>2
    <3>3. CASE before = {}
      <4>1. \A n \in Nat : n <= 1 /\ n # 0 => n = 1
        OBVIOUS
      <4>2. Len(held) <= 1 /\ Len(held) # 0
        BY <2>6, <3>1, <3>3
      <4>3. QED
        BY <2>4, <4>1, <4>2, Zenon
    <3>4. QED
      BY <2>3, <3>2, <3>3
  <2> DEFINE position == held[1]
             stored == SideOf(position.net)
  <2>8. held = <<position>> /\ position \in Position
    <3>1. held \in Seq(Position) /\ Len(held) = 1
      BY <1>2, <2>7
    <3>2. QED
      BY <3>1, OnlyOne
  <2>9. position.net \in Int
    BY <2>8 DEF Position
  <2>10. new = StorePosition(table, position)
    BY <1>3, <2>7
  <2> HIDE DEF position
  <2>11. new[stored] = Abs(position.net) /\ stored \in Side /\ Abs(position.net) \in Nat
    BY <1>2, <2>8, <2>10, StorePositionIs
  <2>12. stored \in after
    BY <1>6, <2>11 DEF NoRow
  <2>13. side = stored
    BY <2>2, <2>12
  <2>14. f[side] = position.net
    <3>1. f[side] = net(side)
      BY <2>2
    <3>2. net(side) = position.net
      BY <2>9, <2>11, <2>13 DEF SideOf, Side, Abs
    <3>3. QED
      BY <3>1, <3>2
  <2> HIDE DEF f
  <2>15. SumFunctionOnSet(f, {side}) = f[side]
    BY <2>9, <2>14, SumOfSides
  <2>16. Net(held) = position.net
    BY <2>8, NetOfOne
  <2>17. QED
    BY <2>2, <2>14, <2>15, <2>16
<1>9. OneRowIsTheNet'
  BY <1>4, <1>6, <1>7, <1>8 DEF OneRowIsTheNet
<1>10. QED
  BY <1>4, <1>6, <1>9

LEMMA FinishStopInv == ASSUME Inv, FinishStop PROVE Inv'
<1>1. PICK fills \in [Unfinished -> SUBSET Kind] :
        /\ Count([e \in DOMAIN executors |-> Ended(e, fills)])
        /\ executors' = [e \in DOMAIN executors |-> [Ended(e, fills) EXCEPT !.stored = TRUE]]
  BY DEF FinishStop
<1>2. PICK old, book : old = executors /\ book = [e \in DOMAIN executors |-> Ended(e, fills)]
  OBVIOUS
<1>3. /\ Book(old) /\ Accounted(old, positions, remembered, opening) /\ Count(book) /\ old \in Seq(Executor)
      /\ executors' = [e \in DOMAIN old |-> [book[e] EXCEPT !.stored = TRUE]]
  BY <1>1, <1>2 DEF Inv, Book
<1>4. ASSUME NEW e \in DOMAIN old
      PROVE  /\ book[e] \in Executor /\ Ends(book[e]) /\ Done(book[e]) /\ book[e].ended
             /\ book[e].side = old[e].side /\ book[e].size = old[e].size
             /\ old[e].held # {} => book[e].held = old[e].held
             /\ book[e].stored => book[e] = old[e]
  <2>1. book[e] = Ended(e, fills) /\ e \in DOMAIN executors
    BY <1>2
  <2>2. QED
    BY <1>2, <1>3, <2>1, EndedEnds
<1>5. book \in Seq(Executor) /\ DOMAIN book = DOMAIN old /\ Len(book) = Len(old)
  <2>1. DOMAIN book = DOMAIN old /\ book \in [DOMAIN old -> Executor]
    BY <1>2, <1>4
  <2>2. QED
    BY <1>3, <2>1
<1>6. Book(book) /\ Advanced(old, book)
  BY <1>3, <1>4, <1>5 DEF Book, Advanced, SameSizes
<1>7. Accounted(book, positions, remembered, opening)
  BY <1>3, <1>5, <1>6, AdvancedAccounted
<1>8. /\ Accounted(book, positions', remembered', opening) /\ DoneCounted(book, positions')
      /\ Len(remembered') <= Remembered /\ Grown
  BY <1>3, <1>6, <1>7, CountStep DEF Grown
<1>9. PICK new : new = executors'
  OBVIOUS
<1>10. ASSUME NEW e \in DOMAIN old
       PROVE  /\ new[e] = [book[e] EXCEPT !.stored = TRUE]
              /\ new[e] \in Executor /\ Ends(new[e]) /\ Done(new[e]) /\ new[e].ended /\ new[e].stored
  <2>1. new[e] = [book[e] EXCEPT !.stored = TRUE] /\ book[e] \in Executor
    BY <1>3, <1>4, <1>9
  <2>2. /\ new[e] \in Executor /\ new[e].stored /\ new[e].status = book[e].status
        /\ new[e].ended = book[e].ended /\ new[e].held = book[e].held
        /\ new[e].closeType = book[e].closeType
    BY <2>1 DEF Executor
  <2>3. QED
    BY <1>4, <2>1, <2>2 DEF Ends, Done
<1>11. new \in Seq(Executor) /\ DOMAIN new = DOMAIN book /\ Len(new) = Len(old)
  <2>1. DOMAIN new = DOMAIN old /\ new \in [DOMAIN old -> Executor]
    BY <1>3, <1>9, <1>10
  <2>2. QED
    BY <1>3, <1>5, <2>1
<1>12. Stores(book, new, positions')
  <2>1. ASSUME NEW e \in DOMAIN book
        PROVE  \/ new[e] = book[e]
               \/ /\ new[e] = [book[e] EXCEPT !.stored = TRUE]
                  /\ book[e].closeType = "POSITION_HOLD"
                       => HeldOrders(book, {e}) \subseteq OrdersOf(positions')
    <3>1. CASE book[e].stored
      <4>1. \A executor \in Executor : executor.stored => [executor EXCEPT !.stored = TRUE] = executor
        BY DEF Executor
      <4>2. QED
        BY <1>4, <1>5, <1>10, <3>1, <4>1
    <3>2. CASE ~book[e].stored
      <4>1. e \in Active(book)
        BY <3>2 DEF Active
      <4>2. QED
        BY <1>4, <1>5, <1>8, <1>10, <4>1 DEF DoneCounted
    <3>3. QED
      BY <3>1, <3>2
  <2>2. QED
    BY <1>11, <2>1 DEF Stores
<1>13. Accounted(new, positions', remembered', opening)
  BY <1>5, <1>8, <1>11, <1>12, StoresAccounted
<1>14. /\ phase' = "stopped" /\ opening' = opening /\ saved' = Net(positions')
       /\ rows' = FoldLeft(StorePosition, rows, positions') /\ phase = "finishing"
       /\ UNCHANGED stopVars
  BY DEF FinishStop
<1>15. positions' \in Seq(Position)
  BY <1>13 DEF Accounted, FirstOnly
<1>16. rows' \in Table /\ OneRowIsTheNet'
  BY <1>8, <1>14, <1>15, StoredRows
<1>17. HeldIsSaved'
  <2>1. SUFFICES ASSUME \A e \in DOMAIN new : new[e].held # {} => new[e].closeType # "FAILED"
                 PROVE  saved' = opening + Sum(new, HeldOrders(new, DOMAIN new))
    BY <1>9, <1>14 DEF HeldIsSaved
  <2>2. ASSUME NEW e \in DOMAIN new, new[e].held # {}
        PROVE  HeldOrders(new, {e}) \subseteq OrdersOf(positions')
    <3>1. new[e].closeType = "POSITION_HOLD" /\ new[e].stored
      BY <1>5, <1>10, <1>11, <2>1, <2>2 DEF Ends
    <3>2. QED
      BY <1>13, <3>1 DEF Accounted
  <2>3. HeldOrders(new, DOMAIN new) = OrdersOf(positions')
    <3>1. HeldOrders(new, DOMAIN new) \subseteq OrdersOf(positions')
      BY <2>2 DEF HeldOrders
    <3>2. QED
      BY <1>13, <3>1 DEF Accounted
  <2>4. QED
    BY <1>13, <1>14, <2>3 DEF Accounted
<1>18. StopEndsAll'
  BY <1>5, <1>9, <1>10, <1>11 DEF StopEndsAll
<1>19. Control'
  <2>1. saved' \in Int
    BY <1>14, <1>15, NetIs
  <2>2. QED
    BY <1>14, <1>16, <2>1 DEF Inv, Control, stopVars, Table, Side
<1>20. Book(executors') /\ Accounted(executors', positions', remembered', opening')
  BY <1>3, <1>5, <1>9, <1>10, <1>11, <1>13, <1>14 DEF Book
<1>21. RowsMatch'
  BY <1>14 DEF RowsMatch
<1>22. QED
  BY <1>8, <1>16, <1>17, <1>18, <1>19, <1>20, <1>21 DEF Inv

LEMMA NextInv == ASSUME Inv, [Next]_vars PROVE Inv'
<1>1. CASE UNCHANGED vars
  BY <1>1 DEF vars, stopVars, Inv, Control, StopEndsAll, RowsMatch, HeldIsSaved, OneRowIsTheNet,
     Present, RowsNet, RowNet
<1>2. QED
  BY <1>1, CreateExecutorInv, StopExecutorInv, TickInv, ExecutorStepInv, BeginStopInv, StopPollInv,
     FinishStopInv DEF Next
-------------------------------------------------------------------------------
THEOREM Invariance == Spec => []Inv
<1>1. Inv /\ [Next]_vars => Inv'
  BY NextInv
<1>2. QED
  BY InitInv, <1>1, PTL DEF Spec

\* The types of executors, positions, rows and of what the stop counts.
THEOREM TypeCorrect == Spec => []TypeOK
<1>1. ASSUME NEW book, NEW ids, Book(book), ids \in Seq(DOMAIN book) PROVE ids \in Seq(Ids)
  <2>1. DOMAIN book \subseteq Ids
    BY <1>1, BookIds
  <2>2. QED
    BY <1>1, <2>1
<1>2. Inv => TypeOK
  BY <1>1 DEF Inv, Control, Book, Accounted, FirstOnly, TypeOK
<1>3. QED
  BY Invariance, <1>2, PTL

\* Every order that executors hold is counted once in the net of the positions, whatever the deque
\* forgets and whatever is stored meanwhile.
THEOREM CountsOnce == Spec => []CountedOnce
<1>1. Inv => CountedOnce
  BY DEF Inv, Accounted, CountedOnce, Counted, OrdersOf
<1>2. QED
  BY Invariance, <1>1, PTL

\* What a stop saves holds every order that any executor held.
THEOREM SavesWhatIsHeld == Spec => []HeldIsSaved
<1>1. Inv => HeldIsSaved
  BY DEF Inv
<1>2. QED
  BY Invariance, <1>1, PTL

\* With rows of one side the next run opens with what the last stop saved.
THEOREM OneRowReopens == Spec => []OneRowIsTheNet
<1>1. Inv => OneRowIsTheNet
  BY DEF Inv
<1>2. QED
  BY Invariance, <1>1, PTL

\* A stop leaves no executor that has not ended.
THEOREM StopsCompletely == Spec => []StopEndsAll
<1>1. Inv => StopEndsAll
  BY DEF Inv
<1>2. QED
  BY Invariance, <1>1, PTL

Waiting == (phase = "running" => elapsed = 0) /\ (phase = "stopping" => elapsed < HardCap)

\* The safety half of StopEnds: while stop() waits it is below its hard cap, every turn of its loop
\* counts, and nothing else that happens meanwhile sets the count back.
THEOREM StopIsBounded ==
  Spec => /\ [](phase = "stopping" => elapsed < HardCap)
          /\ [][elapsed' = IF StopPoll THEN elapsed + 1 ELSE elapsed]_vars
<1>1. HardCap \in Nat /\ HardCap > 0
  BY CountAssumption DEF HardCap
<1>2. Init => Waiting
  BY DEF Init, Waiting
<1>3. ASSUME Inv, Waiting, StopPoll
      PROVE  Waiting' /\ elapsed' = elapsed + 1
  <2>1. /\ phase = "stopping" /\ phase' \in {"stopping", "finishing"}
        /\ elapsed' = Smaller(elapsed + 1, HardCap)
        /\ elapsed' >= HardCap => phase' = "finishing"
    BY <1>3 DEF StopPoll, OutOfTime
  <2>2. elapsed \in Nat /\ elapsed < HardCap
    BY <1>1, <1>3, <2>1 DEF Waiting, Inv, Control
  <2>3. elapsed' = elapsed + 1 /\ elapsed' <= HardCap
    BY <1>1, <2>1, <2>2 DEF Smaller
  <2>4. QED
    BY <1>1, <2>1, <2>2, <2>3 DEF Waiting
<1>4. ASSUME Inv, Waiting, Next, ~StopPoll
      PROVE  Waiting' /\ elapsed' = elapsed
  <2>1. CreateExecutor => phase' = phase /\ elapsed' = elapsed
    BY DEF CreateExecutor, stopVars
  <2>2. StopExecutor => phase' = phase /\ elapsed' = elapsed
    BY DEF StopExecutor, stopVars
  <2>3. Tick => phase' = phase /\ elapsed' = elapsed
    BY DEF Tick, stopVars
  <2>4. ExecutorStep => phase' = phase /\ elapsed' = elapsed
    BY DEF ExecutorStep, stopVars
  <2>5. BeginStop => phase = "running" /\ phase' # "running" /\ elapsed' = elapsed
    BY DEF BeginStop
  <2>6. FinishStop => phase' = "stopped" /\ elapsed' = elapsed
    BY DEF FinishStop, stopVars
  <2>7. QED
    BY <1>1, <1>4, <2>1, <2>2, <2>3, <2>4, <2>5, <2>6 DEF Next, Waiting
<1>5. Inv /\ Waiting /\ [Next]_vars => Waiting'
  BY <1>3, <1>4 DEF Waiting, vars, stopVars
<1> DEFINE Counts == elapsed' = IF StopPoll THEN elapsed + 1 ELSE elapsed
<1>6. Inv /\ Waiting /\ [Next]_vars => [Counts]_vars
  BY <1>3, <1>4
<1>7. Waiting => (phase = "stopping" => elapsed < HardCap)
  BY DEF Waiting
<1> HIDE DEF Counts
<1>8. Spec => [](phase = "stopping" => elapsed < HardCap) /\ [][Counts]_vars
  BY Invariance, <1>2, <1>5, <1>6, <1>7, PTL DEF Spec
<1>9. QED
  BY <1>8 DEF Counts
===============================================================================
