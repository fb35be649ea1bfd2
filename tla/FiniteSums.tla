------------------------------- MODULE FiniteSums -------------------------------
(***************************************************************************)
(* Facts about sums over finite sets and about folds, for every set and    *)
(* every function.  No statement has an operator as a parameter, so the    *)
(* induction they rest on is the least-counterexample form: a nonempty set *)
(* of subsets of a finite set has a member none of whose proper subsets    *)
(* belongs to it.                                                          *)
(***************************************************************************)
EXTENDS Integers, SequencesExt, FiniteSetsExt, FiniteSetTheorems, SequenceTheorems,
        WellFoundedInduction, TLAPS

\* Strict inclusion of finite sets is well founded: a family of subsets has a smallest member.
LEMMA SmallestSubset ==
  ASSUME NEW S, IsFiniteSet(S), NEW bad, bad \subseteq SUBSET S, bad # {}
  PROVE  \E s \in bad : \A t \in bad : t \subseteq s => t = s
<1>1. bad \subseteq FiniteSubsetsOf(S)
  BY FS_Subset DEF FiniteSubsetsOf
<1>2. PICK s \in bad : \A t \in bad : ~ (<<t, s>> \in StrictSubsetOrdering(S))
  BY <1>1, FS_StrictSubsetOrderingWellFounded, WFMin
<1>3. QED
  BY <1>2 DEF StrictSubsetOrdering

\* Induction over a finite set: what holds of {} and is kept by adding elements holds of the set.
LEMMA SetInduction ==
  ASSUME NEW S, IsFiniteSet(S), NEW good, {} \in good,
         \A s \in SUBSET S : \A x \in S \ s : s \in good => s \cup {x} \in good
  PROVE  S \in good
<1> SUFFICES ASSUME S \notin good PROVE FALSE
  OBVIOUS
<1> DEFINE bad == {s \in SUBSET S : s \notin good}
<1>0. bad \subseteq SUBSET S /\ bad # {}
  OBVIOUS
<1> HIDE DEF bad
<1>1. PICK s \in bad : \A t \in bad : t \subseteq s => t = s
  BY <1>0, SmallestSubset
<1> USE DEF bad
<1>2. PICK x : x \in s
  OBVIOUS
<1>3. s \ {x} \in SUBSET S /\ x \in S \ (s \ {x}) /\ (s \ {x}) \cup {x} = s
  BY <1>2
<1>4. s \ {x} \in good
  BY <1>1, <1>2
<1>5. QED
  BY <1>3, <1>4

\* Induction up to a number.
LEMMA UpTo ==
  ASSUME NEW N \in Nat, NEW good, 0 \in good, \A n \in 1..N : n - 1 \in good => n \in good
  PROVE  0..N \subseteq good
<1> SUFFICES ASSUME NEW m \in 0..N, m \notin good PROVE FALSE
  OBVIOUS
<1> DEFINE S == 1..N
           bad == {s \in SUBSET S : \E n \in 0..N : n \notin good /\ s = 1..n}
<1>1. bad \subseteq SUBSET S /\ IsFiniteSet(S)
  BY FS_Interval
<1>2. 1..m \in bad
  OBVIOUS
<1>9. bad # {}
  BY <1>2
<1> HIDE DEF S, bad
<1>3. PICK s \in bad : \A t \in bad : t \subseteq s => t = s
  BY <1>1, <1>9, SmallestSubset
<1>4. PICK n \in 0..N : n \notin good /\ s = 1..n
  BY <1>3 DEF bad
<1>5. n \in 1..N /\ n - 1 \in 0..N /\ n - 1 \notin good
  BY <1>4
<1>6. 1..(n - 1) \in bad
  BY <1>5 DEF bad, S
<1>7. 1..(n - 1) \subseteq s /\ n \in s /\ n \notin 1..(n - 1)
  BY <1>4, <1>5
<1>8. QED
  BY <1>3, <1>6, <1>7

\* g is defined by recursion up to N: F says how a value follows from the one before it.
IsRecursion(g, N, V, base, F) ==
  /\ g \in [0..N -> V] /\ g[0] = base
  /\ \A n \in 1..N : g[n] = F[<<n, g[n - 1]>>]

LEMMA RecursionExists ==
  ASSUME NEW N \in Nat, NEW V, NEW base \in V,
         NEW F, \A n \in 1..N : \A v \in V : F[<<n, v>>] \in V
  PROVE  \E g : IsRecursion(g, N, V, base, F)
<1> DEFINE good == {m \in 0..N : \E g : IsRecursion(g, m, V, base, F)}
<1>1. 0 \in good
  <2> DEFINE g == [n \in 0..0 |-> base]
  <2>1. g \in [0..0 -> V] /\ g[0] = base /\ 1..0 = {}
    OBVIOUS
  <2> HIDE DEF g
  <2>2. IsRecursion(g, 0, V, base, F)
    BY <2>1 DEF IsRecursion
  <2>3. QED
    BY <2>2
<1>2. ASSUME NEW n \in 1..N, n - 1 \in good PROVE n \in good
  <2>1. PICK g : IsRecursion(g, n - 1, V, base, F)
    BY <1>2
  <2> DEFINE last == F[<<n, g[n - 1]>>]
             h == [m \in 0..n |-> IF m = n THEN last ELSE g[m]]
  <2>2. g \in [0..(n - 1) -> V] /\ g[n - 1] \in V /\ g[0] = base
    BY <2>1 DEF IsRecursion
  <2>3. last \in V
    BY <2>2
  <2>4. \A m \in 1..(n - 1) : g[m] = F[<<m, g[m - 1]>>]
    BY <2>1 DEF IsRecursion
  <2>5. h[n - 1] = g[n - 1]
    OBVIOUS
  <2>6. h[n] = F[<<n, h[n - 1]>>]
    <3>1. h[n] = last
      OBVIOUS
    <3> HIDE DEF h
    <3>2. QED
      BY <2>5, <3>1
  <2> HIDE DEF last
  <2>7. h \in [0..n -> V] /\ h[0] = base
    BY <2>2, <2>3
  <2>8. \A m \in 1..(n - 1) : h[m] = g[m] /\ h[m - 1] = g[m - 1]
    OBVIOUS
  <2> HIDE DEF h
  <2>9. ASSUME NEW m \in 1..n PROVE h[m] = F[<<m, h[m - 1]>>]
    <3>1. CASE m = n
      BY <2>6, <3>1
    <3>2. CASE m # n
      <4>1. m \in 1..(n - 1)
        BY <3>2
      <4>2. QED
        BY <2>4, <2>8, <4>1
    <3>3. QED
      BY <3>1, <3>2
  <2>10. IsRecursion(h, n, V, base, F)
    BY <2>7, <2>9 DEF IsRecursion
  <2>11. QED
    BY <2>10
<1> HIDE DEF good
<1>3. 0..N \subseteq good
  BY <1>1, <1>2, UpTo
<1>4. QED
  BY <1>3 DEF good
-------------------------------------------------------------------------------
\* g is the fold of F over the subsets of U, which takes its elements in the order pick gives.
IsFold(g, U, V, base, F, pick) ==
  /\ g \in [SUBSET U -> V]
  /\ \A s \in SUBSET U : g[s] = IF s = {} THEN base ELSE F[<<pick[s], g[s \ {pick[s]}]>>]

LEMMA FoldUnique ==
  ASSUME NEW U, IsFiniteSet(U), NEW V, NEW base, NEW F, NEW pick,
         \A s \in SUBSET U : s # {} => pick[s] \in s,
         NEW g, IsFold(g, U, V, base, F, pick), NEW h, IsFold(h, U, V, base, F, pick),
         NEW u \in SUBSET U
  PROVE  g[u] = h[u]
<1> SUFFICES ASSUME g[u] # h[u] PROVE FALSE
  OBVIOUS
<1> DEFINE bad == {s \in SUBSET U : g[s] # h[s]}
<1>0. bad \subseteq SUBSET U /\ bad # {}
  OBVIOUS
<1> HIDE DEF bad
<1>1. PICK s \in bad : \A t \in bad : t \subseteq s => t = s
  BY <1>0, SmallestSubset
<1> USE DEF bad
<1>2. s # {}
  BY DEF IsFold
<1>3. pick[s] \in s
  BY <1>2
<1>4. g[s \ {pick[s]}] = h[s \ {pick[s]}]
  BY <1>1, <1>3
<1>5. QED
  BY <1>2, <1>4 DEF IsFold

LEMMA FoldRestricted ==
  ASSUME NEW U, NEW V, NEW base, NEW F, NEW pick,
         \A s \in SUBSET U : s # {} => pick[s] \in s,
         NEW g, IsFold(g, U, V, base, F, pick), NEW W \in SUBSET U
  PROVE  IsFold(Restrict(g, SUBSET W), W, V, base, F, pick)
<1> DEFINE k == [s \in SUBSET W |-> g[s]]
<1>1. k \in [SUBSET W -> V]
  BY DEF IsFold
<1>2. ASSUME NEW s \in SUBSET W, s # {} PROVE k[s] = F[<<pick[s], k[s \ {pick[s]}]>>]
  <2>1. s \in SUBSET U /\ s \ {pick[s]} \in SUBSET W
    OBVIOUS
  <2>2. QED
    BY <1>2, <2>1 DEF IsFold
<1>3. k[{}] = base
  BY DEF IsFold
<1>4. Restrict(g, SUBSET W) = k
  BY DEF Restrict
<1>5. QED
  BY <1>1, <1>2, <1>3, <1>4 DEF IsFold

\* A fold over a finite set exists, and its values are of the type of the accumulator.
LEMMA FoldExists ==
  ASSUME NEW S, IsFiniteSet(S), NEW V, NEW base \in V,
         NEW F, \A x \in S : \A v \in V : F[<<x, v>>] \in V,
         NEW pick, \A s \in SUBSET S : s # {} => pick[s] \in s
  PROVE  \E g : IsFold(g, S, V, base, F, pick)
<1> SUFFICES ASSUME ~ \E g : IsFold(g, S, V, base, F, pick) PROVE FALSE
  OBVIOUS
<1> DEFINE bad == {U \in SUBSET S : ~ \E g : IsFold(g, U, V, base, F, pick)}
<1>0. bad \subseteq SUBSET S /\ bad # {}
  OBVIOUS
<1> HIDE DEF bad
<1>1. PICK U \in bad : \A t \in bad : t \subseteq U => t = U
  BY <1>0, SmallestSubset
<1> USE DEF bad
<1>2. U # {}
  <2>1. IsFold([s \in SUBSET {} |-> base], {}, V, base, F, pick)
    BY DEF IsFold
  <2>2. QED
    BY <2>1
<1> DEFINE last == pick[U]
           G == [t \in (SUBSET U) \ {U} |-> CHOOSE g : IsFold(g, t, V, base, F, pick)]
           h == [t \in SUBSET U |-> IF t = U THEN F[<<last, G[U \ {last}][U \ {last}]>>] ELSE G[t][t]]
<1>3. last \in U /\ U \in SUBSET S
  BY <1>2
<1>4. ASSUME NEW t \in (SUBSET U) \ {U}
      PROVE  IsFold(G[t], t, V, base, F, pick) /\ IsFiniteSet(t)
  <2>1. t \notin bad /\ t \in SUBSET S
    BY <1>1, <1>3
  <2>2. IsFiniteSet(t)
    BY <2>1, FS_Subset
  <2>3. QED
    BY <2>1, <2>2
<1>5. ASSUME NEW t \in (SUBSET U) \ {U}, NEW r \in SUBSET t PROVE G[t][r] = G[r][r]
  <2>1. r \in (SUBSET U) \ {U}
    OBVIOUS
  <2>2. \A s \in SUBSET t : s # {} => pick[s] \in s
    BY <1>3
  <2>8. IsFold(G[t], t, V, base, F, pick)
    BY <1>4
  <2> HIDE DEF G, h
  <2>3. IsFold(Restrict(G[t], SUBSET r), r, V, base, F, pick)
    BY <2>2, <2>8, FoldRestricted
  <2>4. \A s \in SUBSET r : s # {} => pick[s] \in s
    BY <2>2
  <2>5. IsFold(G[r], r, V, base, F, pick) /\ IsFiniteSet(r)
    BY <1>4, <2>1
  <2>6. Restrict(G[t], SUBSET r)[r] = G[r][r]
    BY <2>3, <2>4, <2>5, FoldUnique
  <2>7. QED
    BY <2>6 DEF Restrict
<1>6. U \ {last} \in (SUBSET U) \ {U}
  BY <1>3
<1> HIDE DEF G
<1>7. ASSUME NEW t \in (SUBSET U) \ {U} PROVE G[t][t] \in V
  <2>1. IsFold(G[t], t, V, base, F, pick)
    BY <1>4
  <2>2. QED
    BY <2>1 DEF IsFold
<1>8. h \in [SUBSET U -> V]
  BY <1>3, <1>6, <1>7
<1>9. ASSUME NEW t \in SUBSET U
      PROVE  h[t] = IF t = {} THEN base ELSE F[<<pick[t], h[t \ {pick[t]}]>>]
  <2>1. CASE t = U
    BY <1>2, <1>6, <2>1
  <2>2. CASE t # U /\ t = {}
    BY <1>4, <2>2 DEF IsFold
  <2>3. CASE t # U /\ t # {}
    <3>1. t \in (SUBSET U) \ {U} /\ pick[t] \in t
      BY <1>3, <2>3
    <3>2. t \ {pick[t]} \in SUBSET t /\ t \ {pick[t]} \in (SUBSET U) \ {U}
      BY <3>1
    <3>3. G[t][t] = F[<<pick[t], G[t][t \ {pick[t]}]>>]
      BY <1>4, <2>3, <3>1 DEF IsFold
    <3>4. G[t][t \ {pick[t]}] = G[t \ {pick[t]}][t \ {pick[t]}]
      BY <1>5, <3>1, <3>2
    <3>5. QED
      BY <2>3, <3>1, <3>2, <3>3, <3>4
  <2>4. QED
    BY <2>1, <2>2, <2>3
<1>10. IsFold(h, U, V, base, F, pick)
  BY <1>8, <1>9 DEF IsFold
<1>11. QED
  BY <1>10
-------------------------------------------------------------------------------
\* g adds up f over the subsets of U, in the order the definition of the sum takes.
SumsOf(g, f, U) ==
  /\ g \in [SUBSET U -> Int]
  /\ \A s \in SUBSET U :
       g[s] = IF s = {} THEN 0 ELSE f[CHOOSE x \in s : TRUE] + g[s \ {CHOOSE x \in s : TRUE}]

LEMMA AddsExists ==
  ASSUME NEW U, IsFiniteSet(U), NEW f, \A x \in U : f[x] \in Int
  PROVE  \E g : SumsOf(g, f, U)
<1> DEFINE pick == [s \in SUBSET U |-> CHOOSE x \in s : TRUE]
           F == [p \in U \X Int |-> f[p[1]] + p[2]]
<1>1. \A s \in SUBSET U : s # {} => pick[s] \in s
  OBVIOUS
<1>2. 0 \in Int /\ \A x \in U : \A v \in Int : F[<<x, v>>] \in Int
  OBVIOUS
<1>9. \A x \in U, v \in Int : F[<<x, v>>] = f[x] + v
  OBVIOUS
<1>3. \A s \in SUBSET U : pick[s] = CHOOSE x \in s : TRUE
  OBVIOUS
<1> HIDE DEF pick, F
<1>4. PICK g : IsFold(g, U, Int, 0, F, pick)
  BY <1>1, <1>2, FoldExists
<1>5. g \in [SUBSET U -> Int]
  BY <1>4 DEF IsFold
<1>6. ASSUME NEW s \in SUBSET U, s # {}
      PROVE  g[s] = f[CHOOSE x \in s : TRUE] + g[s \ {CHOOSE x \in s : TRUE}]
  <2>1. g[s] = F[<<pick[s], g[s \ {pick[s]}]>>]
    BY <1>4, <1>6 DEF IsFold
  <2>2. pick[s] \in U /\ g[s \ {pick[s]}] \in Int
    BY <1>1, <1>5, <1>6
  <2>3. QED
    BY <1>3, <1>9, <2>1, <2>2
<1>7. g[{}] = 0
  BY <1>4 DEF IsFold
<1>8. SumsOf(g, f, U)
  BY <1>5, <1>6, <1>7 DEF SumsOf
<1>10. QED
  BY <1>8

LEMMA AddsIsSum ==
  ASSUME NEW U, IsFiniteSet(U), NEW f, NEW h, SumsOf(h, f, U), NEW W \in SUBSET U
  PROVE  SumFunctionOnSet(f, W) = h[W]
<1> DEFINE Rule(g) == g = [s \in SUBSET W |->
             IF s = {} THEN 0 ELSE f[CHOOSE x \in s : TRUE] + g[s \ {CHOOSE x \in s : TRUE}]]
           iter == CHOOSE g : Rule(g)
           k == [s \in SUBSET W |-> h[s]]
<1>1. SumFunctionOnSet(f, W) = iter[W]
  BY DEF SumFunctionOnSet, FoldFunctionOnSet, MapThenFoldSet
<1>2. Rule(k)
  <2>1. ASSUME NEW s \in SUBSET W
        PROVE  h[s] = IF s = {} THEN 0
                      ELSE f[CHOOSE x \in s : TRUE] + k[s \ {CHOOSE x \in s : TRUE}]
    BY DEF SumsOf
  <2>2. QED
    BY <2>1
<1>3. Rule(iter)
  BY <1>2
<1> HIDE DEF iter
<1>4. ASSUME iter[W] # h[W] PROVE FALSE
  <2> DEFINE bad == {s \in SUBSET W : iter[s] # h[s]}
  <2>0. bad \subseteq SUBSET W /\ bad # {} /\ IsFiniteSet(W)
    BY <1>4, FS_Subset
  <2> HIDE DEF bad
  <2>1. PICK s \in bad : \A t \in bad : t \subseteq s => t = s
    BY <2>0, SmallestSubset
  <2> USE DEF bad
  <2>2. s # {}
    BY <1>3 DEF SumsOf
  <2>3. iter[s \ {CHOOSE x \in s : TRUE}] = h[s \ {CHOOSE x \in s : TRUE}]
    BY <2>1, <2>2
  <2>4. iter[s] = f[CHOOSE x \in s : TRUE] + iter[s \ {CHOOSE x \in s : TRUE}]
    BY <1>3, <2>2
  <2>5. h[s] = f[CHOOSE x \in s : TRUE] + h[s \ {CHOOSE x \in s : TRUE}]
    BY <2>2 DEF SumsOf
  <2>6. QED
    BY <2>3, <2>4, <2>5
<1>5. QED
  BY <1>1, <1>4

LEMMA SumType ==
  ASSUME NEW S, IsFiniteSet(S), NEW f, \A x \in S : f[x] \in Int
  PROVE  SumFunctionOnSet(f, S) \in Int
<1>1. PICK g : SumsOf(g, f, S)
  BY AddsExists
<1>2. SumFunctionOnSet(f, S) = g[S]
  BY <1>1, AddsIsSum
<1>3. QED
  BY <1>1, <1>2 DEF SumsOf

LEMMA SumEmpty == ASSUME NEW f PROVE SumFunctionOnSet(f, {}) = 0
<1>1. IsFiniteSet({})
  BY FS_EmptySet
<1>2. PICK g : SumsOf(g, f, {})
  BY <1>1, AddsExists
<1>3. SumFunctionOnSet(f, {}) = g[{}]
  BY <1>1, <1>2, AddsIsSum
<1>4. QED
  BY <1>2, <1>3 DEF SumsOf

\* Any element can be taken out of a sum first, whichever the definition chooses.
LEMMA SumTakeOut ==
  ASSUME NEW S, IsFiniteSet(S), NEW f, \A x \in S : f[x] \in Int, NEW y \in S
  PROVE  SumFunctionOnSet(f, S) = f[y] + SumFunctionOnSet(f, S \ {y})
<1>1. PICK g : SumsOf(g, f, S)
  BY AddsExists
<1>2. \A W \in SUBSET S : SumFunctionOnSet(f, W) = g[W]
  BY <1>1, AddsIsSum
<1>3. ASSUME g[S] # f[y] + g[S \ {y}] PROVE FALSE
  <2> DEFINE bad == {s \in SUBSET S : \E x \in s : g[s] # f[x] + g[s \ {x}]}
  <2>0. bad \subseteq SUBSET S /\ bad # {}
    BY <1>3
  <2> HIDE DEF bad
  <2>1. PICK s \in bad : \A t \in bad : t \subseteq s => t = s
    BY <2>0, SmallestSubset
  <2> USE DEF bad
  <2>2. PICK x \in s : g[s] # f[x] + g[s \ {x}]
    OBVIOUS
  <2>3. PICK c : c = CHOOSE z \in s : TRUE
    OBVIOUS
  <2>4. c \in s /\ s \in SUBSET S
    BY <2>2, <2>3
  <2>5. g[s] = f[c] + g[s \ {c}]
    BY <1>1, <2>3, <2>4 DEF SumsOf
  <2>6. c # x
    BY <2>2, <2>5
  <2>7. s \ {c} \notin bad /\ s \ {x} \notin bad
    BY <2>1, <2>4
  <2>8. g[s \ {c}] = f[x] + g[(s \ {c}) \ {x}] /\ g[s \ {x}] = f[c] + g[(s \ {x}) \ {c}]
    BY <2>4, <2>6, <2>7
  <2>9. (s \ {c}) \ {x} = (s \ {x}) \ {c} /\ (s \ {c}) \ {x} \in SUBSET S
    BY <2>4
  <2>10. g[(s \ {c}) \ {x}] \in Int /\ f[x] \in Int /\ f[c] \in Int
    BY <1>1, <2>4, <2>9 DEF SumsOf
  <2> HIDE DEF bad
  <2>11. g[s] = f[c] + (f[x] + g[(s \ {c}) \ {x}]) /\ g[s \ {x}] = f[c] + g[(s \ {c}) \ {x}]
    BY <2>5, <2>8, <2>9
  <2>12. QED
    BY <2>2, <2>10, <2>11
<1>4. QED
  BY <1>2, <1>3

LEMMA SumAdd ==
  ASSUME NEW S, IsFiniteSet(S), NEW f, \A x \in S : f[x] \in Int,
         NEW y, y \notin S, f[y] \in Int
  PROVE  SumFunctionOnSet(f, S \cup {y}) = f[y] + SumFunctionOnSet(f, S)
<1>1. IsFiniteSet(S \cup {y}) /\ (S \cup {y}) \ {y} = S
  BY FS_AddElement
<1>2. SumFunctionOnSet(f, S \cup {y}) = f[y] + SumFunctionOnSet(f, (S \cup {y}) \ {y})
  BY <1>1, SumTakeOut
<1>3. QED
  BY <1>1, <1>2
-------------------------------------------------------------------------------
LEMMA SumExtensional ==
  ASSUME NEW S, IsFiniteSet(S), NEW f, \A x \in S : f[x] \in Int,
         NEW g, \A x \in S : g[x] = f[x]
  PROVE  SumFunctionOnSet(g, S) = SumFunctionOnSet(f, S)
<1>1. PICK h : SumsOf(h, f, S)
  BY AddsExists
<1>2. SumsOf(h, g, S)
  <2>1. ASSUME NEW s \in SUBSET S, s # {} PROVE g[CHOOSE x \in s : TRUE] = f[CHOOSE x \in s : TRUE]
    BY <2>1
  <2>2. QED
    BY <1>1, <2>1 DEF SumsOf
<1>3. SumFunctionOnSet(g, S) = h[S] /\ SumFunctionOnSet(f, S) = h[S]
  BY <1>1, <1>2, AddsIsSum
<1>4. QED
  BY <1>3

LEMMA SumZero ==
  ASSUME NEW S, IsFiniteSet(S), NEW f, \A x \in S : f[x] = 0
  PROVE  SumFunctionOnSet(f, S) = 0
<1> DEFINE good == {s \in SUBSET S : SumFunctionOnSet(f, s) = 0}
<1>1. {} \in good
  BY SumEmpty
<1>2. ASSUME NEW s \in SUBSET S, NEW x \in S \ s, s \in good PROVE s \cup {x} \in good
  <2>1. IsFiniteSet(s)
    BY FS_Subset
  <2>2. SumFunctionOnSet(f, s \cup {x}) = f[x] + SumFunctionOnSet(f, s)
    BY <2>1, SumAdd
  <2>3. QED
    BY <1>2, <2>2
<1> HIDE DEF good
<1>3. S \in good
  BY <1>1, <1>2, SetInduction
<1>4. QED
  BY <1>3 DEF good

LEMMA SumMonotonic ==
  ASSUME NEW S, IsFiniteSet(S), NEW f, \A x \in S : f[x] \in Int,
         NEW g, \A x \in S : g[x] \in Int, \A x \in S : f[x] <= g[x]
  PROVE  SumFunctionOnSet(f, S) <= SumFunctionOnSet(g, S)
<1> DEFINE good == {s \in SUBSET S : SumFunctionOnSet(f, s) <= SumFunctionOnSet(g, s)}
<1>1. {} \in good
  BY SumEmpty
<1>2. ASSUME NEW s \in SUBSET S, NEW x \in S \ s, s \in good PROVE s \cup {x} \in good
  <2>1. IsFiniteSet(s) /\ SumFunctionOnSet(f, s) \in Int /\ SumFunctionOnSet(g, s) \in Int
    BY FS_Subset, SumType
  <2>2. /\ SumFunctionOnSet(f, s \cup {x}) = f[x] + SumFunctionOnSet(f, s)
        /\ SumFunctionOnSet(g, s \cup {x}) = g[x] + SumFunctionOnSet(g, s)
    BY <2>1, SumAdd
  <2>3. SumFunctionOnSet(f, s) <= SumFunctionOnSet(g, s) /\ f[x] <= g[x] /\ f[x] \in Int /\ g[x] \in Int
    BY <1>2
  <2>4. SumFunctionOnSet(f, s \cup {x}) <= SumFunctionOnSet(g, s \cup {x})
    BY <2>1, <2>2, <2>3
  <2>5. QED
    BY <2>4
<1> HIDE DEF good
<1>3. S \in good
  BY <1>1, <1>2, SetInduction
<1>4. QED
  BY <1>3 DEF good

\* One element's number changes, and the sum by as much.
LEMMA SumChanged ==
  ASSUME NEW S, IsFiniteSet(S), NEW f, \A x \in S : f[x] \in Int, NEW y \in S,
         NEW g, g[y] \in Int, \A x \in S \ {y} : g[x] = f[x]
  PROVE  SumFunctionOnSet(g, S) = SumFunctionOnSet(f, S) - f[y] + g[y]
<1>1. IsFiniteSet(S \ {y}) /\ f[y] \in Int /\ \A x \in S \ {y} : f[x] \in Int
  BY FS_RemoveElement
<1>2. SumFunctionOnSet(g, S \ {y}) = SumFunctionOnSet(f, S \ {y}) /\ SumFunctionOnSet(f, S \ {y}) \in Int
  BY <1>1, SumExtensional, SumType
<1>3. \A x \in S : g[x] \in Int
  OBVIOUS
<1>4. SumFunctionOnSet(f, S) = f[y] + SumFunctionOnSet(f, S \ {y})
  BY SumTakeOut
<1>5. SumFunctionOnSet(g, S) = g[y] + SumFunctionOnSet(g, S \ {y})
  BY <1>3, SumTakeOut
<1>6. QED
  BY <1>1, <1>2, <1>4, <1>5

LEMMA SumPlus ==
  ASSUME NEW S, IsFiniteSet(S), NEW f, \A x \in S : f[x] \in Int,
         NEW g, \A x \in S : g[x] \in Int, NEW h, \A x \in S : h[x] = f[x] + g[x]
  PROVE  SumFunctionOnSet(h, S) = SumFunctionOnSet(f, S) + SumFunctionOnSet(g, S)
<1> DEFINE good == {s \in SUBSET S :
             SumFunctionOnSet(h, s) = SumFunctionOnSet(f, s) + SumFunctionOnSet(g, s)}
<1>1. {} \in good
  BY SumEmpty
<1>2. ASSUME NEW s \in SUBSET S, NEW x \in S \ s, s \in good PROVE s \cup {x} \in good
  <2>1. IsFiniteSet(s) /\ SumFunctionOnSet(f, s) \in Int /\ SumFunctionOnSet(g, s) \in Int
    BY FS_Subset, SumType
  <2>2. \A y \in S : h[y] \in Int
    OBVIOUS
  <2>3. /\ SumFunctionOnSet(f, s \cup {x}) = f[x] + SumFunctionOnSet(f, s)
        /\ SumFunctionOnSet(g, s \cup {x}) = g[x] + SumFunctionOnSet(g, s)
        /\ SumFunctionOnSet(h, s \cup {x}) = h[x] + SumFunctionOnSet(h, s)
    BY <2>1, <2>2, SumAdd
  <2>4. /\ SumFunctionOnSet(h, s) = SumFunctionOnSet(f, s) + SumFunctionOnSet(g, s)
        /\ h[x] = f[x] + g[x] /\ f[x] \in Int /\ g[x] \in Int
    BY <1>2
  <2>5. SumFunctionOnSet(h, s \cup {x}) = SumFunctionOnSet(f, s \cup {x}) + SumFunctionOnSet(g, s \cup {x})
    BY <2>1, <2>3, <2>4
  <2>6. QED
    BY <2>5
<1> HIDE DEF good
<1>3. S \in good
  BY <1>1, <1>2, SetInduction
<1>4. QED
  BY <1>3 DEF good

\* A sum of ones counts.
LEMMA SumCounts ==
  ASSUME NEW S, IsFiniteSet(S), NEW T \in SUBSET S, NEW f, \A x \in S : f[x] = IF x \in T THEN 1 ELSE 0
  PROVE  SumFunctionOnSet(f, S) = Cardinality(T)
<1> DEFINE good == {s \in SUBSET S : SumFunctionOnSet(f, s) = Cardinality(s \cap T)}
<1>1. {} \in good
  BY SumEmpty, FS_EmptySet
<1>2. ASSUME NEW s \in SUBSET S, NEW x \in S \ s, s \in good PROVE s \cup {x} \in good
  <2>1. IsFiniteSet(s) /\ \A y \in S : f[y] \in Int
    BY FS_Subset
  <2>2. SumFunctionOnSet(f, s \cup {x}) = f[x] + SumFunctionOnSet(f, s)
    BY <2>1, SumAdd
  <2>3. IsFiniteSet(s \cap T) /\ Cardinality(s \cap T) \in Nat
    BY <2>1, FS_Subset, FS_CardinalityType
  <2>4. SumFunctionOnSet(f, s) = Cardinality(s \cap T)
    BY <1>2
  <2>5. CASE x \in T
    <3>1. (s \cup {x}) \cap T = (s \cap T) \cup {x} /\ x \notin s \cap T
      BY <2>5
    <3>2. Cardinality((s \cap T) \cup {x}) = Cardinality(s \cap T) + 1
      BY <2>3, <3>1, FS_AddElement
    <3>3. f[x] = 1
      BY <2>5
    <3>4. SumFunctionOnSet(f, s \cup {x}) = Cardinality((s \cup {x}) \cap T)
      BY <2>2, <2>3, <2>4, <3>1, <3>2, <3>3
    <3>5. QED
      BY <3>4
  <2>6. CASE x \notin T
    <3>1. (s \cup {x}) \cap T = s \cap T
      BY <2>6
    <3>2. QED
      BY <2>2, <2>3, <2>4, <2>6, <3>1
  <2>7. QED
    BY <2>5, <2>6
<1> HIDE DEF good
<1>3. S \in good
  BY <1>1, <1>2, SetInduction
<1>4. S \cap T = T
  OBVIOUS
<1>5. QED
  BY <1>3, <1>4 DEF good

LEMMA SumScaled ==
  ASSUME NEW S, IsFiniteSet(S), NEW f, \A x \in S : f[x] \in Int, NEW c \in Int,
         NEW h, \A x \in S : h[x] = c * f[x]
  PROVE  SumFunctionOnSet(h, S) = c * SumFunctionOnSet(f, S)
<1> DEFINE good == {s \in SUBSET S : SumFunctionOnSet(h, s) = c * SumFunctionOnSet(f, s)}
<1>1. {} \in good
  BY SumEmpty
<1>2. ASSUME NEW s \in SUBSET S, NEW x \in S \ s, s \in good PROVE s \cup {x} \in good
  <2>1. IsFiniteSet(s) /\ SumFunctionOnSet(f, s) \in Int
    BY FS_Subset, SumType
  <2>2. \A y \in S : h[y] \in Int
    OBVIOUS
  <2>3. /\ SumFunctionOnSet(f, s \cup {x}) = f[x] + SumFunctionOnSet(f, s)
        /\ SumFunctionOnSet(h, s \cup {x}) = h[x] + SumFunctionOnSet(h, s)
    BY <2>1, <2>2, SumAdd
  <2>4. SumFunctionOnSet(h, s) = c * SumFunctionOnSet(f, s) /\ h[x] = c * f[x] /\ f[x] \in Int
    BY <1>2
  <2>5. \A a, b \in Int : c * a + c * b = c * (a + b)
    OBVIOUS
  <2>6. SumFunctionOnSet(h, s \cup {x}) = c * SumFunctionOnSet(f, s \cup {x})
    BY <2>1, <2>3, <2>4, <2>5
  <2>7. QED
    BY <2>6
<1> HIDE DEF good
<1>3. S \in good
  BY <1>1, <1>2, SetInduction
<1>4. QED
  BY <1>3 DEF good

LEMMA SumNonnegative ==
  ASSUME NEW S, IsFiniteSet(S), NEW f, \A x \in S : f[x] \in Nat
  PROVE  SumFunctionOnSet(f, S) \in Nat
<1> DEFINE zero == [x \in S |-> 0]
<1>1. SumFunctionOnSet(zero, S) = 0
  BY SumZero
<1>2. \A x \in S : zero[x] \in Int /\ f[x] \in Int /\ zero[x] <= f[x]
  OBVIOUS
<1> HIDE DEF zero
<1>3. SumFunctionOnSet(zero, S) <= SumFunctionOnSet(f, S) /\ SumFunctionOnSet(f, S) \in Int
  BY <1>2, SumMonotonic, SumType
<1>4. QED
  BY <1>1, <1>3

LEMMA SumDisjoint ==
  ASSUME NEW S, IsFiniteSet(S), NEW T, IsFiniteSet(T), S \cap T = {},
         NEW f, \A x \in S \cup T : f[x] \in Int
  PROVE  SumFunctionOnSet(f, S \cup T) = SumFunctionOnSet(f, S) + SumFunctionOnSet(f, T)
<1> DEFINE good == {t \in SUBSET T :
             SumFunctionOnSet(f, S \cup t) = SumFunctionOnSet(f, S) + SumFunctionOnSet(f, t)}
<1>0. SumFunctionOnSet(f, S) \in Int
  BY SumType
<1>1. {} \in good
  <2>1. S \cup {} = S
    OBVIOUS
  <2>2. QED
    BY <1>0, <2>1, SumEmpty
<1>2. ASSUME NEW t \in SUBSET T, NEW x \in T \ t, t \in good PROVE t \cup {x} \in good
  <2>1. IsFiniteSet(t) /\ IsFiniteSet(S \cup t)
    BY FS_Subset, FS_Union
  <2>2. SumFunctionOnSet(f, t) \in Int
    BY <2>1, SumType
  <2>3. SumFunctionOnSet(f, t \cup {x}) = f[x] + SumFunctionOnSet(f, t)
    BY <2>1, SumAdd
  <2>4. SumFunctionOnSet(f, (S \cup t) \cup {x}) = f[x] + SumFunctionOnSet(f, S \cup t)
    <3>1. x \notin S \cup t /\ f[x] \in Int /\ \A y \in S \cup t : f[y] \in Int
      OBVIOUS
    <3>2. QED
      BY <2>1, <3>1, SumAdd
  <2>5. (S \cup t) \cup {x} = S \cup (t \cup {x}) /\ f[x] \in Int
    OBVIOUS
  <2>6. SumFunctionOnSet(f, S \cup t) = SumFunctionOnSet(f, S) + SumFunctionOnSet(f, t)
    BY <1>2
  <2>7. SumFunctionOnSet(f, S \cup (t \cup {x})) = f[x] + SumFunctionOnSet(f, S \cup t)
    BY <2>4, <2>5
  <2> HIDE DEF good
  <2>8. SumFunctionOnSet(f, S \cup (t \cup {x})) = SumFunctionOnSet(f, S) + SumFunctionOnSet(f, t \cup {x})
    BY <1>0, <2>2, <2>3, <2>5, <2>6, <2>7
  <2>9. QED
    BY <2>8 DEF good
<1> HIDE DEF good
<1>3. T \in good
  BY <1>1, <1>2, SetInduction
<1>4. QED
  BY <1>3 DEF good

\* b gives each element of S a name of its own in T and uses every name.
Renames(b, S, T) ==
  /\ \A x \in S : b[x] \in T
  /\ \A x, y \in S : b[x] = b[y] => x = y
  /\ \A z \in T : \E x \in S : z = b[x]

\* A sum does not depend on what its elements are called.
LEMMA SumReindexed ==
  ASSUME NEW S, IsFiniteSet(S), NEW f, \A x \in S : f[x] \in Int,
         NEW T, NEW b, Renames(b, S, T), NEW g, \A x \in S : g[b[x]] = f[x]
  PROVE  IsFiniteSet(T) /\ SumFunctionOnSet(g, T) = SumFunctionOnSet(f, S)
<1> DEFINE Image(s) == {b[x] : x \in s}
           good == {s \in SUBSET S :
             IsFiniteSet(Image(s)) /\ SumFunctionOnSet(g, Image(s)) = SumFunctionOnSet(f, s)}
<1>1. {} \in good
  <2>1. Image({}) = {}
    OBVIOUS
  <2> HIDE DEF Image
  <2>2. QED
    BY <2>1, SumEmpty, FS_EmptySet
<1>2. ASSUME NEW s \in SUBSET S, NEW x \in S \ s, s \in good PROVE s \cup {x} \in good
  <2>1. IsFiniteSet(s)
    BY FS_Subset
  <2>2. /\ Image(s \cup {x}) = Image(s) \cup {b[x]}
        /\ b[x] \notin Image(s) /\ g[b[x]] = f[x] /\ f[x] \in Int
        /\ \A y \in Image(s) : g[y] \in Int
    BY DEF Renames
  <2>3. IsFiniteSet(Image(s)) /\ SumFunctionOnSet(g, Image(s)) = SumFunctionOnSet(f, s)
    BY <1>2
  <2> HIDE DEF Image
  <2>4. SumFunctionOnSet(g, Image(s) \cup {b[x]}) = g[b[x]] + SumFunctionOnSet(g, Image(s))
    BY <2>2, <2>3, SumAdd
  <2>5. SumFunctionOnSet(f, s \cup {x}) = f[x] + SumFunctionOnSet(f, s)
    BY <2>1, SumAdd
  <2>6. IsFiniteSet(Image(s) \cup {b[x]})
    BY <2>3, FS_AddElement
  <2>7. QED
    BY <2>2, <2>3, <2>4, <2>5, <2>6
<1>3. T = Image(S)
  BY DEF Renames
<1> HIDE DEF good
<1>4. S \in good
  BY <1>1, <1>2, SetInduction
<1>5. QED
  BY <1>3, <1>4 DEF good
-------------------------------------------------------------------------------
\* Sums of sequences of numbers.
LEMMA SeqSumType ==
  /\ \A s \in Seq(Int) : SumFunction(s) \in Int
  /\ \A s \in Seq(Nat) : SumFunction(s) \in Nat
<1>1. ASSUME NEW s \in Seq(Int) PROVE IsFiniteSet(DOMAIN s)
  BY FS_Interval
<1>2. ASSUME NEW s \in Seq(Int) PROVE SumFunction(s) \in Int
  <2>1. \A i \in DOMAIN s : s[i] \in Int
    OBVIOUS
  <2>2. QED
    BY <1>1, <2>1, SumType DEF SumFunction
<1>3. ASSUME NEW s \in Seq(Nat) PROVE SumFunction(s) \in Nat
  <2>1. s \in Seq(Int) /\ \A i \in DOMAIN s : s[i] \in Nat
    OBVIOUS
  <2>2. QED
    BY <1>1, <2>1, SumNonnegative DEF SumFunction
<1>4. QED
  BY <1>2, <1>3

LEMMA SeqSumEmpty == SumFunction(<<>>) = 0
<1>1. DOMAIN <<>> = {}
  OBVIOUS
<1>2. QED
  BY <1>1, SumEmpty DEF SumFunction

LEMMA SeqSumSingleton == \A n \in Int : SumFunction(<<n>>) = n
<1> SUFFICES ASSUME NEW n \in Int PROVE SumFunction(<<n>>) = n
  OBVIOUS
<1> DEFINE s == <<n>>
<1>1. DOMAIN s = {} \cup {1} /\ s[1] = n
  OBVIOUS
<1> HIDE DEF s
<1>2. SumFunctionOnSet(s, {} \cup {1}) = s[1] + SumFunctionOnSet(s, {})
  BY <1>1, FS_EmptySet, SumAdd
<1>3. SumFunction(s) = n
  BY <1>1, <1>2, SumEmpty DEF SumFunction
<1>4. QED
  BY <1>3 DEF s

LEMMA SeqSumConcat ==
  ASSUME NEW s \in Seq(Int), NEW t \in Seq(Int)
  PROVE  SumFunction(s \o t) = SumFunction(s) + SumFunction(t)
<1> DEFINE S == 1..Len(s)
           T == 1..Len(t)
           shift == [i \in T |-> Len(s) + i]
           U == {shift[i] : i \in T}
           st == s \o t
<1>1. IsFiniteSet(S) /\ IsFiniteSet(T)
  BY FS_Interval
<1>2. /\ S \cap U = {}
      /\ \A i \in S : st[i] = s[i] /\ s[i] \in Int
      /\ \A i \in T : st[shift[i]] = t[i] /\ t[i] \in Int
  OBVIOUS
<1>3. DOMAIN st = S \cup U /\ DOMAIN s = S /\ DOMAIN t = T
  <2>1. ASSUME NEW k \in 1..(Len(s) + Len(t)) PROVE k \in S \cup U
    <3>1. CASE k <= Len(s)
      BY <3>1
    <3>2. CASE k > Len(s)
      <4>1. k - Len(s) \in T /\ shift[k - Len(s)] = k
        BY <3>2
      <4>2. QED
        BY <4>1
    <3>3. QED
      BY <3>1, <3>2
  <2>2. S \cup U \subseteq 1..(Len(s) + Len(t))
    OBVIOUS
  <2>3. DOMAIN st = 1..(Len(s) + Len(t))
    OBVIOUS
  <2>4. DOMAIN s = S /\ DOMAIN t = T
    OBVIOUS
  <2> HIDE DEF S, T, U, st
  <2>5. QED
    BY <2>1, <2>2, <2>3, <2>4
<1>4. \A i \in S \cup U : st[i] \in Int
  BY <1>2
<1>5. Renames(shift, T, U)
  BY DEF Renames
<1> HIDE DEF S, T, shift, st, U
<1>6. IsFiniteSet(U) /\ SumFunctionOnSet(st, U) = SumFunctionOnSet(t, T)
  <2>1. /\ \A i \in T : t[i] \in Int
        /\ \A i \in T : st[shift[i]] = t[i]
    BY <1>2
  <2>2. QED
    BY <1>1, <1>5, <2>1, SumReindexed
<1>7. SumFunctionOnSet(st, S) = SumFunctionOnSet(s, S)
  BY <1>1, <1>2, SumExtensional
<1>8. SumFunctionOnSet(st, S \cup U) = SumFunctionOnSet(st, S) + SumFunctionOnSet(st, U)
  BY <1>1, <1>2, <1>4, <1>6, SumDisjoint
<1>9. SumFunction(st) = SumFunction(s) + SumFunction(t)
  BY <1>3, <1>6, <1>7, <1>8 DEF SumFunction
<1>10. QED
  BY <1>9 DEF st

LEMMA SeqSumAppend ==
  ASSUME NEW s \in Seq(Int), NEW n \in Int
  PROVE  SumFunction(Append(s, n)) = SumFunction(s) + n
<1>1. Append(s, n) = s \o <<n>> /\ <<n>> \in Seq(Int)
  OBVIOUS
<1>2. QED
  BY <1>1, SeqSumConcat, SeqSumSingleton

\* RemoveAt takes one element out and keeps what is before it and after it.
LEMMA RemoveAtIs ==
  ASSUME NEW V, NEW s \in Seq(V), NEW i \in DOMAIN s
  PROVE  /\ SubSeq(s, 1, i - 1) \in Seq(V) /\ SubSeq(s, i + 1, Len(s)) \in Seq(V)
         /\ s = (SubSeq(s, 1, i - 1) \o <<s[i]>>) \o SubSeq(s, i + 1, Len(s))
         /\ RemoveAt(s, i) = SubSeq(s, 1, i - 1) \o SubSeq(s, i + 1, Len(s))
<1> DEFINE before == SubSeq(s, 1, i - 1)
           after == SubSeq(s, i + 1, Len(s))
           upto == before \o <<s[i]>>
           all == upto \o after
<1>1. i \in 1..Len(s) /\ Len(s) \in Nat /\ \A j \in 1..Len(s) : s[j] \in V
  OBVIOUS
<1>2. /\ before \in Seq(V) /\ Len(before) = i - 1
      /\ \A j \in 1..(i - 1) : before[j] = s[j]
  BY <1>1
<1>3. /\ after \in Seq(V) /\ Len(after) = Len(s) - i
      /\ \A j \in 1..(Len(s) - i) : after[j] = s[i + j]
  <2>1. \A j \in (i + 1)..Len(s) : s[j] \in V
    BY <1>1
  <2>2. /\ after \in Seq(V)
        /\ Len(after) = IF i + 1 <= Len(s) THEN Len(s) - (i + 1) + 1 ELSE 0
        /\ \A j \in 1..(Len(s) - (i + 1) + 1) : after[j] = s[(i + 1) + j - 1]
    BY <1>1, <2>1, SubSeqProperties
  <2> HIDE DEF after
  <2>3. ASSUME NEW j \in 1..(Len(s) - i) PROVE after[j] = s[i + j]
    <3>1. j \in 1..(Len(s) - (i + 1) + 1) /\ (i + 1) + j - 1 = i + j
      BY <1>1
    <3>2. QED
      BY <2>2, <3>1
  <2>4. QED
    BY <1>1, <2>2, <2>3
<1> HIDE DEF before, after
<1>4. /\ upto \in Seq(V) /\ Len(upto) = i
      /\ \A j \in 1..i : upto[j] = s[j]
  BY <1>1, <1>2
<1> HIDE DEF upto
<1>5. all \in Seq(V) /\ Len(all) = Len(s)
  BY <1>1, <1>3, <1>4
<1>6. ASSUME NEW j \in 1..Len(s) PROVE all[j] = s[j]
  <2>1. CASE j <= i
    BY <1>1, <1>3, <1>4, <2>1
  <2> HIDE DEF all
  <2>2. CASE j > i
    <3>1. j - i \in 1..(Len(s) - i) /\ i + (j - i) = j
      BY <1>1, <2>2
    <3>2. all[j] = after[j - i]
      BY <1>1, <1>3, <1>4, <2>2 DEF all
    <3>3. QED
      BY <1>3, <3>1, <3>2
  <2>3. QED
    BY <1>1, <2>1, <2>2
<1> HIDE DEF all
<1>7. s = all
  BY <1>5, <1>6
<1>8. RemoveAt(s, i) = before \o after
  BY DEF RemoveAt, before, after
<1>9. QED
  BY <1>2, <1>3, <1>7, <1>8 DEF all, upto, before, after

LEMMA SeqSumRemoveAt ==
  ASSUME NEW s \in Seq(Int), NEW i \in DOMAIN s
  PROVE  SumFunction(RemoveAt(s, i)) = SumFunction(s) - s[i]
<1> DEFINE before == SubSeq(s, 1, i - 1)
           after == SubSeq(s, i + 1, Len(s))
<1>1. /\ before \in Seq(Int) /\ after \in Seq(Int)
      /\ s = (before \o <<s[i]>>) \o after /\ RemoveAt(s, i) = before \o after
  BY RemoveAtIs
<1> HIDE DEF before, after
<1>2. s[i] \in Int /\ <<s[i]>> \in Seq(Int) /\ before \o <<s[i]>> \in Seq(Int)
  BY <1>1
<1>3. SumFunction(s) = SumFunction(before \o <<s[i]>>) + SumFunction(after)
  BY <1>1, <1>2, SeqSumConcat
<1>4. SumFunction(before \o <<s[i]>>) = SumFunction(before) + s[i]
  BY <1>1, <1>2, SeqSumConcat, SeqSumSingleton
<1>5. SumFunction(RemoveAt(s, i)) = SumFunction(before) + SumFunction(after)
  BY <1>1, SeqSumConcat
<1>6. SumFunction(before) \in Int /\ SumFunction(after) \in Int
  BY <1>1, SeqSumType
<1>7. QED
  BY <1>2, <1>3, <1>4, <1>5, <1>6
-------------------------------------------------------------------------------
(***************************************************************************)
(* Sums of a number F[x] of each element x of a sequence.                  *)
(***************************************************************************)
Mapped(s, F) == [i \in DOMAIN s |-> F[s[i]]]
SumMapped(s, F) == SumFunction(Mapped(s, F))

IsMapped(m, s, F) ==
  /\ m \in Seq(Int) /\ Len(m) = Len(s)
  /\ \A i \in 1..Len(s) : m[i] = F[s[i]]

LEMMA MappedIs ==
  ASSUME NEW V, NEW F \in [V -> Int], NEW s \in Seq(V)
  PROVE  IsMapped(Mapped(s, F), s, F)
<1>1. DOMAIN s = 1..Len(s) /\ Len(s) \in Nat /\ \A i \in 1..Len(s) : s[i] \in V
  OBVIOUS
<1>2. Mapped(s, F) = [i \in 1..Len(s) |-> F[s[i]]]
  BY <1>1 DEF Mapped
<1>3. Mapped(s, F) \in [1..Len(s) -> Int]
  BY <1>1, <1>2
<1>4. QED
  BY <1>1, <1>2, <1>3 DEF IsMapped

LEMMA SumMappedType ==
  ASSUME NEW V, NEW F \in [V -> Int], NEW s \in Seq(V)
  PROVE  SumMapped(s, F) \in Int
BY MappedIs, SeqSumType DEF SumMapped, IsMapped

LEMMA SumMappedEmpty == ASSUME NEW F PROVE SumMapped(<<>>, F) = 0
<1>1. Mapped(<<>>, F) = <<>>
  BY DEF Mapped
<1>2. QED
  BY <1>1, SeqSumEmpty DEF SumMapped

LEMMA SumMappedConcat ==
  ASSUME NEW V, NEW F \in [V -> Int], NEW a \in Seq(V), NEW b \in Seq(V)
  PROVE  SumMapped(a \o b, F) = SumMapped(a, F) + SumMapped(b, F)
<1> DEFINE ab == a \o b
           wa == Mapped(a, F)
           wb == Mapped(b, F)
           wab == Mapped(ab, F)
<1>1. /\ ab \in Seq(V) /\ Len(ab) = Len(a) + Len(b) /\ Len(a) \in Nat /\ Len(b) \in Nat
      /\ \A i \in 1..(Len(a) + Len(b)) : ab[i] = IF i <= Len(a) THEN a[i] ELSE b[i - Len(a)]
  BY ConcatProperties
<1> HIDE DEF ab
<1>2. wa \in Seq(Int) /\ Len(wa) = Len(a) /\ \A i \in 1..Len(a) : wa[i] = F[a[i]]
  <2>1. IsMapped(Mapped(a, F), a, F)
    BY MappedIs
  <2>2. QED
    BY <2>1 DEF IsMapped
<1>3. wb \in Seq(Int) /\ Len(wb) = Len(b) /\ \A i \in 1..Len(b) : wb[i] = F[b[i]]
  <2>1. IsMapped(Mapped(b, F), b, F)
    BY MappedIs
  <2>2. QED
    BY <2>1 DEF IsMapped
<1>4. wab \in Seq(Int) /\ Len(wab) = Len(ab) /\ \A i \in 1..Len(ab) : wab[i] = F[ab[i]]
  <2>1. IsMapped(Mapped(ab, F), ab, F)
    BY <1>1, MappedIs
  <2>2. QED
    BY <2>1 DEF IsMapped
<1> HIDE DEF wa, wb, wab
<1>5. /\ wa \o wb \in Seq(Int) /\ Len(wa \o wb) = Len(wa) + Len(wb)
      /\ \A i \in 1..Len(wa) + Len(wb) : (wa \o wb)[i] = IF i <= Len(wa) THEN wa[i] ELSE wb[i - Len(wa)]
  <2>1. wa \in Seq(Int) /\ wb \in Seq(Int)
    BY <1>2, <1>3
  <2>2. QED
    BY <2>1, ConcatProperties
<1>6. ASSUME NEW i \in 1..(Len(a) + Len(b)) PROVE wab[i] = (wa \o wb)[i]
  <2>1. i \in 1..Len(ab) /\ i \in 1..(Len(wa) + Len(wb)) /\ i \in Int
    BY <1>1, <1>2, <1>3
  <2>2. /\ wab[i] = F[ab[i]] /\ ab[i] = IF i <= Len(a) THEN a[i] ELSE b[i - Len(a)]
        /\ (wa \o wb)[i] = IF i <= Len(a) THEN wa[i] ELSE wb[i - Len(a)]
    <3>1. wab[i] = F[ab[i]]
      BY <1>4, <2>1
    <3>2. (wa \o wb)[i] = IF i <= Len(wa) THEN wa[i] ELSE wb[i - Len(wa)]
      BY <1>5, <2>1
    <3>3. QED
      BY <1>1, <1>2, <3>1, <3>2
  <2>3. CASE i <= Len(a)
    <3>1. i \in 1..Len(a)
      BY <1>1, <2>1, <2>3
    <3>2. wa[i] = F[a[i]]
      BY <1>2, <3>1
    <3>3. QED
      BY <2>2, <2>3, <3>2
  <2>4. CASE ~(i <= Len(a))
    <3>1. i - Len(a) \in 1..Len(b)
      BY <1>1, <2>1, <2>4
    <3>2. wb[i - Len(a)] = F[b[i - Len(a)]]
      BY <1>3, <3>1
    <3>3. QED
      BY <2>2, <2>4, <3>2
  <2>5. QED
    BY <2>3, <2>4
<1>7. Len(wab) = Len(wa \o wb) /\ Len(wab) = Len(a) + Len(b)
  BY <1>1, <1>2, <1>3, <1>4, <1>5
<1>8. \A i \in 1..Len(wab) : wab[i] = (wa \o wb)[i]
  BY <1>6, <1>7
<1>9. wab = wa \o wb
  BY <1>4, <1>5, <1>7, <1>8, SeqEqual
<1>10. SumFunction(wab) = SumFunction(wa) + SumFunction(wb)
  BY <1>2, <1>3, <1>9, SeqSumConcat
<1>11. QED
  BY <1>10 DEF SumMapped, ab, wa, wb, wab

LEMMA SumMappedAppend ==
  ASSUME NEW V, NEW F \in [V -> Int], NEW a \in Seq(V), NEW x \in V
  PROVE  SumMapped(Append(a, x), F) = SumMapped(a, F) + F[x]
<1> DEFINE one == <<x>>
<1>1. one \in Seq(V) /\ Append(a, x) = a \o one
  BY AppendIsConcat
<1>2. SumMapped(one, F) = F[x]
  <2>1. Mapped(one, F) = <<F[x]>>
    BY DEF Mapped
  <2>2. F[x] \in Int
    OBVIOUS
  <2>3. QED
    BY <2>1, <2>2, SeqSumSingleton DEF SumMapped
<1> HIDE DEF one
<1>3. SumMapped(a \o one, F) = SumMapped(a, F) + SumMapped(one, F)
  BY <1>1, SumMappedConcat
<1>4. QED
  BY <1>1, <1>2, <1>3

LEMMA SumMappedRemoveAt ==
  ASSUME NEW V, NEW F \in [V -> Int], NEW s \in Seq(V), NEW i \in DOMAIN s
  PROVE  SumMapped(RemoveAt(s, i), F) = SumMapped(s, F) - F[s[i]]
<1> DEFINE before == SubSeq(s, 1, i - 1)
           after == SubSeq(s, i + 1, Len(s))
           upto == Append(before, s[i])
<1>1. /\ before \in Seq(V) /\ after \in Seq(V) /\ s[i] \in V
      /\ s = (before \o <<s[i]>>) \o after /\ RemoveAt(s, i) = before \o after
  <2>1. s[i] \in V
    OBVIOUS
  <2>2. QED
    BY <2>1, RemoveAtIs
<1> HIDE DEF before, after
<1>2. upto \in Seq(V) /\ upto = before \o <<s[i]>>
  BY <1>1, AppendIsConcat
<1>3. s = upto \o after
  BY <1>1, <1>2
<1>4. SumMapped(upto, F) = SumMapped(before, F) + F[s[i]]
  BY <1>1, SumMappedAppend
<1> HIDE DEF upto
<1>5. SumMapped(upto \o after, F) = SumMapped(upto, F) + SumMapped(after, F)
  BY <1>1, <1>2, SumMappedConcat
<1>6. SumMapped(before \o after, F) = SumMapped(before, F) + SumMapped(after, F)
  BY <1>1, SumMappedConcat
<1>7. F[s[i]] \in Int /\ SumMapped(before, F) \in Int /\ SumMapped(after, F) \in Int
  BY <1>1, SumMappedType
<1>8. QED
  BY <1>1, <1>3, <1>4, <1>5, <1>6, <1>7
===============================================================================
