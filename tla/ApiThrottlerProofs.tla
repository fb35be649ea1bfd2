---------------------------- MODULE ApiThrottlerProofs ----------------------------
(***************************************************************************)
(* Proofs about ApiThrottler, for every number of bots, requesters and     *)
(* limits, every weight and every interval.                                *)
(***************************************************************************)
EXTENDS ApiThrottler, FiniteSums, TLAPS

\* What the logs of limit l that are no older than d take from it.
Weights(logs, l, d) ==
  [i \in DOMAIN logs |-> IF logs[i].limit = l /\ logs[i].age <= d THEN logs[i].weight ELSE 0]
Till(logs, l, d) == SumFunction(Weights(logs, l, d))

WeightWithin(l, d) ==
  [log \in TaskLog |-> IF log.limit = l /\ log.age <= d THEN log.weight ELSE 0]

\* What the requests on their way take from l, as far as their logs are no older than d.
TillOf(l, d) == [logs \in Seq(TaskLog) |-> Till(logs, l, d)]
Sent(requests, l, d) == SumMapped(requests, TillOf(l, d))

\* What the bots have logged under l, as far as it is no older than d.
LoggedBy(all, l, d) == [b \in Bot |-> Till(all[b], l, d)]
Logged(all, l, d) == SumFunction(LoggedBy(all, l, d))
-------------------------------------------------------------------------------
(***************************************************************************)
(* Sums over logs.                                                         *)
(***************************************************************************)
LEMMA TillType ==
  ASSUME NEW logs \in Seq(TaskLog), NEW l, NEW d \in Int
  PROVE  Weights(logs, l, d) \in Seq(Nat) /\ Weights(logs, l, d) \in Seq(Int) /\ Till(logs, l, d) \in Nat
<1>1. ASSUME NEW i \in DOMAIN logs PROVE logs[i].weight \in Nat
  <2>1. logs[i] \in TaskLog
    OBVIOUS
  <2>2. QED
    BY <2>1 DEF TaskLog
<1>2. Weights(logs, l, d) \in Seq(Nat)
  BY <1>1 DEF Weights
<1>3. QED
  BY <1>2, SeqSumType DEF Till

\* Logs that are a subset of others, log by log, weigh no more.
LEMMA TillCompared ==
  ASSUME NEW a \in Seq(TaskLog), NEW b \in Seq(TaskLog), Len(a) = Len(b),
         NEW l, NEW d \in Int, NEW e \in Int,
         \A i \in DOMAIN a : a[i].limit = l /\ a[i].age <= d
                               => b[i].limit = l /\ b[i].age <= e /\ b[i].weight = a[i].weight
  PROVE  Till(a, l, d) <= Till(b, l, e)
<1> DEFINE f == Weights(a, l, d)
           g == Weights(b, l, e)
           D == 1..Len(a)
<1>1. DOMAIN f = D /\ DOMAIN g = D /\ IsFiniteSet(D)
  BY FS_Interval DEF Weights
<1>2. \A i \in D : f[i] \in Int /\ g[i] \in Int
  BY TillType, <1>1
<1>3. ASSUME NEW i \in D PROVE f[i] <= g[i]
  <2>1. a[i] \in TaskLog /\ b[i] \in TaskLog /\ i \in DOMAIN a /\ i \in DOMAIN b
    OBVIOUS
  <2>2. a[i].weight \in Nat /\ b[i].weight \in Nat
    BY <2>1 DEF TaskLog
  <2>3. QED
    BY <2>1, <2>2 DEF Weights
<1> HIDE DEF f, g, D
<1>4. SumFunctionOnSet(f, D) <= SumFunctionOnSet(g, D)
  BY <1>1, <1>2, <1>3, SumMonotonic
<1>5. QED
  BY <1>1, <1>4 DEF Till, SumFunction, f, g

LEMMA TillEqual ==
  ASSUME NEW a \in Seq(TaskLog), NEW b \in Seq(TaskLog), Len(a) = Len(b),
         NEW l, NEW d \in Int, NEW e \in Int,
         \A i \in DOMAIN a : /\ b[i].limit = a[i].limit /\ b[i].weight = a[i].weight
                             /\ a[i].limit = l => (a[i].age <= d <=> b[i].age <= e)
  PROVE  Till(a, l, d) = Till(b, l, e)
<1>1. Till(a, l, d) <= Till(b, l, e)
  BY TillCompared
<1>2. \A i \in DOMAIN b : b[i].limit = l /\ b[i].age <= e
                            => a[i].limit = l /\ a[i].age <= d /\ a[i].weight = b[i].weight
  OBVIOUS
<1>3. Till(b, l, e) <= Till(a, l, d)
  BY <1>2, TillCompared
<1>4. QED
  BY <1>1, <1>3, TillType

LEMMA TillEmpty == ASSUME NEW l, NEW d \in Int PROVE Till(<<>>, l, d) = 0
<1>1. Weights(<<>>, l, d) = <<>>
  BY DEF Weights
<1>2. QED
  BY <1>1, SeqSumEmpty DEF Till

LEMMA TillMapped ==
  ASSUME NEW l, NEW d \in Int
  PROVE  /\ WeightWithin(l, d) \in [TaskLog -> Int]
         /\ \A logs \in Seq(TaskLog) : Till(logs, l, d) = SumMapped(logs, WeightWithin(l, d))
<1>1. WeightWithin(l, d) \in [TaskLog -> Int]
  BY DEF WeightWithin, TaskLog
<1>2. ASSUME NEW logs \in Seq(TaskLog) PROVE Till(logs, l, d) = SumMapped(logs, WeightWithin(l, d))
  <2>1. \A i \in DOMAIN logs : logs[i] \in TaskLog
    OBVIOUS
  <2>2. \A i \in DOMAIN logs : WeightWithin(l, d)[logs[i]]
                                 = IF logs[i].limit = l /\ logs[i].age <= d THEN logs[i].weight ELSE 0
    BY <2>1 DEF WeightWithin
  <2>3. Weights(logs, l, d) = Mapped(logs, WeightWithin(l, d))
    BY <2>2 DEF Weights, Mapped
  <2>4. QED
    BY <2>3 DEF Till, SumMapped
<1>3. QED
  BY <1>1, <1>2

LEMMA TillConcat ==
  ASSUME NEW a \in Seq(TaskLog), NEW b \in Seq(TaskLog), NEW l, NEW d \in Int
  PROVE  Till(a \o b, l, d) = Till(a, l, d) + Till(b, l, d)
<1>1. WeightWithin(l, d) \in [TaskLog -> Int]
  BY TillMapped
<1>2. SumMapped(a \o b, WeightWithin(l, d))
        = SumMapped(a, WeightWithin(l, d)) + SumMapped(b, WeightWithin(l, d))
  BY <1>1, SumMappedConcat
<1>3. a \o b \in Seq(TaskLog)
  OBVIOUS
<1>4. QED
  BY <1>2, <1>3, TillMapped

LEMMA TillAppend ==
  ASSUME NEW a \in Seq(TaskLog), NEW log \in TaskLog, NEW l, NEW d \in Int
  PROVE  Till(Append(a, log), l, d)
           = Till(a, l, d) + IF log.limit = l /\ log.age <= d THEN log.weight ELSE 0
<1>1. WeightWithin(l, d) \in [TaskLog -> Int]
  BY TillMapped
<1>2. SumMapped(Append(a, log), WeightWithin(l, d))
        = SumMapped(a, WeightWithin(l, d)) + WeightWithin(l, d)[log]
  BY <1>1, SumMappedAppend
<1>3. WeightWithin(l, d)[log] = IF log.limit = l /\ log.age <= d THEN log.weight ELSE 0
  BY DEF WeightWithin
<1>4. Append(a, log) \in Seq(TaskLog)
  OBVIOUS
<1>5. QED
  BY <1>2, <1>3, <1>4, TillMapped

\* Nothing is older than it is old: no log has a negative age.
LEMMA TillNegative ==
  ASSUME NEW a \in Seq(TaskLog), NEW l, NEW d \in Int, d < 0
  PROVE  Till(a, l, d) = 0
<1>1. DOMAIN Weights(a, l, d) = 1..Len(a) /\ IsFiniteSet(1..Len(a)) /\ DOMAIN a = 1..Len(a)
  BY FS_Interval DEF Weights
<1>2. ASSUME NEW i \in 1..Len(a) PROVE Weights(a, l, d)[i] = 0
  <2>1. a[i] \in TaskLog
    OBVIOUS
  <2>2. a[i].age \in Nat
    BY <2>1 DEF TaskLog
  <2>3. QED
    BY <1>1, <2>2 DEF Weights
<1>3. SumFunctionOnSet(Weights(a, l, d), 1..Len(a)) = 0
  BY <1>1, <1>2, SumZero
<1>4. QED
  BY <1>1, <1>3 DEF Till, SumFunction
-------------------------------------------------------------------------------
(***************************************************************************)
(* Logs that are dropped are too old to count, and nothing else is dropped.*)
(***************************************************************************)
Kept(logs, extra, kept) ==
  /\ kept \in Seq(TaskLog)
  /\ \A i \in 1..Len(kept) : Within(kept[i], extra)
  /\ \A l \in Limit : \A d \in Int :
       d <= Interval[l] + extra[l] => Till(kept, l, d) = Till(logs, l, d)

LEMMA KeptAppend ==
  ASSUME NEW extra \in [Limit -> Nat], NEW logs \in Seq(TaskLog), NEW log \in TaskLog,
         NEW kept, Kept(logs, extra, kept)
  PROVE  Kept(Append(logs, log), extra, IF Within(log, extra) THEN Append(kept, log) ELSE kept)
<1>1. kept \in Seq(TaskLog) /\ Append(kept, log) \in Seq(TaskLog)
  BY DEF Kept
<1>2. CASE Within(log, extra)
  <2>1. \A i \in 1..Len(Append(kept, log)) : Within(Append(kept, log)[i], extra)
    <3>1. SUFFICES ASSUME NEW i \in 1..Len(Append(kept, log)) PROVE Within(Append(kept, log)[i], extra)
      OBVIOUS
    <3>2. Append(kept, log)[i] = log \/ (i \in 1..Len(kept) /\ Append(kept, log)[i] = kept[i])
      BY <1>1, AppendProperties
    <3>3. QED
      BY <1>2, <3>2 DEF Kept
  <2>2. ASSUME NEW l \in Limit, NEW d \in Int, d <= Interval[l] + extra[l]
        PROVE  Till(Append(kept, log), l, d) = Till(Append(logs, log), l, d)
    <3>1. Till(kept, l, d) = Till(logs, l, d)
      BY <2>2 DEF Kept
    <3>2. QED
      BY <1>1, <3>1, TillAppend
  <2>3. QED
    BY <1>1, <1>2, <2>1, <2>2 DEF Kept
<1>3. CASE ~Within(log, extra)
  <2>1. ASSUME NEW l \in Limit, NEW d \in Int, d <= Interval[l] + extra[l]
        PROVE  Till(kept, l, d) = Till(Append(logs, log), l, d)
    <3>1. Till(kept, l, d) = Till(logs, l, d) /\ Till(logs, l, d) \in Int
      BY <2>1, TillType DEF Kept
    <3>2. ~(log.limit = l /\ log.age <= d)
      <4>1. log.age \in Nat /\ Interval[l] \in Nat /\ extra[l] \in Nat
        BY LimitAssumption DEF TaskLog
      <4>2. QED
        BY <1>3, <2>1, <4>1 DEF Within
    <3>3. QED
      BY <3>1, <3>2, TillAppend
  <2>2. QED
    BY <1>3, <2>1 DEF Kept
<1>4. QED
  BY <1>2, <1>3

\* The logs left, computed one by one.
KeptUpTo(kept, logs, extra) ==
  kept = [n \in 0..Len(logs) |->
            IF n = 0 THEN <<>>
            ELSE IF Within(logs[n], extra) THEN Append(kept[n - 1], logs[n]) ELSE kept[n - 1]]

LEMMA RecentIs ==
  ASSUME NEW extra \in [Limit -> Nat], NEW logs \in Seq(TaskLog)
  PROVE  Kept(logs, extra, Recent(logs, extra))
<1> DEFINE N == Len(logs)
           V == Seq(TaskLog)
           F == [p \in (1..N) \X V |-> IF Within(logs[p[1]], extra) THEN Append(p[2], logs[p[1]]) ELSE p[2]]
           first(n) == SubSeq(logs, 1, n)
<1>1. N \in Nat /\ <<>> \in V /\ \A n \in 1..N : logs[n] \in TaskLog
  OBVIOUS
<1>2. \E kept : KeptUpTo(kept, logs, extra)
  <2>1. \A n \in 1..N : \A v \in V :
          F[<<n, v>>] = (IF Within(logs[n], extra) THEN Append(v, logs[n]) ELSE v) /\ F[<<n, v>>] \in V
    BY <1>1
  <2> HIDE DEF F, N, V
  <2>2. \E g : IsRecursion(g, N, V, <<>>, F)
    BY <1>1, <2>1, RecursionExists
  <2>3. PICK g : IsRecursion(g, N, V, <<>>, F)
    BY <2>2
  <2>4. /\ g = [n \in 0..N |-> g[n]] /\ g[0] = <<>>
        /\ \A n \in 1..N : g[n] = F[<<n, g[n - 1]>>] /\ g[n - 1] \in V
    BY <1>1, <2>3 DEF IsRecursion
  <2>5. \A n \in 0..N : g[n] = IF n = 0 THEN <<>>
                               ELSE IF Within(logs[n], extra) THEN Append(g[n - 1], logs[n]) ELSE g[n - 1]
    <3>1. SUFFICES ASSUME NEW n \in 0..N, n # 0
                   PROVE  g[n] = IF Within(logs[n], extra) THEN Append(g[n - 1], logs[n]) ELSE g[n - 1]
      BY <2>4
    <3>2. n \in 1..N
      BY <1>1, <3>1
    <3>3. QED
      BY <2>1, <2>4, <3>2
  <2>6. g = [n \in 0..N |-> IF n = 0 THEN <<>>
                            ELSE IF Within(logs[n], extra) THEN Append(g[n - 1], logs[n]) ELSE g[n - 1]]
    BY <2>4, <2>5
  <2>7. QED
    BY <2>6 DEF KeptUpTo, N
<1> DEFINE kept == CHOOSE g : KeptUpTo(g, logs, extra)
<1>3. KeptUpTo(kept, logs, extra)
  BY <1>2
<1>4. Recent(logs, extra) = kept[N]
  BY DEF Recent, KeptUpTo
<1> HIDE DEF kept
<1> DEFINE good == {n \in 0..N : Kept(first(n), extra, kept[n])}
<1>5. 0 \in good
  <2>1. kept[0] = <<>> /\ first(0) = <<>>
    BY <1>1, <1>3 DEF KeptUpTo
  <2>2. Kept(<<>>, extra, <<>>)
    BY DEF Kept
  <2>3. 0 \in 0..N
    BY <1>1
  <2> HIDE DEF first, N
  <2>4. QED
    BY <2>1, <2>2, <2>3
<1>6. ASSUME NEW n \in 1..N, n - 1 \in good PROVE n \in good
  <2>1. first(n - 1) \in V /\ first(n) = Append(first(n - 1), logs[n])
    BY <1>1
  <2>2. kept[n] = IF Within(logs[n], extra) THEN Append(kept[n - 1], logs[n]) ELSE kept[n - 1]
    <3>1. n \in 0..Len(logs) /\ n # 0
      BY <1>1
    <3>2. kept[n] = IF n = 0 THEN <<>>
                    ELSE IF Within(logs[n], extra) THEN Append(kept[n - 1], logs[n]) ELSE kept[n - 1]
      BY <1>3, <3>1 DEF KeptUpTo
    <3>3. QED
      BY <3>1, <3>2
  <2>3. Kept(first(n - 1), extra, kept[n - 1]) /\ logs[n] \in TaskLog
    BY <1>1, <1>6
  <2> HIDE DEF first, N
  <2>4. Kept(first(n), extra, kept[n])
    BY <2>1, <2>2, <2>3, KeptAppend
  <2>5. QED
    BY <1>1, <2>4
<1> HIDE DEF good
<1>7. 0..N \subseteq good
  BY <1>1, <1>5, <1>6, UpTo
<1>8. Kept(first(N), extra, kept[N]) /\ first(N) = logs
  BY <1>1, <1>7 DEF good
<1>9. QED
  BY <1>4, <1>8

LEMMA AgedIs ==
  ASSUME NEW logs \in Seq(TaskLog)
  PROVE  /\ Aged(logs) \in Seq(TaskLog) /\ Len(Aged(logs)) = Len(logs)
         /\ \A i \in 1..Len(logs) :
              /\ Aged(logs)[i].limit = logs[i].limit /\ Aged(logs)[i].weight = logs[i].weight
              /\ Aged(logs)[i].age = IF Counts(logs[i]) THEN logs[i].age + 1 ELSE logs[i].age
<1>1. DOMAIN logs = 1..Len(logs) /\ Len(logs) \in Nat /\ \A i \in 1..Len(logs) : logs[i] \in TaskLog
  OBVIOUS
<1>2. ASSUME NEW log \in TaskLog
      PROVE  /\ [log EXCEPT !.age = @ + 1] \in TaskLog
             /\ [log EXCEPT !.age = @ + 1].limit = log.limit
             /\ [log EXCEPT !.age = @ + 1].weight = log.weight
             /\ [log EXCEPT !.age = @ + 1].age = log.age + 1
  BY DEF TaskLog
<1>3. \A i \in 1..Len(logs) : Aged(logs)[i] = IF Counts(logs[i]) THEN [logs[i] EXCEPT !.age = @ + 1] ELSE logs[i]
  BY <1>1 DEF Aged
<1>4. Aged(logs) \in Seq(TaskLog) /\ Len(Aged(logs)) = Len(logs)
  <2>1. \A i \in 1..Len(logs) :
          (IF Counts(logs[i]) THEN [logs[i] EXCEPT !.age = @ + 1] ELSE logs[i]) \in TaskLog
    BY <1>1, <1>2
  <2>2. Aged(logs) \in [1..Len(logs) -> TaskLog]
    BY <1>1, <2>1 DEF Aged
  <2>3. QED
    BY <1>1, <2>2
<1>5. QED
  <2>1. SUFFICES ASSUME NEW i \in 1..Len(logs)
                 PROVE  /\ Aged(logs)[i].limit = logs[i].limit /\ Aged(logs)[i].weight = logs[i].weight
                        /\ Aged(logs)[i].age = IF Counts(logs[i]) THEN logs[i].age + 1 ELSE logs[i].age
    BY <1>4
  <2>2. logs[i] \in TaskLog
    BY <1>1
  <2>3. QED
    BY <1>2, <1>3, <2>2

\* In the time that passes, logs that count within d have counted within d - 1.
LEMMA TillAged ==
  ASSUME NEW logs \in Seq(TaskLog), NEW l \in Limit, NEW d \in Int, d <= Interval[l] + Margin[l]
  PROVE  Till(Aged(logs), l, d) = Till(logs, l, d - 1)
<1>1. Interval[l] \in Nat /\ Margin[l] \in Nat
  BY LimitAssumption
<1>2. ASSUME NEW i \in DOMAIN Aged(logs)
      PROVE  /\ logs[i].limit = Aged(logs)[i].limit /\ logs[i].weight = Aged(logs)[i].weight
             /\ Aged(logs)[i].limit = l => (Aged(logs)[i].age <= d <=> logs[i].age <= d - 1)
  <2>1. i \in 1..Len(logs) /\ logs[i] \in TaskLog
    BY AgedIs
  <2>2. logs[i].age \in Nat
    BY <2>1 DEF TaskLog
  <2>3. /\ Aged(logs)[i].limit = logs[i].limit /\ Aged(logs)[i].weight = logs[i].weight
        /\ Aged(logs)[i].age = IF Counts(logs[i]) THEN logs[i].age + 1 ELSE logs[i].age
    BY <2>1, AgedIs
  <2>4. CASE Counts(logs[i])
    BY <2>2, <2>3, <2>4
  <2>5. CASE ~Counts(logs[i])
    BY <1>1, <2>2, <2>3, <2>5 DEF Counts, Within
  <2>6. QED
    BY <2>4, <2>5
<1>3. Aged(logs) \in Seq(TaskLog) /\ Len(Aged(logs)) = Len(logs) /\ d - 1 \in Int
  BY AgedIs
<1>4. QED
  BY <1>2, <1>3, TillEqual

\* A request's own logs: new, and one for each limit it needs.
LEMMA NewLogsIs ==
  ASSUME NEW q \in Limit
  PROVE  /\ NewLogs[q] \in Seq(TaskLog)
         /\ \A i \in 1..Len(NewLogs[q]) : NewLogs[q][i].age = 0
         /\ \A l \in Limit : \A d \in Int :
              /\ l \in Needed(q) => Till(NewLogs[q], l, d) <= Weight[q][l]
              /\ l \notin Needed(q) => Till(NewLogs[q], l, d) = 0
<1> DEFINE S == Needed(q)
           N == Cardinality(S)
           needed == SetToSeq(S)
           logs == NewLogs[q]
<1>1. IsFiniteSet(S) /\ S \subseteq Limit
  BY LimitAssumption, FS_Subset DEF Needed
<1>2. N \in Nat /\ needed \in [1..N -> S] /\ \A i, j \in 1..N : needed[i] = needed[j] => i = j
  <2>1. N \in Nat /\ ExistsBijection(1..N, S)
    BY <1>1, FS_CardinalityType
  <2>2. PICK f : f \in [1..N -> S] /\ IsInjective(f)
    BY <2>1 DEF ExistsBijection, Bijection, Injection
  <2>3. needed \in [1..N -> S] /\ IsInjective(needed)
    BY <2>2 DEF SetToSeq
  <2>4. QED
    BY <2>1, <2>3 DEF IsInjective
<1>3. logs = [i \in DOMAIN needed |-> [limit |-> needed[i], weight |-> Weight[q][needed[i]], age |-> 0]]
  BY DEF NewLogs
<1> HIDE DEF needed, N, S, logs
<1>4. /\ DOMAIN logs = 1..N
      /\ \A i \in 1..N : logs[i] = [limit |-> needed[i], weight |-> Weight[q][needed[i]], age |-> 0]
  BY <1>2, <1>3
<1>5. \A i \in 1..N : logs[i] \in TaskLog
  <2>1. SUFFICES ASSUME NEW i \in 1..N PROVE logs[i] \in TaskLog
    OBVIOUS
  <2>2. needed[i] \in Limit
    BY <1>1, <1>2
  <2>3. Weight[q][needed[i]] \in Nat
    BY <2>2, LimitAssumption
  <2>4. QED
    BY <1>4, <2>2, <2>3 DEF TaskLog
<1>6. logs \in Seq(TaskLog) /\ Len(logs) = N
  <2>1. logs \in [1..N -> TaskLog]
    BY <1>3, <1>4, <1>5
  <2>2. QED
    BY <1>2, <2>1
<1>7. ASSUME NEW l \in Limit, NEW d \in Int
      PROVE  /\ l \in S => Till(logs, l, d) <= Weight[q][l]
             /\ l \notin S => Till(logs, l, d) = 0
  <2> DEFINE w == Weights(logs, l, d)
  <2>1. /\ DOMAIN w = 1..N /\ IsFiniteSet(1..N)
        /\ \A i \in 1..N : w[i] = IF needed[i] = l /\ 0 <= d THEN Weight[q][l] ELSE 0
    <3>1. DOMAIN w = 1..N /\ IsFiniteSet(1..N)
      BY <1>2, <1>4, FS_Interval DEF Weights
    <3>2. ASSUME NEW i \in 1..N PROVE w[i] = IF needed[i] = l /\ 0 <= d THEN Weight[q][l] ELSE 0
      <4>1. w[i] = IF logs[i].limit = l /\ logs[i].age <= d THEN logs[i].weight ELSE 0
        BY <1>4 DEF Weights
      <4>2. logs[i].limit = needed[i] /\ logs[i].age = 0 /\ logs[i].weight = Weight[q][needed[i]]
        BY <1>4
      <4>3. QED
        BY <4>1, <4>2
    <3>3. QED
      BY <3>1, <3>2
  <2>2. Weight[q][l] \in Nat
    BY LimitAssumption
  <2>3. Till(logs, l, d) = SumFunctionOnSet(w, 1..N)
    BY <2>1 DEF Till, SumFunction
  <2> HIDE DEF w
  <2>4. \A i \in 1..N : w[i] \in Int
    BY <2>1, <2>2
  <2>5. CASE \E i \in 1..N : needed[i] = l
    <3>1. PICK i \in 1..N : needed[i] = l
      BY <2>5
    <3>2. \A j \in (1..N) \ {i} : w[j] = 0
      BY <1>2, <2>1, <3>1
    <3>3. IsFiniteSet((1..N) \ {i})
      BY <2>1, FS_RemoveElement
    <3>4. SumFunctionOnSet(w, (1..N) \ {i}) = 0
      BY <3>2, <3>3, SumZero
    <3>5. SumFunctionOnSet(w, 1..N) = w[i] + SumFunctionOnSet(w, (1..N) \ {i})
      BY <2>1, <2>4, SumTakeOut
    <3>6. w[i] = IF 0 <= d THEN Weight[q][l] ELSE 0
      BY <2>1, <3>1
    <3>7. l \in S
      BY <1>2, <3>1
    <3>8. QED
      BY <2>2, <2>3, <3>4, <3>5, <3>6, <3>7
  <2>6. CASE ~\E i \in 1..N : needed[i] = l
    <3>1. \A i \in 1..N : w[i] = 0
      BY <2>1, <2>6
    <3>2. SumFunctionOnSet(w, 1..N) = 0
      BY <2>1, <3>1, SumZero
    <3>3. QED
      BY <2>2, <2>3, <3>2
  <2>7. QED
    BY <2>5, <2>6
<1>8. \A i \in 1..Len(logs) : logs[i].age = 0
  BY <1>4, <1>6
<1>9. QED
  BY <1>6, <1>7, <1>8 DEF logs, S
-------------------------------------------------------------------------------
(***************************************************************************)
(* The requests on their way, and what all bots have logged.               *)
(***************************************************************************)
LEMMA TillOfType ==
  ASSUME NEW l, NEW d \in Int
  PROVE  TillOf(l, d) \in [Seq(TaskLog) -> Int]
BY TillType DEF TillOf

LEMMA SentType ==
  ASSUME NEW l, NEW d \in Int, NEW requests \in Seq(Seq(TaskLog))
  PROVE  Sent(requests, l, d) \in Int
BY TillOfType, SumMappedType DEF Sent

LEMMA SentAppend ==
  ASSUME NEW l, NEW d \in Int, NEW requests \in Seq(Seq(TaskLog)), NEW logs \in Seq(TaskLog)
  PROVE  Sent(Append(requests, logs), l, d) = Sent(requests, l, d) + Till(logs, l, d)
<1>1. TillOf(l, d)[logs] = Till(logs, l, d)
  BY DEF TillOf
<1>2. QED
  BY <1>1, TillOfType, SumMappedAppend DEF Sent

LEMMA SentRemoveAt ==
  ASSUME NEW l, NEW d \in Int, NEW requests \in Seq(Seq(TaskLog)), NEW i \in DOMAIN requests
  PROVE  Sent(RemoveAt(requests, i), l, d) = Sent(requests, l, d) - Till(requests[i], l, d)
<1>1. requests[i] \in Seq(TaskLog)
  OBVIOUS
<1>2. TillOf(l, d)[requests[i]] = Till(requests[i], l, d)
  BY <1>1 DEF TillOf
<1>3. QED
  BY <1>2, TillOfType, SumMappedRemoveAt DEF Sent

AllAged(requests) == [i \in DOMAIN requests |-> Aged(requests[i])]

LEMMA SentAged ==
  ASSUME NEW l \in Limit, NEW d \in Int, d <= Interval[l] + Margin[l],
         NEW requests \in Seq(Seq(TaskLog))
  PROVE  /\ AllAged(requests) \in Seq(Seq(TaskLog))
         /\ Sent(AllAged(requests), l, d) = Sent(requests, l, d - 1)
<1>1. /\ DOMAIN requests = 1..Len(requests) /\ Len(requests) \in Nat
      /\ \A i \in DOMAIN requests : requests[i] \in Seq(TaskLog) /\ Aged(requests[i]) \in Seq(TaskLog)
  BY AgedIs
<1>2. AllAged(requests) \in Seq(Seq(TaskLog)) /\ DOMAIN AllAged(requests) = DOMAIN requests
  <2>1. AllAged(requests) \in [1..Len(requests) -> Seq(TaskLog)]
    BY <1>1 DEF AllAged
  <2>2. Len(requests) \in Nat /\ DOMAIN requests = 1..Len(requests)
    BY <1>1
  <2>3. DOMAIN AllAged(requests) = DOMAIN requests
    BY DEF AllAged
  <2> DEFINE V == Seq(TaskLog)
             n == Len(requests)
             aged == AllAged(requests)
  <2> HIDE DEF V, n, aged
  <2>4. aged \in [1..n -> V] /\ n \in Nat
    BY <2>1, <2>2 DEF V, n, aged
  <2>5. aged \in Seq(V)
    BY <2>4
  <2>6. QED
    BY <2>3, <2>5 DEF V, aged
<1>3. ASSUME NEW i \in DOMAIN requests
      PROVE  TillOf(l, d)[AllAged(requests)[i]] = TillOf(l, d - 1)[requests[i]]
  <2>1. AllAged(requests)[i] = Aged(requests[i])
    BY DEF AllAged
  <2>2. TillOf(l, d)[Aged(requests[i])] = Till(Aged(requests[i]), l, d)
    BY <1>1 DEF TillOf
  <2>3. TillOf(l, d - 1)[requests[i]] = Till(requests[i], l, d - 1)
    BY <1>1 DEF TillOf
  <2>4. Till(Aged(requests[i]), l, d) = Till(requests[i], l, d - 1)
    BY <1>1, TillAged
  <2>5. QED
    BY <2>1, <2>2, <2>3, <2>4
<1>4. Mapped(AllAged(requests), TillOf(l, d)) = Mapped(requests, TillOf(l, d - 1))
  BY <1>2, <1>3 DEF Mapped
<1>5. QED
  BY <1>2, <1>4 DEF Sent, SumMapped

LEMMA LoggedIs ==
  ASSUME NEW l, NEW d \in Int, NEW all \in [Bot -> Seq(TaskLog)]
  PROVE  /\ \A b \in Bot : LoggedBy(all, l, d)[b] = Till(all[b], l, d) /\ Till(all[b], l, d) \in Nat
         /\ Logged(all, l, d) = SumFunctionOnSet(LoggedBy(all, l, d), Bot)
         /\ Logged(all, l, d) \in Nat
<1>1. \A b \in Bot : LoggedBy(all, l, d)[b] = Till(all[b], l, d) /\ Till(all[b], l, d) \in Nat
  BY TillType DEF LoggedBy
<1>2. Logged(all, l, d) = SumFunctionOnSet(LoggedBy(all, l, d), Bot)
  BY DEF Logged, LoggedBy, SumFunction
<1>3. IsFiniteSet(Bot) /\ \A b \in Bot : LoggedBy(all, l, d)[b] \in Nat
  BY <1>1, LimitAssumption
<1>4. SumFunctionOnSet(LoggedBy(all, l, d), Bot) \in Nat
  BY <1>3, SumNonnegative
<1>5. QED
  BY <1>1, <1>2, <1>4

\* One bot's logs change, and what all have logged by as much.
LEMMA LoggedChanged ==
  ASSUME NEW l, NEW d \in Int, NEW all \in [Bot -> Seq(TaskLog)],
         NEW b \in Bot, NEW logs \in Seq(TaskLog)
  PROVE  Logged([all EXCEPT ![b] = logs], l, d)
           = Logged(all, l, d) - Till(all[b], l, d) + Till(logs, l, d)
<1> DEFINE new == [all EXCEPT ![b] = logs]
           f == LoggedBy(all, l, d)
           g == LoggedBy(new, l, d)
<1>1. /\ new \in [Bot -> Seq(TaskLog)] /\ new[b] = logs
      /\ \A c \in Bot \ {b} : new[c] = all[c]
  OBVIOUS
<1> HIDE DEF new
<1>2. /\ \A c \in Bot : f[c] = Till(all[c], l, d) /\ f[c] \in Int
      /\ Logged(all, l, d) = SumFunctionOnSet(f, Bot)
  <2>1. /\ \A c \in Bot : LoggedBy(all, l, d)[c] = Till(all[c], l, d) /\ Till(all[c], l, d) \in Nat
        /\ Logged(all, l, d) = SumFunctionOnSet(LoggedBy(all, l, d), Bot)
    BY LoggedIs
  <2>2. QED
    BY <2>1
<1>3. /\ \A c \in Bot : g[c] = Till(new[c], l, d) /\ g[c] \in Int
      /\ Logged(new, l, d) = SumFunctionOnSet(g, Bot)
  BY <1>1, LoggedIs
<1> HIDE DEF f, g
<1>4. \A c \in Bot \ {b} : g[c] = f[c]
  BY <1>1, <1>2, <1>3
<1>5. SumFunctionOnSet(g, Bot) = SumFunctionOnSet(f, Bot) - f[b] + g[b]
  <2>1. IsFiniteSet(Bot) /\ g[b] \in Int /\ \A c \in Bot : f[c] \in Int
    BY <1>2, <1>3, LimitAssumption
  <2>2. QED
    BY <1>4, <2>1, SumChanged
<1>6. QED
  BY <1>1, <1>2, <1>3, <1>5 DEF new

LEMMA LoggedAged ==
  ASSUME NEW l \in Limit, NEW d \in Int, d <= Interval[l] + Margin[l],
         NEW all \in [Bot -> Seq(TaskLog)]
  PROVE  Logged([b \in Bot |-> Aged(all[b])], l, d) = Logged(all, l, d - 1)
<1> DEFINE new == [b \in Bot |-> Aged(all[b])]
           f == LoggedBy(all, l, d - 1)
           g == LoggedBy(new, l, d)
<1>1. new \in [Bot -> Seq(TaskLog)] /\ \A b \in Bot : new[b] = Aged(all[b])
  BY AgedIs
<1> HIDE DEF new
<1>2. /\ \A b \in Bot : f[b] = Till(all[b], l, d - 1) /\ f[b] \in Int
      /\ Logged(all, l, d - 1) = SumFunctionOnSet(f, Bot)
  BY LoggedIs
<1>3. /\ \A b \in Bot : g[b] = Till(new[b], l, d)
      /\ Logged(new, l, d) = SumFunctionOnSet(g, Bot)
  BY <1>1, LoggedIs
<1> HIDE DEF f, g
<1>4. \A b \in Bot : g[b] = f[b]
  BY <1>1, <1>2, <1>3, TillAged
<1>5. SumFunctionOnSet(g, Bot) = SumFunctionOnSet(f, Bot)
  BY <1>2, <1>4, SumExtensional, LimitAssumption
<1>6. QED
  BY <1>2, <1>3, <1>5 DEF new
-------------------------------------------------------------------------------
(***************************************************************************)
(* The inductive invariant.  Whatever the age k up to which one counts,    *)
(* what has arrived within k and what is on its way was logged by the bots *)
(* within k + Delay, and within the margin a bot logs no more than its     *)
(* share.                                                                  *)
(***************************************************************************)
OnTime(requests) ==
  \A i \in DOMAIN requests : \A j \in DOMAIN requests[i] : requests[i][j].age <= Delay
StillCounted(logs) == \A i \in 1..Len(logs) : Within(logs[i], NoExtra)
Covered(received, requests, all) ==
  \A l \in Limit : \A k \in Int :
    k <= Interval[l] =>
      Till(received, l, k) + Sent(requests, l, k + Delay) <= Logged(all, l, k + Delay)
Capped(all) ==
  \A b \in Bot : \A l \in Limit : Till(all[b], l, Interval[l] + Margin[l]) <= LimitFor(b, l)

Inv ==
  /\ TypeOK /\ OnTime(travelling) /\ StillCounted(arrived)
  /\ Covered(arrived, travelling, taskLogs) /\ Capped(taskLogs)

LEMMA Typed ==
  /\ IsFiniteSet(Bot) /\ IsFiniteSet(Limit) /\ Delay \in Nat /\ Retry \in Nat
  /\ NoExtra \in [Limit -> Nat] /\ Margin \in [Limit -> Nat]
  /\ \A l \in Limit : /\ Interval[l] \in Nat /\ Margin[l] \in Nat /\ NoExtra[l] = 0
                      /\ Delay <= Margin[l] /\ Configured[l] \in Nat
  /\ \A l, m \in Limit : Weight[l][m] \in Nat
  /\ \A r \in Requester : LimitOf[r] \in Limit /\ BotOf[r] \in Bot
  /\ \A b \in Bot : Share[b] \in 1..100
BY LimitAssumption, RetryAssumption, DelayAssumption DEF NoExtra

LEMMA CapacityUsedIs ==
  ASSUME NEW logs \in Seq(TaskLog), NEW l \in Limit
  PROVE  CapacityUsed(logs, l) = Till(logs, l, Interval[l] + Margin[l])
<1>1. \A i \in DOMAIN logs :
        (IF logs[i].limit = l /\ Counts(logs[i]) THEN logs[i].weight ELSE 0)
          = (IF logs[i].limit = l /\ logs[i].age <= Interval[l] + Margin[l] THEN logs[i].weight ELSE 0)
  BY DEF Counts, Within
<1>2. [i \in DOMAIN logs |-> IF logs[i].limit = l /\ Counts(logs[i]) THEN logs[i].weight ELSE 0]
        = Weights(logs, l, Interval[l] + Margin[l])
  BY <1>1 DEF Weights
<1>3. QED
  BY <1>2 DEF CapacityUsed, Till

LEMMA LimitForType ==
  ASSUME NEW b \in Bot, NEW l \in Limit
  PROVE  LimitFor(b, l) \in Nat
<1>1. Configured[l] * Share[b] \in Nat
  <2>1. Configured[l] \in Nat /\ Share[b] \in Nat
    BY Typed
  <2>2. QED
    BY <2>1
<1>2. (Configured[l] * Share[b]) \div 100 \in Nat
  BY <1>1
<1>3. QED
  BY <1>2 DEF LimitFor

LEMMA InvInit == Init => Inv
<1> SUFFICES ASSUME Init PROVE Inv
  OBVIOUS
<1>1. taskLogs = [b \in Bot |-> <<>>] /\ travelling = <<>> /\ arrived = <<>>
  BY DEF Init
<1>2. TypeOK
  BY <1>1, Typed DEF Init, TypeOK, Idle
<1>3. ASSUME NEW l \in Limit, NEW k \in Int
      PROVE  Till(<<>>, l, k) + Sent(<<>>, l, k + Delay) <= Logged(taskLogs, l, k + Delay)
  <2>1. Till(<<>>, l, k) = 0 /\ Sent(<<>>, l, k + Delay) = 0 /\ k + Delay \in Int
    BY TillEmpty, SumMappedEmpty, Typed DEF Sent
  <2>2. taskLogs \in [Bot -> Seq(TaskLog)]
    BY <1>2 DEF TypeOK
  <2>3. Logged(taskLogs, l, k + Delay) \in Nat
    BY <2>1, <2>2, LoggedIs
  <2>4. QED
    BY <2>1, <2>3
<1>4. ASSUME NEW b \in Bot, NEW l \in Limit
      PROVE  Till(taskLogs[b], l, Interval[l] + Margin[l]) <= LimitFor(b, l)
  <2>1. taskLogs[b] = <<>> /\ Interval[l] + Margin[l] \in Int
    BY <1>1, Typed
  <2>2. QED
    BY <2>1, TillEmpty, LimitForType
<1>5. QED
  BY <1>1, <1>2, <1>3, <1>4 DEF Inv, OnTime, StillCounted, Covered, Capped

LEMMA InvTimePasses == Inv /\ TimePasses => Inv'
<1> SUFFICES ASSUME Inv, TimePasses PROVE Inv'
  OBVIOUS
<1>1. PICK all, requests, received :
        /\ all = taskLogs /\ requests = travelling /\ received = arrived
  OBVIOUS
<1>2. /\ all \in [Bot -> Seq(TaskLog)] /\ requests \in Seq(Seq(TaskLog)) /\ received \in Seq(TaskLog)
      /\ OnTime(requests) /\ Covered(received, requests, all) /\ Capped(all)
  BY <1>1 DEF Inv, TypeOK
<1> DEFINE all2 == [b \in Bot |-> Aged(all[b])]
           requests2 == AllAged(requests)
           received2 == Recent(Aged(received), NoExtra)
<1>3. taskLogs' = all2 /\ travelling' = requests2 /\ arrived' = received2
  BY <1>1 DEF TimePasses, AllAged
<1>4. /\ all2 \in [Bot -> Seq(TaskLog)] /\ \A b \in Bot : all2[b] = Aged(all[b])
      /\ requests2 \in Seq(Seq(TaskLog))
  <2>1. \A b \in Bot : Aged(all[b]) \in Seq(TaskLog)
    BY <1>2, AgedIs
  <2>2. \A i \in DOMAIN requests : Aged(requests[i]) \in Seq(TaskLog)
    BY <1>2, AgedIs
  <2>3. requests2 \in Seq(Seq(TaskLog))
    <3>1. DOMAIN requests = 1..Len(requests) /\ Len(requests) \in Nat
      BY <1>2
    <3> DEFINE V == Seq(TaskLog)
    <3> HIDE DEF V
    <3>2. requests2 \in [1..Len(requests) -> V]
      BY <2>2, <3>1 DEF V, AllAged
    <3> HIDE DEF requests2
    <3>3. requests2 \in Seq(V)
      BY <3>1, <3>2
    <3>4. QED
      BY <3>3 DEF V
  <2>4. QED
    BY <2>1, <2>3
<1>5. Aged(received) \in Seq(TaskLog) /\ Kept(Aged(received), NoExtra, received2)
  BY <1>2, AgedIs, RecentIs, Typed
<1>6. TypeOK'
  <2>1. sleep' \in [Requester -> Idle..Retry]
    <3>1. sleep \in [Requester -> Idle..Retry]
      BY DEF Inv, TypeOK
    <3>2. \A r \in Requester : Slept(sleep[r]) \in Idle..Retry
      BY <3>1, Typed DEF Slept, Idle
    <3>3. QED
      BY <3>1, <3>2 DEF TimePasses
  <2>2. received2 \in Seq(TaskLog)
    BY <1>5 DEF Kept
  <2> HIDE DEF all2, requests2, received2
  <2>3. QED
    BY <1>3, <1>4, <2>1, <2>2 DEF TypeOK
<1>7. OnTime(requests2)
  <2>1. SUFFICES ASSUME NEW i \in DOMAIN requests2, NEW j \in DOMAIN requests2[i]
                 PROVE  requests2[i][j].age <= Delay
    BY DEF OnTime
  <2>2. i \in DOMAIN requests /\ requests2[i] = Aged(requests[i]) /\ requests[i] \in Seq(TaskLog)
    BY <1>2, <1>4 DEF AllAged
  <2>3. DOMAIN Aged(requests[i]) = DOMAIN requests[i] /\ j \in 1..Len(requests[i]) /\ j \in DOMAIN requests[i]
    BY <2>1, <2>2, AgedIs
  <2>4. requests[i][j].age < Delay
    BY <1>1, <2>2, <2>3 DEF TimePasses
  <2>5. requests[i][j].age \in Nat
    <3>1. requests[i][j] \in TaskLog
      BY <2>2, <2>3
    <3>2. QED
      BY <3>1 DEF TaskLog
  <2>6. requests2[i][j].age = IF Counts(requests[i][j]) THEN requests[i][j].age + 1 ELSE requests[i][j].age
    BY <2>2, <2>3, AgedIs
  <2>7. QED
    BY <2>4, <2>5, <2>6, Typed
<1>8. StillCounted(received2)
  BY <1>5 DEF Kept, StillCounted
<1>9. Covered(received2, requests2, all2)
  <2>1. SUFFICES ASSUME NEW l \in Limit, NEW k \in Int, k <= Interval[l]
                 PROVE  Till(received2, l, k) + Sent(requests2, l, k + Delay) <= Logged(all2, l, k + Delay)
    BY DEF Covered
  <2>2. /\ k - 1 \in Int /\ k + Delay \in Int /\ (k + Delay) - 1 = (k - 1) + Delay
        /\ k <= Interval[l] + NoExtra[l] /\ k <= Interval[l] + Margin[l] /\ k - 1 <= Interval[l]
        /\ k + Delay <= Interval[l] + Margin[l]
    BY <2>1, Typed
  <2>3. Till(received2, l, k) = Till(Aged(received), l, k)
    BY <1>5, <2>2 DEF Kept
  <2>4. Till(Aged(received), l, k) = Till(received, l, k - 1)
    BY <1>2, <2>2, TillAged
  <2>5. Sent(requests2, l, k + Delay) = Sent(requests, l, (k + Delay) - 1)
    BY <1>2, <2>2, SentAged
  <2>6. Logged(all2, l, k + Delay) = Logged(all, l, (k + Delay) - 1)
    BY <1>2, <2>2, LoggedAged
  <2>7. Till(received, l, k - 1) + Sent(requests, l, (k - 1) + Delay) <= Logged(all, l, (k - 1) + Delay)
    BY <1>2, <2>2 DEF Covered
  <2>8. QED
    BY <2>2, <2>3, <2>4, <2>5, <2>6, <2>7
<1>10. Capped(all2)
  <2>1. SUFFICES ASSUME NEW b \in Bot, NEW l \in Limit
                 PROVE  Till(all2[b], l, Interval[l] + Margin[l]) <= LimitFor(b, l)
    BY DEF Capped
  <2> DEFINE d == Interval[l] + Margin[l]
  <2>2. d \in Int /\ d - 1 \in Int /\ d <= Interval[l] + Margin[l] /\ d - 1 <= d
    BY Typed
  <2>3. all[b] \in Seq(TaskLog)
    BY <1>2
  <2>4. Till(Aged(all[b]), l, d) = Till(all[b], l, d - 1)
    BY <2>2, <2>3, TillAged
  <2>5. Till(all[b], l, d) <= LimitFor(b, l)
    BY <1>2 DEF Capped
  <2> HIDE DEF d
  <2>6. Till(all[b], l, d - 1) <= Till(all[b], l, d)
    <3>1. \A i \in DOMAIN all[b] : all[b][i].limit = l /\ all[b][i].age <= d - 1
            => all[b][i].limit = l /\ all[b][i].age <= d /\ all[b][i].weight = all[b][i].weight
      <4>1. \A i \in DOMAIN all[b] : all[b][i] \in TaskLog
        BY <2>3
      <4>2. \A i \in DOMAIN all[b] : all[b][i].age \in Nat
        BY <4>1 DEF TaskLog
      <4>3. QED
        BY <2>2, <4>2
    <3>2. QED
      BY <2>2, <2>3, <3>1, TillCompared
  <2>7. Till(all[b], l, d - 1) \in Int /\ Till(all[b], l, d) \in Int /\ LimitFor(b, l) \in Int
    BY <2>2, <2>3, TillType, LimitForType
  <2>8. QED
    BY <1>4, <2>4, <2>5, <2>6, <2>7 DEF d
<1> HIDE DEF all2, requests2, received2
<1>11. QED
  BY <1>3, <1>6, <1>7, <1>8, <1>9, <1>10 DEF Inv

\* What the exchange logs of a request when it arrives.
Fresh(logs) == [j \in DOMAIN logs |-> [logs[j] EXCEPT !.age = 0]]

LEMMA FreshIs ==
  ASSUME NEW logs \in Seq(TaskLog)
  PROVE  /\ Fresh(logs) \in Seq(TaskLog) /\ Len(Fresh(logs)) = Len(logs)
         /\ \A j \in 1..Len(logs) : /\ Fresh(logs)[j].limit = logs[j].limit
                                    /\ Fresh(logs)[j].weight = logs[j].weight
                                    /\ Fresh(logs)[j].age = 0
<1>1. DOMAIN logs = 1..Len(logs) /\ Len(logs) \in Nat /\ \A j \in 1..Len(logs) : logs[j] \in TaskLog
  OBVIOUS
<1>2. ASSUME NEW log \in TaskLog
      PROVE  /\ [log EXCEPT !.age = 0] \in TaskLog /\ [log EXCEPT !.age = 0].limit = log.limit
             /\ [log EXCEPT !.age = 0].weight = log.weight /\ [log EXCEPT !.age = 0].age = 0
  BY DEF TaskLog
<1>3. Fresh(logs) \in [1..Len(logs) -> TaskLog]
  BY <1>1, <1>2 DEF Fresh
<1>4. Fresh(logs) \in Seq(TaskLog) /\ Len(Fresh(logs)) = Len(logs)
  BY <1>1, <1>3
<1>5. ASSUME NEW j \in 1..Len(logs)
      PROVE  /\ Fresh(logs)[j].limit = logs[j].limit /\ Fresh(logs)[j].weight = logs[j].weight
             /\ Fresh(logs)[j].age = 0
  BY <1>1, <1>2 DEF Fresh
<1>6. QED
  BY <1>4, <1>5

LEMMA InvArrive == Inv /\ Arrive => Inv'
<1> SUFFICES ASSUME Inv, Arrive PROVE Inv'
  OBVIOUS
<1>1. PICK all, requests, received :
        /\ all = taskLogs /\ requests = travelling /\ received = arrived
  OBVIOUS
<1>2. /\ all \in [Bot -> Seq(TaskLog)] /\ requests \in Seq(Seq(TaskLog)) /\ received \in Seq(TaskLog)
      /\ OnTime(requests) /\ StillCounted(received)
      /\ Covered(received, requests, all) /\ Capped(all)
  BY <1>1 DEF Inv, TypeOK
<1>3. PICK i \in DOMAIN requests :
        /\ arrived' = received \o Fresh(requests[i]) /\ travelling' = RemoveAt(requests, i)
        /\ UNCHANGED <<taskLogs, sleep>>
  BY <1>1 DEF Arrive, Fresh
<1> DEFINE logs == requests[i]
           fresh == Fresh(logs)
           requests2 == RemoveAt(requests, i)
           received2 == received \o fresh
<1>4. /\ logs \in Seq(TaskLog) /\ fresh \in Seq(TaskLog) /\ Len(fresh) = Len(logs)
      /\ \A j \in 1..Len(logs) : /\ fresh[j].limit = logs[j].limit /\ fresh[j].weight = logs[j].weight
                                 /\ fresh[j].age = 0
  <2>1. requests[i] \in Seq(TaskLog)
    BY <1>2
  <2>2. QED
    BY <2>1, FreshIs
<1>5. received2 \in Seq(TaskLog)
  BY <1>2, <1>4
<1>6. requests2 \in Seq(Seq(TaskLog)) /\ \A j \in DOMAIN requests2 : \E h \in DOMAIN requests : requests2[j] = requests[h]
  <2> DEFINE V == Seq(TaskLog)
             before == SubSeq(requests, 1, i - 1)
             after == SubSeq(requests, i + 1, Len(requests))
  <2> HIDE DEF V
  <2>1. requests \in Seq(V)
    BY <1>2 DEF V
  <2>2. before \in Seq(V) /\ after \in Seq(V) /\ requests2 = before \o after
    BY <2>1, RemoveAtIs
  <2>3. \A j \in 1..Len(before) : j \in DOMAIN requests /\ before[j] = requests[j]
    BY <2>1
  <2>4. \A j \in 1..Len(after) : i + j \in DOMAIN requests /\ after[j] = requests[i + j]
    <3>1. i \in 1..Len(requests) /\ Len(requests) \in Nat /\ DOMAIN requests = 1..Len(requests)
      BY <2>1
    <3>2. Len(after) = Len(requests) - i
      BY <2>1, <3>1
    <3>3. SUFFICES ASSUME NEW j \in 1..Len(after)
                   PROVE  i + j \in DOMAIN requests /\ after[j] = requests[i + j]
      OBVIOUS
    <3>4. j \in 1..(Len(requests) - i) /\ i + j \in 1..Len(requests) /\ (i + 1) + j - 1 = i + j
      BY <3>1, <3>2
    <3>5. after[j] = requests[(i + 1) + j - 1]
      BY <2>1, <3>1, <3>4
    <3>6. QED
      BY <3>1, <3>4, <3>5
  <2> HIDE DEF before, after, requests2
  <2>5. /\ requests2 \in Seq(V) /\ Len(requests2) = Len(before) + Len(after)
        /\ \A j \in 1..Len(before) + Len(after) :
             requests2[j] = IF j <= Len(before) THEN before[j] ELSE after[j - Len(before)]
    BY <2>2, ConcatProperties
  <2>6. ASSUME NEW j \in DOMAIN requests2 PROVE \E h \in DOMAIN requests : requests2[j] = requests[h]
    <3>1. j \in 1..Len(before) + Len(after) /\ Len(before) \in Nat /\ Len(after) \in Nat
      BY <2>2, <2>5
    <3>2. CASE j <= Len(before)
      <4>1. j \in 1..Len(before)
        BY <3>1, <3>2
      <4>2. QED
        BY <2>3, <2>5, <3>1, <3>2, <4>1
    <3>3. CASE ~(j <= Len(before))
      <4>1. j - Len(before) \in 1..Len(after)
        BY <3>1, <3>3
      <4>2. QED
        BY <2>4, <2>5, <3>1, <3>3, <4>1
    <3>4. QED
      BY <3>2, <3>3
  <2>7. QED
    BY <2>5, <2>6 DEF V
<1>7. OnTime(requests2)
  BY <1>2, <1>6 DEF OnTime
<1>8. StillCounted(received2)
  <2>1. ASSUME NEW j \in 1..Len(received2) PROVE Within(received2[j], NoExtra)
    <3>1. /\ Len(received2) = Len(received) + Len(fresh)
          /\ received2[j] = IF j <= Len(received) THEN received[j] ELSE fresh[j - Len(received)]
          /\ Len(received) \in Nat /\ Len(fresh) \in Nat
      <4>1. received \in Seq(TaskLog) /\ fresh \in Seq(TaskLog)
        BY <1>2, <1>4
      <4> HIDE DEF fresh
      <4>2. /\ Len(received \o fresh) = Len(received) + Len(fresh)
            /\ \A h \in 1..Len(received) + Len(fresh) :
                 (received \o fresh)[h] = IF h <= Len(received) THEN received[h] ELSE fresh[h - Len(received)]
        BY <4>1, ConcatProperties
      <4>3. Len(received) \in Nat /\ Len(fresh) \in Nat
        BY <4>1
      <4>4. QED
        BY <4>2, <4>3
    <3> HIDE DEF received2
    <3>2. CASE j <= Len(received)
      <4>1. j \in 1..Len(received)
        BY <3>1, <3>2
      <4>2. QED
        BY <1>2, <3>1, <3>2, <4>1 DEF StillCounted
    <3>3. CASE ~(j <= Len(received))
      <4>1. j - Len(received) \in 1..Len(fresh)
        BY <3>1, <3>3
      <4>2. fresh[j - Len(received)].age = 0 /\ fresh[j - Len(received)] \in TaskLog
        BY <1>4, <4>1
      <4>3. fresh[j - Len(received)].limit \in Limit
        BY <4>2 DEF TaskLog
      <4>4. QED
        BY <3>1, <3>3, <4>2, <4>3, Typed DEF Within
    <3>4. QED
      BY <3>2, <3>3
  <2>2. QED
    BY <2>1 DEF StillCounted
<1>9. Covered(received2, requests2, all)
  <2>1. SUFFICES ASSUME NEW l \in Limit, NEW k \in Int, k <= Interval[l]
                 PROVE  Till(received2, l, k) + Sent(requests2, l, k + Delay) <= Logged(all, l, k + Delay)
    BY DEF Covered
  <2>2. k + Delay \in Int
    BY Typed
  <2>3. Till(received2, l, k) = Till(received, l, k) + Till(fresh, l, k)
    BY <1>2, <1>4, TillConcat
  <2>4. Sent(requests2, l, k + Delay) = Sent(requests, l, k + Delay) - Till(logs, l, k + Delay)
    BY <1>2, <2>2, SentRemoveAt
  <2>5. Till(received, l, k) + Sent(requests, l, k + Delay) <= Logged(all, l, k + Delay)
    BY <1>2, <2>1 DEF Covered
  <2>6. Till(fresh, l, k) <= Till(logs, l, k + Delay)
    <3>1. CASE k < 0
      <4>1. Till(fresh, l, k) = 0 /\ Till(logs, l, k + Delay) \in Nat
        BY <1>4, <2>2, <3>1, TillNegative, TillType
      <4>2. QED
        BY <4>1
    <3>2. CASE k >= 0
      <4>1. \A j \in DOMAIN fresh : logs[j].age <= k + Delay
        <5>1. \A j \in DOMAIN fresh : j \in DOMAIN logs /\ logs[j].age <= Delay /\ logs[j] \in TaskLog
          BY <1>2, <1>4 DEF OnTime
        <5>2. \A j \in DOMAIN fresh : logs[j].age <= Delay /\ logs[j].age \in Nat
          BY <5>1 DEF TaskLog
        <5>3. QED
          BY <3>2, <5>2, Typed
      <4>2. \A j \in DOMAIN fresh : fresh[j].limit = l /\ fresh[j].age <= k
              => logs[j].limit = l /\ logs[j].age <= k + Delay /\ logs[j].weight = fresh[j].weight
        BY <1>4, <4>1
      <4> HIDE DEF fresh, logs
      <4>3. QED
        BY <1>4, <2>2, <4>2, TillCompared
    <3>3. QED
      BY <3>1, <3>2
  <2>7. /\ Till(received, l, k) \in Int /\ Till(fresh, l, k) \in Int /\ Till(logs, l, k + Delay) \in Int
        /\ Sent(requests, l, k + Delay) \in Int /\ Logged(all, l, k + Delay) \in Int
    BY <1>2, <1>4, <2>2, TillType, SentType, LoggedIs
  <2>8. QED
    BY <2>3, <2>4, <2>5, <2>6, <2>7
<1> HIDE DEF requests2, received2
<1>10. TypeOK'
  BY <1>1, <1>2, <1>3, <1>5, <1>6 DEF Inv, TypeOK, requests2, received2
<1>11. taskLogs' = all /\ travelling' = requests2 /\ arrived' = received2
  BY <1>1, <1>3 DEF requests2, received2
<1>12. QED
  BY <1>2, <1>7, <1>8, <1>9, <1>10, <1>11 DEF Inv

LEMMA InvTry == ASSUME NEW r \in Requester PROVE Inv /\ Try(r) => Inv'
<1> SUFFICES ASSUME Inv, Try(r) PROVE Inv'
  OBVIOUS
<1>1. PICK all, requests, received :
        /\ all = taskLogs /\ requests = travelling /\ received = arrived
  OBVIOUS
<1>2. /\ all \in [Bot -> Seq(TaskLog)] /\ requests \in Seq(Seq(TaskLog)) /\ received \in Seq(TaskLog)
      /\ OnTime(requests) /\ StillCounted(received)
      /\ Covered(received, requests, all) /\ Capped(all)
  BY <1>1 DEF Inv, TypeOK
<1> DEFINE b == BotOf[r]
           q == LimitOf[r]
           kept == Flush(all[b])
           new == NewLogs[q]
<1>3. b \in Bot /\ q \in Limit
  BY Typed
<1>4. all[b] \in Seq(TaskLog) /\ Kept(all[b], Margin, kept) /\ kept \in Seq(TaskLog)
  <2>1. all[b] \in Seq(TaskLog)
    BY <1>2, <1>3
  <2>2. Kept(all[b], Margin, kept)
    BY <2>1, RecentIs, Typed DEF Flush
  <2>3. QED
    BY <2>1, <2>2 DEF Kept
<1>5. /\ new \in Seq(TaskLog) /\ \A i \in 1..Len(new) : new[i].age = 0
      /\ \A l \in Limit : \A d \in Int : /\ l \in Needed(q) => Till(new, l, d) <= Weight[q][l]
                                         /\ l \notin Needed(q) => Till(new, l, d) = 0
  BY <1>3, NewLogsIs
<1>6. sleep' \in [Requester -> Idle..Retry] /\ arrived' = received
  <2>1. sleep \in [Requester -> Idle..Retry]
    BY DEF Inv, TypeOK
  <2>2. Idle \in Idle..Retry /\ Retry \in Idle..Retry
    BY Typed DEF Idle
  <2>3. sleep' = [sleep EXCEPT ![r] = Idle] \/ sleep' = [sleep EXCEPT ![r] = Retry]
    BY DEF Try
  <2>4. QED
    BY <1>1, <2>1, <2>2, <2>3 DEF Try
\* Flushing changes nothing that still counts.
<1>7. ASSUME NEW l \in Limit, NEW d \in Int, d <= Interval[l] + Margin[l]
      PROVE  Till(kept, l, d) = Till(all[b], l, d) /\ Till(kept, l, d) \in Nat
  BY <1>4, <1>7, TillType DEF Kept
<1>8. CASE WithinCapacity(kept, b, q)
  <2> DEFINE logs2 == kept \o new
             all2 == [all EXCEPT ![b] = logs2]
             requests2 == Append(requests, new)
  <2>1. taskLogs' = all2 /\ travelling' = requests2 /\ arrived' = received
    BY <1>1, <1>6, <1>8 DEF Try
  <2> HIDE DEF kept, new, b, q
  <2>2. /\ logs2 \in Seq(TaskLog) /\ all2 \in [Bot -> Seq(TaskLog)]
        /\ all2[b] = logs2 /\ \A c \in Bot : c # b => all2[c] = all[c]
    <3>1. logs2 \in Seq(TaskLog)
      BY <1>4, <1>5
    <3> HIDE DEF logs2
    <3>2. QED
      BY <1>2, <1>3, <3>1
  <2>3. /\ requests2 \in Seq(Seq(TaskLog))
        /\ \A i \in DOMAIN requests2 : requests2[i] = new \/ (i \in DOMAIN requests /\ requests2[i] = requests[i])
    <3> DEFINE V == Seq(TaskLog)
    <3> HIDE DEF V
    <3>1. requests \in Seq(V) /\ new \in V
      BY <1>2, <1>5 DEF V
    <3>2. requests2 \in Seq(V)
      BY <3>1
    <3>3. \A i \in DOMAIN requests2 : requests2[i] = new \/ (i \in DOMAIN requests /\ requests2[i] = requests[i])
      BY <3>1
    <3>4. QED
      BY <3>2, <3>3 DEF V
  <2>4. OnTime(requests2)
    <3>1. \A j \in DOMAIN new : new[j].age <= Delay
      <4>1. DOMAIN new = 1..Len(new)
        BY <1>5
      <4>2. QED
        BY <1>5, <4>1, Typed
    <3> HIDE DEF requests2
    <3>2. QED
      BY <1>2, <2>3, <3>1 DEF OnTime
  <2>5. ASSUME NEW l \in Limit, NEW d \in Int, d <= Interval[l] + Margin[l]
        PROVE  Till(logs2, l, d) = Till(all[b], l, d) + Till(new, l, d)
    <3>1. Till(logs2, l, d) = Till(kept, l, d) + Till(new, l, d)
      BY <1>4, <1>5, TillConcat
    <3>2. QED
      BY <1>7, <2>5, <3>1
  <2>6. Covered(received, requests2, all2)
    <3>1. SUFFICES ASSUME NEW l \in Limit, NEW k \in Int, k <= Interval[l]
                   PROVE  Till(received, l, k) + Sent(requests2, l, k + Delay) <= Logged(all2, l, k + Delay)
      BY DEF Covered
    <3>2. k + Delay \in Int /\ k + Delay <= Interval[l] + Margin[l]
      BY <3>1, Typed
    <3>3. Sent(requests2, l, k + Delay) = Sent(requests, l, k + Delay) + Till(new, l, k + Delay)
      BY <1>2, <1>5, <3>2, SentAppend
    <3>4. Logged(all2, l, k + Delay)
            = Logged(all, l, k + Delay) - Till(all[b], l, k + Delay) + Till(logs2, l, k + Delay)
      <4>1. b \in Bot /\ logs2 \in Seq(TaskLog) /\ k + Delay \in Int /\ all \in [Bot -> Seq(TaskLog)]
        BY <1>2, <1>3, <2>2, <3>2
      <4> HIDE DEF logs2
      <4>2. QED
        BY <4>1, LoggedChanged
    <3>5. Till(logs2, l, k + Delay) = Till(all[b], l, k + Delay) + Till(new, l, k + Delay)
      BY <2>5, <3>2
    <3>6. Till(received, l, k) + Sent(requests, l, k + Delay) <= Logged(all, l, k + Delay)
      BY <1>2, <3>1 DEF Covered
    <3>7. /\ Till(received, l, k) \in Int /\ Till(new, l, k + Delay) \in Int
          /\ Till(all[b], l, k + Delay) \in Int
          /\ Sent(requests, l, k + Delay) \in Int /\ Logged(all, l, k + Delay) \in Int
      <4>1. Till(received, l, k) \in Int /\ Till(new, l, k + Delay) \in Int
        BY <1>2, <1>5, <3>2, TillType
      <4>2. Till(all[b], l, k + Delay) \in Int
        BY <1>4, <3>2, TillType
      <4>3. Sent(requests, l, k + Delay) \in Int /\ Logged(all, l, k + Delay) \in Int
        BY <1>2, <3>2, SentType, LoggedIs
      <4>4. QED
        BY <4>1, <4>2, <4>3
    <3>8. QED
      BY <3>3, <3>4, <3>5, <3>6, <3>7
  <2>7. Capped(all2)
    <3>1. SUFFICES ASSUME NEW c \in Bot, NEW l \in Limit
                   PROVE  Till(all2[c], l, Interval[l] + Margin[l]) <= LimitFor(c, l)
      BY DEF Capped
    <3>2. CASE c # b
      BY <1>2, <2>2, <3>2 DEF Capped
    <3>3. CASE c = b
      <4> DEFINE d == Interval[l] + Margin[l]
      <4>1. d \in Int /\ d <= Interval[l] + Margin[l]
        BY Typed
      <4>2. CapacityUsed(kept, l) = Till(kept, l, d)
        BY <1>4, CapacityUsedIs
      <4>3. Till(all[b], l, d) <= LimitFor(b, l)
        BY <1>2, <1>3 DEF Capped
      <4> HIDE DEF d
      <4>4. Till(logs2, l, d) = Till(all[b], l, d) + Till(new, l, d) /\ Till(kept, l, d) = Till(all[b], l, d)
        BY <1>7, <2>5, <4>1 DEF d
      <4>5. /\ Till(all[b], l, d) \in Int /\ Till(new, l, d) \in Int
            /\ LimitFor(b, l) \in Int /\ Weight[q][l] \in Int
        <5>1. Till(all[b], l, d) \in Int /\ Till(new, l, d) \in Int
          BY <1>4, <1>5, <4>1, TillType
        <5>2. LimitFor(b, l) \in Int /\ Weight[q][l] \in Int
          BY <1>3, LimitForType, Typed
        <5>3. QED
          BY <5>1, <5>2
      <4>6. Till(logs2, l, d) <= LimitFor(b, l)
        <5>1. CASE l \in Needed(q)
          <6>1. CapacityUsed(kept, l) + Weight[q][l] <= LimitFor(b, l)
            BY <1>8, <5>1 DEF WithinCapacity
          <6>2. Till(new, l, d) <= Weight[q][l]
            BY <1>5, <4>1, <5>1
          <6> HIDE DEF logs2
          <6>3. QED
            BY <4>2, <4>4, <4>5, <6>1, <6>2
        <5>2. CASE l \notin Needed(q)
          <6>1. Till(new, l, d) = 0
            BY <1>5, <4>1, <5>2
          <6> HIDE DEF logs2
          <6>2. QED
            BY <4>3, <4>4, <4>5, <6>1
        <5>3. QED
          BY <5>1, <5>2
      <4>7. QED
        BY <2>2, <3>3, <4>6 DEF d
    <3>4. QED
      BY <3>2, <3>3
  <2> HIDE DEF all2, requests2
  <2>8. TypeOK'
    BY <1>2, <1>6, <2>1, <2>2, <2>3 DEF TypeOK
  <2>9. QED
    BY <1>2, <2>1, <2>4, <2>6, <2>7, <2>8 DEF Inv
<1>9. CASE ~WithinCapacity(kept, b, q)
  <2> DEFINE all2 == [all EXCEPT ![b] = kept]
  <2>1. taskLogs' = all2 /\ travelling' = requests /\ arrived' = received
    BY <1>1, <1>6, <1>9 DEF Try
  <2>2. /\ all2 \in [Bot -> Seq(TaskLog)] /\ all2[b] = kept
        /\ \A c \in Bot : c # b => all2[c] = all[c]
    BY <1>2, <1>3, <1>4
  <2>3. Covered(received, requests, all2)
    <3>1. SUFFICES ASSUME NEW l \in Limit, NEW k \in Int, k <= Interval[l]
                   PROVE  Till(received, l, k) + Sent(requests, l, k + Delay) <= Logged(all2, l, k + Delay)
      BY DEF Covered
    <3>2. k + Delay \in Int /\ k + Delay <= Interval[l] + Margin[l]
      BY <3>1, Typed
    <3>3. Logged(all2, l, k + Delay)
            = Logged(all, l, k + Delay) - Till(all[b], l, k + Delay) + Till(kept, l, k + Delay)
      BY <1>2, <1>3, <1>4, <3>2, LoggedChanged
    <3>4. Till(kept, l, k + Delay) = Till(all[b], l, k + Delay) /\ Till(kept, l, k + Delay) \in Nat
      BY <1>7, <3>2
    <3>5. Logged(all, l, k + Delay) \in Nat
      BY <1>2, <3>2, LoggedIs
    <3>6. Till(received, l, k) + Sent(requests, l, k + Delay) <= Logged(all, l, k + Delay)
      BY <1>2, <3>1 DEF Covered
    <3>7. QED
      BY <3>3, <3>4, <3>5, <3>6
  <2>4. Capped(all2)
    <3>1. SUFFICES ASSUME NEW c \in Bot, NEW l \in Limit
                   PROVE  Till(all2[c], l, Interval[l] + Margin[l]) <= LimitFor(c, l)
      BY DEF Capped
    <3>2. Till(kept, l, Interval[l] + Margin[l]) = Till(all[b], l, Interval[l] + Margin[l])
      <4>1. Interval[l] + Margin[l] \in Int /\ Interval[l] + Margin[l] <= Interval[l] + Margin[l]
        BY Typed
      <4>2. QED
        BY <1>7, <4>1
    <3>3. QED
      BY <1>2, <1>3, <2>2, <3>2 DEF Capped
  <2> HIDE DEF all2
  <2>5. TypeOK'
    BY <1>2, <1>6, <2>1, <2>2 DEF TypeOK
  <2>6. QED
    BY <1>2, <2>1, <2>3, <2>4, <2>5 DEF Inv
<1>10. QED
  BY <1>8, <1>9

LEMMA InvAskCancelled == ASSUME NEW r \in Requester PROVE Inv /\ (Ask(r) \/ Cancelled(r)) => Inv'
<1> SUFFICES ASSUME Inv, Ask(r) \/ Cancelled(r) PROVE Inv'
  OBVIOUS
<1>1. sleep \in [Requester -> Idle..Retry]
  BY DEF Inv, TypeOK
<1>2. Idle \in Idle..Retry /\ 0 \in Idle..Retry
  BY Typed DEF Idle
<1>3. sleep' \in [Requester -> Idle..Retry]
  BY <1>1, <1>2 DEF Ask, Cancelled
<1>4. taskLogs' = taskLogs /\ travelling' = travelling /\ arrived' = arrived
  BY DEF Ask, Cancelled
<1>5. QED
  BY <1>3, <1>4 DEF Inv, TypeOK

LEMMA InvNext == Inv /\ [Next]_vars => Inv'
<1> SUFFICES ASSUME Inv, [Next]_vars PROVE Inv'
  OBVIOUS
<1>1. CASE TimePasses
  BY <1>1, InvTimePasses
<1>2. CASE Arrive
  BY <1>2, InvArrive
<1>3. CASE \E r \in Requester : Ask(r) \/ Try(r) \/ Cancelled(r)
  BY <1>3, InvTry, InvAskCancelled
<1>4. CASE UNCHANGED vars
  BY <1>4 DEF vars, Inv, TypeOK
<1>5. QED
  BY <1>1, <1>2, <1>3, <1>4 DEF Next

\* The logs, the sleeping requests and what is on its way keep their types, in every run of the
\* bots: a request sleeps for the retry interval at most and no age runs below zero.
THEOREM TypeCorrect == Spec => []TypeOK
<1>1. Inv => TypeOK
  BY DEF Inv
<1>2. QED
  BY <1>1, InvInit, InvNext, PTL DEF Spec
-------------------------------------------------------------------------------
(***************************************************************************)
(* From the invariant to the exchange's limits: what counts there was      *)
(* logged by some bot within the margin, each bot logs no more than its    *)
(* share, and the shares make a hundred per cent at most.                  *)
(***************************************************************************)
RoundedUp(l) == {b \in Bot : Configured[l] * Share[b] < 100}
Extra(l) == [b \in Bot |-> IF b \in RoundedUp(l) THEN 1 ELSE 0]

\* A bot may use its share, or one request.
LEMMA ShareOfLimit ==
  ASSUME NEW b \in Bot, NEW l \in Limit
  PROVE  LimitFor(b, l) \in Int /\ 100 * LimitFor(b, l) <= Configured[l] * Share[b] + 100 * Extra(l)[b]
<1> DEFINE product == Configured[l] * Share[b]
<1>1. product \in Nat
  <2>1. Configured[l] \in Nat /\ Share[b] \in Nat
    BY Typed
  <2>2. QED
    BY <2>1
<1>2. LimitFor(b, l) = IF product \div 100 < 1 THEN 1 ELSE product \div 100
  BY DEF LimitFor
<1>3. Extra(l)[b] = IF product < 100 THEN 1 ELSE 0
  BY DEF Extra, RoundedUp
<1> HIDE DEF product
<1>4. CASE product < 100
  <2>1. product \div 100 = 0
    BY <1>1, <1>4
  <2>2. LimitFor(b, l) = 1 /\ Extra(l)[b] = 1
    BY <1>2, <1>3, <1>4, <2>1
  <2>3. LimitFor(b, l) \in Int /\ 100 * LimitFor(b, l) <= product + 100 * Extra(l)[b]
    BY <1>1, <2>2
  <2>4. QED
    BY <2>3 DEF product
<1>5. CASE product >= 100
  <2>1. product \div 100 \in Int /\ product \div 100 >= 1 /\ 100 * (product \div 100) <= product
    BY <1>1, <1>5
  <2>2. LimitFor(b, l) = product \div 100 /\ Extra(l)[b] = 0
    BY <1>1, <1>2, <1>3, <1>5, <2>1
  <2>3. LimitFor(b, l) \in Int /\ 100 * LimitFor(b, l) <= product + 100 * Extra(l)[b]
    BY <1>1, <2>1, <2>2
  <2>4. QED
    BY <2>3 DEF product
<1>6. QED
  BY <1>1, <1>4, <1>5

LEMMA ReceivedIs ==
  ASSUME NEW l \in Limit, arrived \in Seq(TaskLog), StillCounted(arrived)
  PROVE  Received(l) = Till(arrived, l, Interval[l])
<1>1. ASSUME NEW i \in DOMAIN arrived
      PROVE  (IF arrived[i].limit = l THEN arrived[i].weight ELSE 0)
               = (IF arrived[i].limit = l /\ arrived[i].age <= Interval[l] THEN arrived[i].weight ELSE 0)
  <2>1. i \in 1..Len(arrived) /\ arrived[i] \in TaskLog
    OBVIOUS
  <2>2. arrived[i].age <= Interval[arrived[i].limit] + 0
    <3>1. arrived[i].limit \in Limit
      BY <2>1 DEF TaskLog
    <3>2. QED
      BY <2>1, <3>1, Typed DEF StillCounted, Within
  <2>3. CASE arrived[i].limit = l
    <3>1. arrived[i].age <= Interval[l]
      BY <2>2, <2>3, Typed
    <3>2. QED
      BY <3>1
  <2>4. QED
    BY <2>3
<1>2. [i \in DOMAIN arrived |-> IF arrived[i].limit = l THEN arrived[i].weight ELSE 0]
        = Weights(arrived, l, Interval[l])
  BY <1>1 DEF Weights
<1>3. QED
  BY <1>2 DEF Received, Till

LEMMA InvWithinLimits == Inv => WithinLimits
<1> SUFFICES ASSUME Inv, NEW l \in Limit, SumFunction(Share) <= 100
             PROVE  Received(l) <= Configured[l] + Cardinality(RoundedUp(l))
  BY DEF WithinLimits, RoundedUp
<1>1. /\ taskLogs \in [Bot -> Seq(TaskLog)] /\ travelling \in Seq(Seq(TaskLog)) /\ arrived \in Seq(TaskLog)
      /\ StillCounted(arrived) /\ Covered(arrived, travelling, taskLogs) /\ Capped(taskLogs)
  BY DEF Inv, TypeOK
<1> DEFINE n == Interval[l]
           d == n + Delay
           all == SumFunctionOnSet(LoggedBy(taskLogs, l, d), Bot)
           limits == [b \in Bot |-> LimitFor(b, l)]
           scaled == [b \in Bot |-> 100 * LimitFor(b, l)]
           products == [b \in Bot |-> Configured[l] * Share[b]]
           ones == Extra(l)
           hundreds == [b \in Bot |-> 100 * ones[b]]
           bounds == [b \in Bot |-> products[b] + hundreds[b]]
<1>2. n \in Int /\ d \in Int /\ n <= Interval[l] /\ d <= Interval[l] + Margin[l] /\ Configured[l] \in Nat
  BY Typed
<1>3. Received(l) = Till(arrived, l, n)
  BY <1>1, ReceivedIs
<1>4. Till(arrived, l, n) + Sent(travelling, l, d) <= Logged(taskLogs, l, d)
  BY <1>1, <1>2 DEF Covered
<1>5. Sent(travelling, l, d) >= 0
  <2>1. \A i \in DOMAIN travelling : travelling[i] \in Seq(TaskLog)
    BY <1>1
  <2> HIDE DEF d
  <2>2. Mapped(travelling, TillOf(l, d)) \in Seq(Nat)
    <3>1. \A i \in DOMAIN travelling : TillOf(l, d)[travelling[i]] \in Nat
      BY <1>2, <2>1, TillType DEF TillOf
    <3>2. DOMAIN travelling = 1..Len(travelling) /\ Len(travelling) \in Nat
      BY <1>1
    <3>3. QED
      BY <3>1, <3>2 DEF Mapped
  <2>3. QED
    BY <2>2, SeqSumType DEF Sent, SumMapped
<1>6. /\ Logged(taskLogs, l, d) = all
      /\ \A b \in Bot : LoggedBy(taskLogs, l, d)[b] = Till(taskLogs[b], l, d) /\ Till(taskLogs[b], l, d) \in Nat
  BY <1>1, <1>2, LoggedIs
<1>7. ASSUME NEW b \in Bot PROVE Till(taskLogs[b], l, d) <= LimitFor(b, l)
  <2> DEFINE e == Interval[l] + Margin[l]
             logs == taskLogs[b]
  <2>1. e \in Int /\ d <= e /\ logs \in Seq(TaskLog)
    BY <1>1, <1>2, Typed
  <2>2. Till(logs, l, e) <= LimitFor(b, l)
    BY <1>1 DEF Capped
  <2> HIDE DEF d, e, logs
  <2>3. \A i \in DOMAIN logs : logs[i].limit = l /\ logs[i].age <= d
          => logs[i].limit = l /\ logs[i].age <= e /\ logs[i].weight = logs[i].weight
    <3>1. \A i \in DOMAIN logs : logs[i] \in TaskLog
      BY <2>1
    <3>2. \A i \in DOMAIN logs : logs[i].age \in Nat
      BY <3>1 DEF TaskLog
    <3>3. QED
      BY <1>2, <2>1, <3>2
  <2>4. Till(logs, l, d) <= Till(logs, l, e) /\ Till(logs, l, d) \in Int /\ Till(logs, l, e) \in Int
    <3>1. Till(logs, l, d) <= Till(logs, l, e)
      BY <1>2, <2>1, <2>3, TillCompared
    <3>2. QED
      BY <1>2, <2>1, <3>1, TillType
  <2>5. LimitFor(b, l) \in Int
    BY LimitForType
  <2>6. QED
    BY <2>2, <2>4, <2>5 DEF logs
<1>8. all <= SumFunctionOnSet(limits, Bot)
  <2>1. \A b \in Bot : LoggedBy(taskLogs, l, d)[b] \in Int /\ limits[b] \in Int
                       /\ LoggedBy(taskLogs, l, d)[b] <= limits[b]
    BY <1>6, <1>7, LimitForType
  <2> HIDE DEF limits
  <2>2. QED
    BY <2>1, SumMonotonic, Typed
<1>9. SumFunctionOnSet(scaled, Bot) = 100 * SumFunctionOnSet(limits, Bot)
  <2>1. \A b \in Bot : limits[b] \in Int /\ scaled[b] = 100 * limits[b]
    BY LimitForType
  <2> HIDE DEF limits, scaled
  <2>2. QED
    BY <2>1, SumScaled, Typed
<1>10. /\ SumFunctionOnSet(scaled, Bot) <= SumFunctionOnSet(products, Bot) + SumFunctionOnSet(hundreds, Bot)
       /\ SumFunctionOnSet(products, Bot) \in Int
  <2>1. \A b \in Bot : products[b] \in Int /\ hundreds[b] \in Int /\ bounds[b] = products[b] + hundreds[b]
    BY Typed DEF Extra
  <2>2. ASSUME NEW b \in Bot
        PROVE  scaled[b] \in Int /\ bounds[b] \in Int /\ scaled[b] <= bounds[b]
    <3>1. LimitFor(b, l) \in Int /\ 100 * LimitFor(b, l) <= Configured[l] * Share[b] + 100 * Extra(l)[b]
      BY ShareOfLimit
    <3>2. products[b] \in Int /\ hundreds[b] \in Int /\ bounds[b] = products[b] + hundreds[b]
      BY <2>1
    <3>3. scaled[b] = 100 * LimitFor(b, l) /\ products[b] = Configured[l] * Share[b] /\ hundreds[b] = 100 * Extra(l)[b]
      OBVIOUS
    <3>4. QED
      BY <3>1, <3>2, <3>3
  <2> HIDE DEF scaled, products, hundreds, bounds
  <2>3. SumFunctionOnSet(scaled, Bot) <= SumFunctionOnSet(bounds, Bot)
    BY <2>2, SumMonotonic, Typed
  <2>4. SumFunctionOnSet(bounds, Bot) = SumFunctionOnSet(products, Bot) + SumFunctionOnSet(hundreds, Bot)
    BY <2>1, SumPlus, Typed
  <2>5. SumFunctionOnSet(products, Bot) \in Int
    BY <2>1, SumType, Typed
  <2>6. QED
    BY <2>3, <2>4, <2>5
<1>11. SumFunctionOnSet(hundreds, Bot) = 100 * Cardinality(RoundedUp(l)) /\ Cardinality(RoundedUp(l)) \in Int
  <2>1. RoundedUp(l) \in SUBSET Bot /\ IsFiniteSet(RoundedUp(l))
    BY Typed, FS_Subset DEF RoundedUp
  <2>2. \A b \in Bot : ones[b] \in Int /\ hundreds[b] = 100 * ones[b] /\ ones[b] = IF b \in RoundedUp(l) THEN 1 ELSE 0
    BY DEF Extra
  <2> HIDE DEF ones, hundreds
  <2>3. SumFunctionOnSet(ones, Bot) = Cardinality(RoundedUp(l))
    BY <2>1, <2>2, SumCounts, Typed
  <2>4. SumFunctionOnSet(hundreds, Bot) = 100 * SumFunctionOnSet(ones, Bot)
    BY <2>2, SumScaled, Typed
  <2>5. QED
    BY <2>1, <2>3, <2>4, FS_CardinalityType
<1>12. SumFunctionOnSet(products, Bot) = Configured[l] * SumFunctionOnSet(Share, Bot)
  <2>1. \A b \in Bot : Share[b] \in Int /\ products[b] = Configured[l] * Share[b]
    BY Typed
  <2> DEFINE c == Configured[l]
  <2>2. c \in Int /\ \A b \in Bot : products[b] = c * Share[b]
    BY <1>2, <2>1
  <2> HIDE DEF products, c
  <2>3. SumFunctionOnSet(products, Bot) = c * SumFunctionOnSet(Share, Bot)
    BY <2>1, <2>2, SumScaled, Typed
  <2>4. QED
    BY <2>3 DEF c
<1>13. SumFunctionOnSet(Share, Bot) \in Int /\ SumFunctionOnSet(Share, Bot) <= 100
  <2>1. DOMAIN Share = Bot /\ \A b \in Bot : Share[b] \in Int
    <3>1. Share \in [Bot -> 1..100]
      BY LimitAssumption
    <3>2. QED
      BY <3>1, Typed
  <2>2. QED
    BY <2>1, SumType, Typed DEF SumFunction
<1>14. Configured[l] * SumFunctionOnSet(Share, Bot) <= Configured[l] * 100
  <2> DEFINE c == Configured[l]
             s == SumFunctionOnSet(Share, Bot)
  <2> HIDE DEF c, s
  <2>1. c \in Nat /\ s \in Int /\ s <= 100
    BY <1>2, <1>13 DEF c, s
  <2>2. c * s <= c * 100
    BY <2>1
  <2>3. QED
    BY <2>2 DEF c, s
<1>15. /\ SumFunctionOnSet(limits, Bot) \in Int /\ all \in Int
       /\ Till(arrived, l, n) \in Int /\ Sent(travelling, l, d) \in Int
  <2>1. \A b \in Bot : limits[b] \in Int
    BY LimitForType
  <2>2. SumFunctionOnSet(limits, Bot) \in Int
    BY <2>1, SumType, Typed
  <2>3. QED
    BY <1>1, <1>2, <1>6, <2>2, LoggedIs, TillType, SentType
<1> HIDE DEF limits, scaled, products, ones, hundreds, bounds, all, d, n
<1>16. Till(arrived, l, n) <= SumFunctionOnSet(limits, Bot)
  BY <1>4, <1>5, <1>6, <1>8, <1>15
<1>17. 100 * SumFunctionOnSet(limits, Bot) <= Configured[l] * 100 + 100 * Cardinality(RoundedUp(l))
  <2> DEFINE x == Configured[l] * SumFunctionOnSet(Share, Bot)
             y == Configured[l] * 100
             z == SumFunctionOnSet(limits, Bot)
             u == Cardinality(RoundedUp(l))
  <2>1. x \in Int /\ y \in Int /\ z \in Int /\ u \in Int
    BY <1>2, <1>11, <1>13, <1>15
  <2>2. 100 * z <= x + 100 * u /\ x <= y
    BY <1>9, <1>10, <1>11, <1>12, <1>14
  <2> HIDE DEF x, y, z, u
  <2>3. 100 * z <= y + 100 * u
    BY <2>1, <2>2
  <2>4. QED
    BY <2>3 DEF y, z, u
<1>18. QED
  <2> DEFINE u == Cardinality(RoundedUp(l))
             z == SumFunctionOnSet(limits, Bot)
             c == Configured[l]
  <2>1. c \in Int /\ u \in Int /\ z \in Int /\ 100 * z <= c * 100 + 100 * u
    BY <1>2, <1>11, <1>15, <1>17
  <2>2. Received(l) \in Int /\ Received(l) <= z
    BY <1>3, <1>15, <1>16
  <2> HIDE DEF u, z, c
  <2>3. Received(l) <= c + u
    BY <2>1, <2>2
  <2>4. QED
    BY <2>3 DEF c, u

\* The exchange never counts more under a limit, within its interval, than the limit allows,
\* whatever number of bots share the account, however their requests interleave and overtake one
\* another on the way, if the shares make a hundred per cent at most; each bot whose share is
\* rounded up to one request adds one at most.
THEOREM WithinLimitsHolds == Spec => []WithinLimits
BY InvInit, InvNext, InvWithinLimits, PTL DEF Spec
===============================================================================
