------------------------ MODULE MeanReversionEntryProofs ------------------------
(***************************************************************************)
(* Proofs about when MeanReversion enters: after the cooldown of every     *)
(* trade there was, although executors are forgotten, and in a candle that *)
(* was tried after the grace of an unfilled attempt only.                  *)
(***************************************************************************)
EXTENDS MeanReversionProofs

CandleOf(t) == t \div CandleLength
Due(executor) == executor.closed + CooldownOf(executor)
Released(executor, t) == executor.ended /\ ~Traded(executor) /\ executor.closed + Grace <= t

\* What an info of an executor that ended says of it for good: only a stop may still change it.
Remembers(info, executor) ==
  /\ info.filled = executor.filled /\ info.closed = executor.closed
  /\ info.closeType = executor.closeType \/ executor.closeType = "EARLY_STOP"

TimesOf(e) ==
  /\ executors[e].created <= now
  /\ executors[e].ended => executors[e].created <= executors[e].closed /\ executors[e].closed <= now
TimesInv == \A e \in DOMAIN executors : TimesOf(e)

InfosInv ==
  \A e \in DOMAIN infos :
    infos[e] \in Executor /\ (Done(infos[e]) => Remembers(infos[e], executors[e]))

\* The newest executor is listed, and all older ones have ended.
NewestInv ==
  /\ \A e \in DOMAIN executors :
       (\A d \in DOMAIN executors : d <= e) => ~executors[e].stored /\ e \in DOMAIN infos
  /\ \A e, f \in DOMAIN executors : e < f => executors[e].ended

\* The cooldown of an executor that may be forgotten is remembered.
WaitInv ==
  /\ cooldownUntil \in Int
  /\ \A e, f \in DOMAIN executors : e < f /\ Traded(executors[e]) => Due(executors[e]) <= cooldownUntil

\* The candle of the newest executors is locked, unless an attempt released it.
CandleInv ==
  \A e \in DOMAIN executors :
    CandleOf(executors[e].created) = Candle
    => lastEntryCandle = Candle \/ \E d \in DOMAIN executors : Released(executors[d], now)

TriedFor(e, f) ==
  e < f /\ CandleOf(executors[e].created) = CandleOf(executors[f].created)
  => /\ \E d \in DOMAIN executors : d < f /\ Released(executors[d], executors[f].created)
     /\ Cooldown >= CandleLength => ~Traded(executors[e])
TriedInv == \A e, f \in DOMAIN executors : TriedFor(e, f)

\* A queued creation is of this moment: everything was waited for.
QueuedInv ==
  Creating =>
    /\ \A i \in DOMAIN queue : \A a \in queue[i] : a.kind = "create" => a.created = now
    /\ cooldownUntil <= now /\ lastEntryCandle = Candle
    /\ \A e \in DOMAIN executors :
         /\ Traded(executors[e]) => Due(executors[e]) <= cooldownUntil
         /\ CandleOf(executors[e].created) = Candle
            => \E d \in DOMAIN executors : Released(executors[d], now)

EntryInv ==
  TimesInv /\ InfosInv /\ NewestInv /\ WaitInv /\ CandleInv /\ TriedInv /\ QueuedInv
-------------------------------------------------------------------------------
\* Instants between two of a candle are of that candle; those a candle's length apart are not.
LEMMA Between ==
  ASSUME NEW x \in Nat, NEW y \in Nat, NEW z \in Nat, x <= y, y <= z, CandleOf(x) = CandleOf(z)
  PROVE  CandleOf(y) = CandleOf(z)
<1>1. ASSUME NEW a \in Nat, NEW b \in Nat, a <= b PROVE a \div CandleLength <= b \div CandleLength
  BY <1>1, TimeAssumption
<1>2. \A a \in Nat : a \div CandleLength \in Int
  BY TimeAssumption
<1>3. QED
  BY <1>1, <1>2 DEF CandleOf

LEMMA Apart ==
  ASSUME NEW x \in Nat, NEW y \in Nat, x + CandleLength <= y
  PROVE  CandleOf(x) # CandleOf(y)
<1>1. \A a \in Nat :
        /\ a \div CandleLength \in Int
        /\ CandleLength * (a \div CandleLength) <= a
        /\ a < CandleLength * (a \div CandleLength) + CandleLength
  BY TimeAssumption
<1>2. CandleLength \in Nat
  BY TimeAssumption
<1>3. QED
  BY <1>1, <1>2 DEF CandleOf

LEMMA DurationsAre ==
  ASSUME NEW executor \in Executor
  PROVE  /\ CooldownOf(executor) \in Int /\ CooldownOf(executor) >= Cooldown
         /\ executor.closed \in Int /\ executor.created \in Nat
         /\ Grace \in Int /\ Cooldown \in Int
BY TimeAssumption, CooldownAssumption DEF CooldownOf, Executor, Time, Never

\* A later stop never makes a trade of an attempt, nor a cooldown longer.
LEMMA RemembersTrade ==
  ASSUME NEW info \in Executor, NEW executor \in Executor, Remembers(info, executor)
  PROVE  Traded(executor) => Traded(info) /\ CooldownOf(executor) <= CooldownOf(info)
BY TimeAssumption, CooldownAssumption DEF Remembers, Traded, CooldownOf

LEMMA RemembersOn ==
  ASSUME NEW a, NEW b, NEW c, Remembers(a, b), Remembers(b, c)
  PROVE  Remembers(a, c)
BY DEF Remembers
-------------------------------------------------------------------------------
LEMMA InitEntry == Init => EntryInv
<1> SUFFICES ASSUME Init PROVE EntryInv
  OBVIOUS
<1>1. now = 0 /\ executors = <<>> /\ infos = <<>> /\ queue = <<>> /\ cooldownUntil = 0
  BY DEF Init
<1>2. QED
  BY <1>1 DEF EntryInv, TimesInv, InfosInv, NewestInv, WaitInv, CandleInv, TriedInv, QueuedInv, Creating

\* An executor keeps its place and its time, and when it has ended what an info said of it.
Keeps(e) ==
  /\ e \in DOMAIN executors'
  /\ executors'[e] \in Executor
  /\ executors'[e].created = executors[e].created
  /\ executors[e].ended => executors'[e].ended /\ Remembers(executors[e], executors'[e])
  /\ ~executors[e].ended /\ executors'[e].ended => executors'[e].closed = now

LEMMA TickKeeps == ASSUME Inv, Tick, NEW e \in DOMAIN executors PROVE Keeps(e)
<1>1. executors' \in Seq(Executor) /\ e \in DOMAIN executors'
  BY TickIs
<1>2. executors'[e] \in Executor
  BY <1>1
<1>3. QED
  BY <1>1, <1>2, TickIs DEF Keeps, Remembers

LEMMA ListenKeepsAll == ASSUME Inv, Listen, NEW e \in DOMAIN executors PROVE Keeps(e)
<1>1. executors[e] \in Executor
  BY DEF Inv, TypeInv
<1>2. executors'[e] = executors[e] \/ executors'[e] = Stopped(executors[e])
  BY ListenKeeps
<1>3. Inv'
  BY ListenInv
<1>4. e \in DOMAIN executors'
  <2>1. SeenInv /\ Unfinished \subseteq DOMAIN infos /\ executors \in Seq(Executor)
    BY DEF Inv, SeenInv, TypeInv
  <2>2. Len(executors) \in Nat /\ DOMAIN executors = 1..Len(executors)
    BY <2>1
  <2>3. Len(executors') >= Len(executors) /\ Len(executors') \in Nat
        /\ DOMAIN executors' = 1..Len(executors')
    BY <1>3, <2>2 DEF Listen, Executed, Inv, TypeInv
  <2>4. QED
    BY <2>2, <2>3
<1>5. QED
  BY <1>1, <1>2, <1>4, StoppedIs DEF Keeps, Remembers

LEMMA ExecutorKeeps ==
  ASSUME Inv, NEW f \in DOMAIN executors, ExecutorActs(f), NEW e \in DOMAIN executors
  PROVE  Keeps(e)
<1>1. executors \in Seq(Executor) /\ executors[e] \in Executor
  BY DEF Inv, TypeInv
<1>2. PICK change \in Executor :
        /\ executors' = [executors EXCEPT ![f] = change]
        /\ change.created = executors[f].created
        /\ change.ended => change.closed = now
  BY ExecutorActsIs
<1>3. ~executors[f].ended
  BY ExecutorActsIs
<1>4. QED
  BY <1>1, <1>2, <1>3 DEF Keeps, Remembers
-------------------------------------------------------------------------------
\* What is kept of the executors keeps what was waited for and released.
LEMMA KeptFacts ==
  ASSUME Inv, NEW e \in DOMAIN executors, Keeps(e), executors[e].ended
  PROVE  /\ Traded(executors'[e]) => Traded(executors[e]) /\ Due(executors'[e]) <= Due(executors[e])
         /\ ~Traded(executors[e]) => ~Traded(executors'[e])
         /\ executors'[e].closed = executors[e].closed
         /\ Due(executors[e]) \in Int /\ Due(executors'[e]) \in Int
<1>1. executors[e] \in Executor /\ executors'[e] \in Executor /\ Remembers(executors[e], executors'[e])
  BY DEF Inv, TypeInv, Keeps
<1>2. /\ CooldownOf(executors[e]) \in Int /\ CooldownOf(executors'[e]) \in Int
      /\ executors[e].closed \in Int /\ executors'[e].closed = executors[e].closed
  BY <1>1, DurationsAre DEF Remembers
<1>3. Traded(executors'[e]) =>
        Traded(executors[e]) /\ CooldownOf(executors'[e]) <= CooldownOf(executors[e])
  BY <1>1, RemembersTrade
<1>4. QED
  BY <1>2, <1>3 DEF Due

LEMMA ReleasedStays ==
  ASSUME Inv, NEW d \in DOMAIN executors, Keeps(d), NEW t \in Nat, Released(executors[d], t)
  PROVE  d \in DOMAIN executors' /\ \A u \in Nat : u >= t => Released(executors'[d], u)
<1>1. /\ executors'[d].ended /\ ~Traded(executors'[d]) /\ executors'[d].closed = executors[d].closed
      /\ executors[d].closed \in Int /\ Grace \in Int /\ d \in DOMAIN executors'
  BY KeptFacts, DurationsAre DEF Released, Keeps, Inv, TypeInv
<1>2. executors[d].closed + Grace <= t
  BY DEF Released
<1>3. QED
  BY <1>1, <1>2 DEF Released, Traded

LEMMA TimesStay ==
  ASSUME Inv, TimesInv, NEW e \in DOMAIN executors, Keeps(e), now' \in Nat, now' >= now
  PROVE  TimesOf(e)'
<1>1. executors[e] \in Executor /\ executors'[e] \in Executor /\ now \in Nat /\ TimesOf(e)
  BY DEF Inv, TypeInv, Keeps, TimesInv, Time
<1>2. /\ executors[e].created \in Nat /\ executors[e].closed \in Int
      /\ executors'[e].created = executors[e].created
  BY <1>1, DurationsAre DEF Keeps
<1>3. CASE executors[e].ended
  BY <1>1, <1>2, <1>3 DEF TimesOf, Keeps, Remembers
<1>4. CASE ~executors[e].ended
  BY <1>1, <1>2, <1>4 DEF TimesOf, Keeps
<1>5. QED
  BY <1>3, <1>4

\* The facts about two executors that are there stay true, if the controller only waits longer.
LEMMA PairsStay ==
  ASSUME Inv, EntryInv, \A e \in DOMAIN executors : Keeps(e),
         cooldownUntil' \in Int, cooldownUntil' >= cooldownUntil,
         NEW e \in DOMAIN executors, NEW f \in DOMAIN executors, e < f
  PROVE  /\ executors'[e].ended
         /\ Traded(executors'[e]) => Due(executors'[e]) <= cooldownUntil'
         /\ TriedFor(e, f)'
<1>1. executors[e].ended /\ Keeps(e) /\ Keeps(f) /\ TriedFor(e, f)
  BY DEF EntryInv, NewestInv, TriedInv
<1>2. Traded(executors[e]) => Due(executors[e]) <= cooldownUntil /\ cooldownUntil \in Int
  BY DEF EntryInv, WaitInv
<1>3. /\ Traded(executors'[e]) => Traded(executors[e]) /\ Due(executors'[e]) <= Due(executors[e])
      /\ Due(executors[e]) \in Int /\ Due(executors'[e]) \in Int
  BY <1>1, KeptFacts
<1>4. Traded(executors'[e]) => Due(executors'[e]) <= cooldownUntil'
  BY <1>2, <1>3
<1>5. /\ executors'[e].created = executors[e].created /\ executors'[f].created = executors[f].created
      /\ executors[f].created \in Nat
  <2>1. executors[f] \in Executor
    BY DEF Inv, TypeInv
  <2>2. QED
    BY <1>1, <2>1, DurationsAre DEF Keeps
<1>6. ASSUME CandleOf(executors[e].created) = CandleOf(executors[f].created)
      PROVE  /\ \E d \in DOMAIN executors' : d < f /\ Released(executors'[d], executors'[f].created)
             /\ Cooldown >= CandleLength => ~Traded(executors'[e])
  <2>1. PICK d \in DOMAIN executors : d < f /\ Released(executors[d], executors[f].created)
    BY <1>1, <1>6 DEF TriedFor
  <2>2. d \in DOMAIN executors' /\ \A u \in Nat : u >= executors[f].created => Released(executors'[d], u)
    BY <1>5, <2>1, ReleasedStays
  <2>3. Cooldown >= CandleLength => ~Traded(executors[e])
    BY <1>1, <1>6 DEF TriedFor
  <2>4. Released(executors'[d], executors'[f].created)
    BY <1>5, <2>2
  <2>5. QED
    BY <1>3, <1>5, <2>1, <2>2, <2>3, <2>4
<1>7. TriedFor(e, f)'
  BY <1>5, <1>6 DEF TriedFor, CandleOf
<1>8. QED
  BY <1>1, <1>4, <1>7 DEF Keeps

\* Of the executors of the candle that is current after the step, the old ones at least.
LEMMA CandleStays ==
  ASSUME Inv, EntryInv, \A e \in DOMAIN executors : Keeps(e), now' \in Nat, now' >= now,
         NEW e \in DOMAIN executors, CandleOf(executors'[e].created) = Candle'
  PROVE  /\ CandleOf(executors[e].created) = Candle /\ Candle' = Candle
         /\ \A d \in DOMAIN executors : Released(executors[d], now) => Released(executors'[d], now') /\ d \in DOMAIN executors'
<1>1. executors[e] \in Executor /\ now \in Nat /\ Keeps(e) /\ TimesOf(e)
  BY DEF Inv, TypeInv, Time, EntryInv, TimesInv
<1>2. executors[e].created \in Nat /\ executors[e].created <= now
      /\ executors'[e].created = executors[e].created
  BY <1>1, DurationsAre DEF Keeps, TimesOf
<1>3. CandleOf(executors[e].created) = CandleOf(now')
  BY <1>2 DEF Candle, CandleOf
<1>4. CandleOf(now) = CandleOf(now')
  BY <1>1, <1>2, <1>3, Between
<1>5. ASSUME NEW d \in DOMAIN executors, Released(executors[d], now)
      PROVE  Released(executors'[d], now') /\ d \in DOMAIN executors'
  <2>1. d \in DOMAIN executors' /\ \A u \in Nat : u >= now => Released(executors'[d], u)
    BY <1>1, <1>5, ReleasedStays
  <2>2. QED
    BY <2>1
<1>6. QED
  BY <1>3, <1>4, <1>5 DEF Candle, CandleOf
-------------------------------------------------------------------------------
\* A step that neither enters nor touches what the controller remembers.
LEMMA QuietEntry ==
  ASSUME Inv, EntryInv, UNCHANGED <<lastEntryCandle, cooldownUntil>>,
         \A e \in DOMAIN executors : Keeps(e), DOMAIN executors' = DOMAIN executors,
         now' \in Nat, now' >= now
  PROVE  /\ TimesInv' /\ WaitInv' /\ CandleInv' /\ TriedInv'
         /\ \A e, f \in DOMAIN executors' : e < f => executors'[e].ended
         /\ UNCHANGED <<queue, now>> => QueuedInv'
<1>1. TimesInv'
  BY TimesStay DEF EntryInv, TimesInv
<1>2. cooldownUntil' = cooldownUntil /\ cooldownUntil' \in Int
  BY DEF EntryInv, WaitInv
<1>3. \A e, f \in DOMAIN executors :
        e < f => /\ executors'[e].ended /\ TriedFor(e, f)'
                 /\ Traded(executors'[e]) => Due(executors'[e]) <= cooldownUntil'
  BY <1>2, PairsStay
<1>4. WaitInv'
  BY <1>2, <1>3 DEF WaitInv
<1>5. TriedInv'
  <2>1. ASSUME NEW e \in DOMAIN executors, NEW f \in DOMAIN executors PROVE TriedFor(e, f)'
    <3>1. CASE e < f
      BY <1>3, <3>1
    <3>2. CASE ~(e < f)
      BY <3>2 DEF TriedFor
    <3>3. QED
      BY <3>1, <3>2
  <2>2. QED
    BY <2>1 DEF TriedInv
<1>6. ASSUME NEW e \in DOMAIN executors, CandleOf(executors'[e].created) = Candle'
      PROVE  lastEntryCandle' = Candle' \/ \E d \in DOMAIN executors' : Released(executors'[d], now')
  <2>1. /\ CandleOf(executors[e].created) = Candle /\ Candle' = Candle
        /\ \A d \in DOMAIN executors :
             Released(executors[d], now) => Released(executors'[d], now') /\ d \in DOMAIN executors'
    BY <1>6, CandleStays
  <2>2. lastEntryCandle = Candle \/ \E d \in DOMAIN executors : Released(executors[d], now)
    BY <2>1 DEF EntryInv, CandleInv
  <2>3. QED
    BY <2>1, <2>2
<1>7. CandleInv'
  BY <1>6 DEF CandleInv, CandleOf
<1>8. ASSUME UNCHANGED <<queue, now>> PROVE QueuedInv'
  <2> SUFFICES ASSUME Creating PROVE QueuedInv'
    BY <1>8 DEF QueuedInv, Creating
  <2>1. Candle' = Candle
    BY <1>8 DEF Candle
  <2>2. /\ \A i \in DOMAIN queue : \A a \in queue[i] : a.kind = "create" => a.created = now
        /\ cooldownUntil <= now /\ lastEntryCandle = Candle
    BY DEF EntryInv, QueuedInv
  <2>3. ASSUME NEW e \in DOMAIN executors
        PROVE  /\ Traded(executors'[e]) => Due(executors'[e]) <= cooldownUntil
               /\ CandleOf(executors'[e].created) = Candle
                  => \E d \in DOMAIN executors' : Released(executors'[d], now')
    <3>1. executors[e].ended /\ Keeps(e)
      BY DEF Inv, OneInv, Unfinished
    <3>2. Traded(executors[e]) => Due(executors[e]) <= cooldownUntil
      BY DEF EntryInv, QueuedInv
    <3>3. Traded(executors'[e]) => Due(executors'[e]) <= cooldownUntil
      BY <1>2, <3>1, <3>2, KeptFacts
    <3>4. CASE CandleOf(executors'[e].created) = Candle
      <4>1. CandleOf(executors[e].created) = Candle
        BY <2>1, <3>4, CandleStays
      <4>2. PICK d \in DOMAIN executors : Released(executors[d], now)
        BY <4>1 DEF EntryInv, QueuedInv
      <4>3. Released(executors'[d], now')
        BY <2>1, <3>4, <4>2, CandleStays
      <4>4. QED
        BY <3>3, <4>3
    <3>5. QED
      BY <3>3, <3>4
  <2>4. QED
    BY <1>8, <2>1, <2>2, <2>3 DEF QueuedInv, CandleOf
<1>9. QED
  BY <1>1, <1>3, <1>4, <1>5, <1>7, <1>8

LEMMA ExecutorActsEntry ==
  ASSUME Inv, EntryInv, NEW e \in DOMAIN executors, ExecutorActs(e)
  PROVE  EntryInv'
<1>1. UNCHANGED <<now, infos, queue, lastEntryCandle, cooldownUntil>>
  BY DEF ExecutorActs, EntryFills, HitsBarrier, Finishes, ForgetsFill, GivesUp, ExecutorStep,
         controllerVars
<1>2. PICK change \in Executor :
        executors' = [executors EXCEPT ![e] = change] /\ change.stored = executors[e].stored
  BY ExecutorActsIs
<1>3. DOMAIN executors' = DOMAIN executors /\ now \in Nat
      /\ \A f \in DOMAIN executors : executors'[f].stored = executors[f].stored
  BY <1>2 DEF Inv, TypeInv, Time
<1>4. \A f \in DOMAIN executors : Keeps(f)
  BY ExecutorKeeps
<1>5. /\ TimesInv' /\ WaitInv' /\ CandleInv' /\ TriedInv' /\ QueuedInv'
      /\ \A d, f \in DOMAIN executors' : d < f => executors'[d].ended
  BY <1>1, <1>3, <1>4, QuietEntry
<1>6. NewestInv'
  BY <1>1, <1>3, <1>5 DEF EntryInv, NewestInv
<1>7. InfosInv'
  <2>1. ASSUME NEW f \in DOMAIN infos, Done(infos[f]) PROVE Remembers(infos[f], executors'[f])
    <3>1. f \in DOMAIN executors /\ executors[f].ended /\ Remembers(infos[f], executors[f])
      BY <2>1 DEF Inv, SeenInv, EntryInv, InfosInv
    <3>2. QED
      BY <3>1, <1>4, RemembersOn DEF Keeps
  <2>2. QED
    BY <1>1, <2>1 DEF EntryInv, InfosInv
<1>8. QED
  BY <1>5, <1>6, <1>7 DEF EntryInv

LEMMA OutsideEntry ==
  ASSUME Inv, EntryInv, MarketOrderEnds \/ SeePosition \/ RequestClose \/ TimePasses \/ UNCHANGED vars
  PROVE  EntryInv'
<1>1. UNCHANGED <<executors, infos, queue, lastEntryCandle, cooldownUntil>>
  BY DEF MarketOrderEnds, SeePosition, RequestClose, TimePasses, vars, controllerVars
<1>2. now \in Nat /\ now' \in Nat /\ now' >= now /\ (now' = now \/ queue = <<>>)
  BY DEF Inv, TypeInv, Time, MarketOrderEnds, SeePosition, RequestClose, TimePasses, vars
<1>3. ASSUME NEW e \in DOMAIN executors PROVE Keeps(e)
  BY <1>1 DEF Keeps, Remembers, Inv, TypeInv
<1>4. /\ TimesInv' /\ WaitInv' /\ CandleInv' /\ TriedInv'
      /\ UNCHANGED <<queue, now>> => QueuedInv'
  BY <1>1, <1>2, <1>3, QuietEntry
<1>5. QueuedInv'
  <2>1. queue = <<>> => ~Creating'
    BY <1>1 DEF Creating
  <2>2. QED
    BY <1>1, <1>2, <1>4, <2>1 DEF QueuedInv
<1>6. NewestInv' /\ InfosInv'
  BY <1>1 DEF EntryInv, NewestInv, InfosInv
<1>7. QED
  BY <1>4, <1>5, <1>6 DEF EntryInv

LEMMA TickEntry == ASSUME Inv, EntryInv, Tick PROVE EntryInv'
<1>1. UNCHANGED <<now, queue, lastEntryCandle, cooldownUntil>> /\ now \in Nat
  BY DEF Tick, Inv, TypeInv, Time
<1>2. /\ \A e \in DOMAIN executors : Keeps(e)
      /\ DOMAIN executors' = DOMAIN executors
      /\ infos' = Listing(executors)
  BY TickKeeps, TickIs
<1>3. /\ TimesInv' /\ WaitInv' /\ CandleInv' /\ TriedInv' /\ QueuedInv'
      /\ \A d, f \in DOMAIN executors' : d < f => executors'[d].ended
  BY <1>1, <1>2, QuietEntry
<1>4. DOMAIN infos' = {e \in DOMAIN executors : ~executors[e].stored}
      /\ \A e \in DOMAIN infos' : infos'[e] = executors[e]
  BY <1>2 DEF Listing
<1>5. NewestInv'
  <2>1. ASSUME NEW e \in DOMAIN executors, \A d \in DOMAIN executors : d <= e
        PROVE  ~executors'[e].stored /\ e \in DOMAIN infos'
    <3>1. ~executors[e].stored
      BY <2>1 DEF EntryInv, NewestInv
    <3>2. QED
      BY <1>4, <2>1, <3>1, TickIs
  <2>2. QED
    BY <1>2, <1>3, <2>1 DEF NewestInv
<1>6. InfosInv'
  <2>1. ASSUME NEW e \in DOMAIN executors, Done(executors[e]) PROVE Remembers(executors[e], executors'[e])
    BY <1>2, <2>1 DEF Inv, EndsSoundly, Keeps
  <2>2. \A e \in DOMAIN executors : executors[e] \in Executor
    BY DEF Inv, TypeInv
  <2>3. QED
    BY <1>4, <2>1, <2>2 DEF InfosInv
<1>7. QED
  BY <1>3, <1>5, <1>6 DEF EntryInv

\* Who is new after a batch of actions was queued as a creation, of this moment.
LEMMA ListenIs ==
  ASSUME Inv, Listen
  PROVE  /\ queue' = <<>> /\ infos' = Listing(executors') /\ executors' \in Seq(Executor)
         /\ UNCHANGED <<now, lastEntryCandle, cooldownUntil>>
         /\ \A e \in DOMAIN executors : executors'[e].stored = executors[e].stored
         /\ \/ DOMAIN executors' = DOMAIN executors
            \/ /\ Creating
               /\ DOMAIN executors' = DOMAIN executors \cup {Len(executors) + 1}
               /\ \E a : /\ \E i \in DOMAIN queue : a \in queue[i]
                        /\ a.kind = "create" /\ executors'[Len(executors) + 1] = New(a)
<1> DEFINE actions == Head(queue)
           asked == {a.id : a \in {b \in actions : b.kind = "stop"}}
           stopped == [e \in DOMAIN executors |->
                         IF e \in asked /\ ~executors[e].stored THEN Stopped(executors[e]) ELSE executors[e]]
           new == {a \in actions : a.kind = "create"}
           length == Len(executors)
<1>1. /\ queue # <<>> /\ queue' = Tail(queue) /\ infos' = Listing(executors')
      /\ UNCHANGED <<now, lastEntryCandle, cooldownUntil>>
      /\ executors' = IF new = {} THEN stopped ELSE Append(stopped, New(CHOOSE a \in new : TRUE))
  BY DEF Listen, Executed
<1>2. Len(queue) = 1 /\ queue' = <<>> /\ actions = queue[1] /\ 1 \in DOMAIN queue
  <2>1. queue \in Seq(SUBSET AnyAction) /\ Len(queue) <= 1
    BY DEF Inv, OneInv, TypeInv
  <2>2. queue # <<>> /\ queue' = Tail(queue)
    BY <1>1
  <2>3. QED
    BY <2>1, <2>2, OneInQueue
<1>3. executors' \in Seq(Executor) /\ executors \in Seq(Executor)
  BY ListenInv DEF Inv, TypeInv
<1>4. \A e \in DOMAIN executors : executors'[e].stored = executors[e].stored
  <2>1. ASSUME NEW e \in DOMAIN executors PROVE executors'[e].stored = executors[e].stored
    <3>1. executors[e] \in Executor
      BY <1>3
    <3>2. QED
      BY <3>1, ListenKeeps, StoppedIs
  <2>2. QED
    BY <2>1
<1>5. DOMAIN stopped = 1..length /\ length \in Nat /\ DOMAIN executors = 1..length
  BY <1>3
<1>6. CASE new = {}
  <2>1. executors' = stopped
    BY <1>1, <1>6
  <2>2. QED
    BY <1>1, <1>2, <1>3, <1>4, <1>5, <2>1
<1>7. CASE new # {}
  <2> DEFINE a == CHOOSE b \in new : TRUE
  <2>1. a \in new
    BY <1>7
  <2>2. a \in queue[1] /\ a.kind = "create" /\ Creating
    BY <1>2, <2>1 DEF Creating
  <2>3. executors' = Append(stopped, New(a))
    BY <1>1, <1>7
  <2>4. Len(stopped) = length
    BY <1>5
  <2> HIDE DEF stopped, a, length
  <2>5. DOMAIN executors' = 1..(length + 1) /\ executors'[length + 1] = New(a)
    BY <1>5, <2>3, <2>4
  <2>6. DOMAIN executors' = DOMAIN executors \cup {length + 1}
    BY <1>5, <2>5
  <2>7. QED
    BY <1>1, <1>2, <1>3, <1>4, <2>2, <2>5, <2>6 DEF length
<1>8. QED
  BY <1>6, <1>7

LEMMA ListenEntry == ASSUME Inv, EntryInv, Listen PROVE EntryInv'
<1>1. /\ queue' = <<>> /\ infos' = Listing(executors') /\ executors' \in Seq(Executor)
      /\ UNCHANGED <<now, lastEntryCandle, cooldownUntil>>
      /\ \A e \in DOMAIN executors : executors'[e].stored = executors[e].stored
  BY ListenIs
<1>2. \A e \in DOMAIN executors : Keeps(e)
  BY ListenKeepsAll
<1>3. QueuedInv'
  BY <1>1 DEF QueuedInv, Creating
<1>4. /\ DOMAIN infos' = {e \in DOMAIN executors' : ~executors'[e].stored}
      /\ \A e \in DOMAIN infos' : infos'[e] = executors'[e]
  BY <1>1 DEF Listing
<1>5. InfosInv'
  BY <1>1, <1>4 DEF InfosInv, Remembers
<1>6. now \in Nat /\ cooldownUntil \in Int
  BY DEF Inv, TypeInv, Time, EntryInv, WaitInv
<1>7. CASE DOMAIN executors' = DOMAIN executors
  <2>1. /\ TimesInv' /\ WaitInv' /\ CandleInv' /\ TriedInv'
        /\ \A d, f \in DOMAIN executors' : d < f => executors'[d].ended
    BY <1>1, <1>2, <1>6, <1>7, QuietEntry
  <2>2. NewestInv'
    BY <1>1, <1>4, <1>7, <2>1 DEF EntryInv, NewestInv
  <2>3. QED
    BY <1>3, <1>5, <2>1, <2>2 DEF EntryInv
<1>8. CASE DOMAIN executors' # DOMAIN executors
  <2>0. PICK n \in Nat : n = Len(executors) + 1
    BY DEF Inv, TypeInv
  <2>1. /\ Creating /\ DOMAIN executors' = DOMAIN executors \cup {n}
        /\ \E a : /\ \E i \in DOMAIN queue : a \in queue[i]
                 /\ a.kind = "create" /\ executors'[n] = New(a)
    BY <1>8, <2>0, ListenIs
  <2>2. DOMAIN executors = 1..Len(executors) /\ Len(executors) \in Nat
    BY DEF Inv, TypeInv
  <2>3. n \in Nat /\ n \notin DOMAIN executors /\ DOMAIN executors = {e \in Nat : 0 < e /\ e < n}
    BY <2>0, <2>2
  <2>4. executors'[n].created = now /\ ~executors'[n].ended /\ ~executors'[n].stored
    BY <2>1 DEF New, EntryInv, QueuedInv
  <2>5. /\ cooldownUntil <= now /\ lastEntryCandle = Candle
        /\ \A e \in DOMAIN executors :
             /\ Traded(executors[e]) => Due(executors[e]) <= cooldownUntil
             /\ CandleOf(executors[e].created) = Candle
                => \E d \in DOMAIN executors : Released(executors[d], now)
    BY <2>1 DEF EntryInv, QueuedInv
  <2>6. \A e \in DOMAIN executors :
          /\ executors[e] \in Executor /\ executors[e].ended /\ Keeps(e) /\ TimesOf(e)
          /\ executors'[e].ended /\ executors'[e].created = executors[e].created
    BY <1>2, <2>1 DEF Inv, OneInv, Unfinished, TypeInv, EntryInv, TimesInv, Keeps
  <2>7. TimesInv'
    <3>1. \A e \in DOMAIN executors : TimesOf(e)'
      BY <1>1, <1>2, <1>6, TimesStay DEF EntryInv
    <3>2. TimesOf(n)'
      BY <1>1, <1>6, <2>4 DEF TimesOf
    <3>3. QED
      BY <2>1, <3>1, <3>2 DEF TimesInv
  <2>8. \A e, f \in DOMAIN executors :
          e < f => /\ TriedFor(e, f)'
                   /\ Traded(executors'[e]) => Due(executors'[e]) <= cooldownUntil'
    BY <1>1, <1>2, <1>6, PairsStay
  <2>9. ASSUME NEW e \in DOMAIN executors
        PROVE  Traded(executors'[e]) => Traded(executors[e]) /\ Due(executors'[e]) <= cooldownUntil'
    <3>1. /\ Traded(executors'[e]) => Traded(executors[e]) /\ Due(executors'[e]) <= Due(executors[e])
          /\ Due(executors[e]) \in Int /\ Due(executors'[e]) \in Int
      BY <2>6, KeptFacts
    <3>2. QED
      BY <1>1, <1>6, <2>5, <3>1
  <2>10. WaitInv'
    BY <1>1, <1>6, <2>1, <2>3, <2>8, <2>9 DEF WaitInv
  <2>11. CandleInv'
    BY <1>1, <2>5 DEF CandleInv, Candle
  <2>12. ASSUME NEW e \in DOMAIN executors PROVE TriedFor(e, n)'
    <3> SUFFICES ASSUME CandleOf(executors'[e].created) = CandleOf(executors'[n].created)
                 PROVE  /\ \E d \in DOMAIN executors' : d < n /\ Released(executors'[d], executors'[n].created)
                        /\ Cooldown >= CandleLength => ~Traded(executors'[e])
      BY DEF TriedFor, CandleOf
    <3>1. CandleOf(executors[e].created) = CandleOf(now)
      BY <2>4, <2>6
    <3>2. PICK d \in DOMAIN executors : Released(executors[d], now)
      BY <2>5, <3>1 DEF Candle, CandleOf
    <3>3. d \in DOMAIN executors' /\ Released(executors'[d], now)
      BY <1>2, <1>6, <3>2, ReleasedStays
    <3>4. d < n
      BY <2>3
    <3>5. ASSUME Cooldown >= CandleLength, Traded(executors'[e]) PROVE FALSE
      <4>1. Due(executors[e]) <= cooldownUntil /\ cooldownUntil <= now
        BY <2>5, <2>9, <3>5
      <4>2. /\ CooldownOf(executors[e]) \in Int /\ CooldownOf(executors[e]) >= Cooldown
            /\ executors[e].closed \in Int /\ executors[e].created \in Nat
            /\ Cooldown \in Int /\ CandleLength \in Nat
        BY <2>6, DurationsAre, TimeAssumption
      <4>3. executors[e].created <= executors[e].closed
        BY <2>6 DEF TimesOf
      <4>4. executors[e].created + CandleLength <= now
        BY <1>6, <3>5, <4>1, <4>2, <4>3 DEF Due
      <4>5. QED
        BY <1>6, <3>1, <4>2, <4>4, Apart
    <3>6. QED
      BY <2>4, <3>3, <3>4, <3>5
  <2>13. TriedInv'
    <3>1. ASSUME NEW e \in DOMAIN executors', NEW f \in DOMAIN executors' PROVE TriedFor(e, f)'
      <4>1. CASE ~(e < f)
        BY <4>1 DEF TriedFor
      <4>2. CASE e < f /\ f \in DOMAIN executors
        <5>1. e \in DOMAIN executors
          BY <2>1, <2>3, <4>2
        <5>2. QED
          BY <2>8, <4>2, <5>1
      <4>3. CASE e < f /\ f = n
        <5>1. e \in DOMAIN executors
          BY <2>1, <2>3, <4>3
        <5>2. QED
          BY <2>12, <4>3, <5>1
      <4>4. QED
        BY <2>1, <4>1, <4>2, <4>3
    <3>2. QED
      BY <3>1 DEF TriedInv
  <2>14. NewestInv'
    <3>1. \A e \in DOMAIN executors' : (\A d \in DOMAIN executors' : d <= e) => e = n
      BY <2>1, <2>3
    <3>2. \A e, f \in DOMAIN executors' : e < f => e \in DOMAIN executors
      BY <2>1, <2>3
    <3>3. n \in DOMAIN infos'
      BY <1>4, <2>1, <2>4
    <3>4. QED
      BY <2>4, <2>6, <3>1, <3>2, <3>3 DEF NewestInv
  <2>15. QED
    BY <1>3, <1>5, <2>7, <2>10, <2>11, <2>13, <2>14 DEF EntryInv
<1>9. QED
  BY <1>7, <1>8
-------------------------------------------------------------------------------
\* The facts about pairs and times do not depend on what the controller remembers of the candle.
LEMMA ControlKeeps ==
  ASSUME Inv, EntryInv, UNCHANGED <<now, executors, infos>>,
         cooldownUntil' \in Int, cooldownUntil' >= cooldownUntil
  PROVE  TimesInv' /\ InfosInv' /\ NewestInv' /\ WaitInv' /\ TriedInv'
<1>1. TimesInv' /\ InfosInv' /\ NewestInv'
  BY DEF EntryInv, TimesInv, TimesOf, InfosInv, NewestInv
<1>2. TriedInv'
  BY DEF EntryInv, TriedInv, TriedFor
<1>3. ASSUME NEW e \in DOMAIN executors, NEW f \in DOMAIN executors, e < f, Traded(executors[e])
      PROVE  Due(executors[e]) <= cooldownUntil'
  <2>1. executors[e] \in Executor /\ cooldownUntil \in Int /\ Due(executors[e]) <= cooldownUntil
    BY <1>3 DEF Inv, TypeInv, EntryInv, WaitInv
  <2>2. Due(executors[e]) \in Int
    BY <2>1, DurationsAre DEF Due
  <2>3. QED
    BY <2>1, <2>2
<1>4. QED
  BY <1>1, <1>2, <1>3 DEF WaitInv

\* A close or a withdrawal creates nothing.
LEMMA StopEntry ==
  ASSUME Inv, EntryInv, ManualClose \/ FixedTakeProfitHit \/ WithdrawEntry
  PROVE  EntryInv'
<1>1. UNCHANGED <<now, executors, infos, lastEntryCandle>> /\ queue = <<>>
  BY DEF ManualClose, FixedTakeProfitHit, WithdrawEntry, Decides, Awake
<1>2. now \in Nat /\ cooldownUntil \in Int /\ Cooldown \in Int
  BY TimeAssumption DEF Inv, TypeInv, Time, EntryInv, WaitInv
<1>3. cooldownUntil' = cooldownUntil \/ cooldownUntil' = Larger(cooldownUntil, now + Cooldown)
  BY DEF ManualClose, FixedTakeProfitHit, CloseEverything, WithdrawEntry
<1>4. cooldownUntil' \in Int /\ cooldownUntil' >= cooldownUntil
  BY <1>2, <1>3 DEF Larger
<1>5. \E ids : queue' = queue \/ queue' = Append(queue, StopActions(ids))
  BY DEF ManualClose, FixedTakeProfitHit, CloseEverything, WithdrawEntry, Send
<1>6. ~Creating'
  <2>1. PICK ids : queue' = queue \/ queue' = <<StopActions(ids)>>
    BY <1>1, <1>5
  <2>2. \A a \in StopActions(ids) : a.kind = "stop"
    BY DEF StopActions
  <2>3. QED
    BY <1>1, <2>1, <2>2 DEF Creating
<1>7. CandleInv'
  BY <1>1 DEF EntryInv, CandleInv, Candle
<1>8. QED
  BY <1>1, <1>4, <1>6, <1>7, ControlKeeps DEF EntryInv, QueuedInv

\* What _can_enter learns from the infos: cooldowns at least as long as what is due, and
\* which attempts released the candle.
LEMMA ConsideredFacts ==
  ASSUME Inv, EntryInv, NEW e \in DOMAIN infos, Done(infos[e])
  PROVE  /\ e \in DOMAIN executors /\ executors[e].ended
         /\ executors[e].closed = infos[e].closed
         /\ infos[e].closed + CooldownOf(infos[e]) \in Int
         /\ Traded(executors[e]) =>
              Traded(infos[e]) /\ Due(executors[e]) <= infos[e].closed + CooldownOf(infos[e])
<1>1. /\ e \in DOMAIN executors /\ executors[e] \in Executor /\ infos[e] \in Executor
      /\ executors[e].ended /\ Remembers(infos[e], executors[e])
  BY DEF Inv, SeenInv, TypeInv, EntryInv, InfosInv
<1>2. /\ CooldownOf(executors[e]) \in Int /\ CooldownOf(infos[e]) \in Int /\ infos[e].closed \in Int
      /\ Traded(executors[e]) =>
           Traded(infos[e]) /\ CooldownOf(executors[e]) <= CooldownOf(infos[e])
  BY <1>1, DurationsAre, RemembersTrade
<1>3. QED
  BY <1>1, <1>2 DEF Due, Remembers

LEMMA ConsiderEntryEntry == ASSUME Inv, EntryInv, ConsiderEntry PROVE EntryInv'
<1>1. PICK signal \in Signal \ {0} :
        /\ \E latest \in Cooldowns : (\A t \in Cooldowns : t <= latest) /\ cooldownUntil' = latest
        /\ \/ lastEntryCandle' = LastAttempt /\ Send({})
           \/ /\ CanEnter /\ lastEntryCandle' = Candle
              /\ Send({[kind |-> "create", side |-> signal, created |-> now]})
  BY DEF ConsiderEntry
<1>2. UNCHANGED <<now, executors, infos>> /\ queue = <<>> /\ Candle' = Candle
  BY DEF ConsiderEntry, Decides, Awake, Candle
<1>3. \A e \in Considered : e \in DOMAIN infos /\ Done(infos[e])
  <2>1. \A e \in DOMAIN infos : e \in Int
    BY DEF Inv, SeenInv, TypeInv
  <2>2. QED
    BY <2>1 DEF Considered
<1>4. cooldownUntil \in Int /\ now \in Nat
  BY DEF EntryInv, WaitInv, Inv, TypeInv, Time
<1>5. \A t \in Cooldowns : t \in Int /\ t <= cooldownUntil'
  <2>1. \A t \in Cooldowns : t <= cooldownUntil'
    BY <1>1
  <2>2. \A t \in Ends : t \in Int
    BY <1>3, ConsideredFacts DEF Ends
  <2>3. QED
    BY <1>4, <2>1, <2>2 DEF Cooldowns
<1>6. cooldownUntil' \in Int /\ cooldownUntil' >= cooldownUntil
  BY <1>1, <1>5 DEF Cooldowns
<1>7. TimesInv' /\ InfosInv' /\ NewestInv' /\ WaitInv' /\ TriedInv'
  BY <1>2, <1>6, ControlKeeps
<1>8. LastAttempt = lastEntryCandle \/ \E d \in DOMAIN executors : Released(executors[d], now)
  <2> SUFFICES ASSUME NEW d \in Considered, ~Traded(infos[d]), now >= infos[d].closed + Grace
               PROVE  Released(executors[d], now) /\ d \in DOMAIN executors
    BY DEF LastAttempt
  <2>1. d \in DOMAIN infos /\ Done(infos[d])
    BY <1>3
  <2>2. /\ d \in DOMAIN executors /\ executors[d].ended /\ executors[d].closed = infos[d].closed
        /\ ~Traded(executors[d]) /\ executors[d] \in Executor
    BY <2>1, ConsideredFacts DEF Inv, TypeInv
  <2>3. QED
    BY <1>4, <2>2, DurationsAre DEF Released
<1>9. CASE lastEntryCandle' = LastAttempt /\ Send({})
  <2>1. ~Creating'
    BY <1>2, <1>9 DEF Send, Creating
  <2>2. CandleInv'
    BY <1>2, <1>8, <1>9 DEF EntryInv, CandleInv
  <2>3. QED
    BY <1>7, <2>1, <2>2 DEF EntryInv, QueuedInv
<1>10. CASE /\ CanEnter /\ lastEntryCandle' = Candle
            /\ Send({[kind |-> "create", side |-> signal, created |-> now]})
  <2>1. CandleInv'
    BY <1>2, <1>10 DEF CandleInv
  <2>2. queue' = <<{[kind |-> "create", side |-> signal, created |-> now]}>>
    <3> DEFINE entry == {[kind |-> "create", side |-> signal, created |-> now]}
    <3>1. entry # {} /\ Send(entry)
      BY <1>10
    <3> HIDE DEF entry
    <3>2. queue' = Append(queue, entry)
      BY <3>1 DEF Send
    <3>3. queue' = <<entry>>
      BY <1>2, <3>2
    <3>4. QED
      BY <3>3 DEF entry
  <2>3. \A i \in DOMAIN queue' : \A a \in queue'[i] : a.created = now'
    BY <1>2, <2>2
  <2>4. cooldownUntil' <= now'
    BY <1>1, <1>2, <1>4, <1>5, <1>10 DEF CanEnter, CooledDown
  <2>5. ASSUME NEW e \in DOMAIN executors, Traded(executors[e])
        PROVE  Due(executors[e]) <= cooldownUntil'
    <3>1. CASE \E f \in DOMAIN executors : e < f
      BY <1>2, <1>7, <2>5, <3>1 DEF WaitInv
    <3>2. CASE ~\E f \in DOMAIN executors : e < f
      <4>1. \A d \in DOMAIN executors : d <= e
        BY <3>2 DEF Inv, TypeInv
      <4>2. e \in DOMAIN infos
        BY <4>1 DEF EntryInv, NewestInv
      <4>3. e \in Considered /\ Done(infos[e])
        BY <1>3, <1>10, <4>2 DEF CanEnter
      <4>4. Traded(infos[e]) /\ Due(executors[e]) <= infos[e].closed + CooldownOf(infos[e])
        BY <2>5, <4>2, <4>3, ConsideredFacts
      <4>5. infos[e].closed + CooldownOf(infos[e]) \in Cooldowns
        BY <4>3, <4>4 DEF Ends, Cooldowns
      <4>6. executors[e] \in Executor
        BY DEF Inv, TypeInv
      <4>7. Due(executors[e]) \in Int
        BY <4>6, DurationsAre DEF Due
      <4>8. QED
        BY <1>5, <1>6, <4>4, <4>5, <4>7
    <3>3. QED
      BY <3>1, <3>2
  <2>6. ASSUME NEW e \in DOMAIN executors, CandleOf(executors[e].created) = Candle
        PROVE  \E d \in DOMAIN executors : Released(executors[d], now)
    <3>1. lastEntryCandle = Candle \/ \E d \in DOMAIN executors : Released(executors[d], now)
      BY <2>6 DEF EntryInv, CandleInv
    <3>2. LastAttempt # Candle
      BY <1>10 DEF CanEnter
    <3>3. QED
      BY <1>8, <3>1, <3>2
  <2>7. QueuedInv'
    BY <1>2, <1>10, <2>3, <2>4, <2>5, <2>6 DEF QueuedInv
  <2>8. QED
    BY <1>7, <2>1, <2>7 DEF EntryInv
<1>11. QED
  BY <1>1, <1>9, <1>10

LEMMA NextEntry == ASSUME Inv, EntryInv, [Next]_vars PROVE EntryInv'
BY StopEntry, ConsiderEntryEntry, ListenEntry, TickEntry, ExecutorActsEntry, OutsideEntry
DEF Next, Control
-------------------------------------------------------------------------------
\* What is remembered, queued and listed is enough to know what was waited for.
THEOREM EntryInvariance == Spec => []EntryInv
<1>1. Inv /\ EntryInv /\ [Next]_vars => EntryInv'
  BY NextEntry
<1>2. QED
  BY InitEntry, <1>1, Invariance, PTL DEF Spec

\* Only listening enters.
LEMMA EntersByListening ==
  ASSUME Inv, [Next]_vars, NEW f, Entered(f)
  PROVE  Listen /\ Creating
<1>1. DOMAIN executors' # DOMAIN executors
  BY DEF Entered
<1>2. CASE Listen
  BY <1>1, <1>2, ListenIs
<1>3. CASE Tick
  BY <1>1, <1>3, TickIs
<1>4. CASE \E e \in DOMAIN executors : ExecutorActs(e)
  BY <1>1, <1>4, ExecutorActsIs
<1>5. CASE Control \/ MarketOrderEnds \/ SeePosition \/ RequestClose \/ TimePasses \/ UNCHANGED vars
  BY <1>1, <1>5 DEF Control, ManualClose, FixedTakeProfitHit, WithdrawEntry, ConsiderEntry,
                    MarketOrderEnds, SeePosition, RequestClose, TimePasses, vars
<1>6. QED
  BY <1>2, <1>3, <1>4, <1>5 DEF Next

\* No executor is entered before the cooldown of every trade there was is over, its executor
\* stored and forgotten or stopped again meanwhile, its info old or not.
THEOREM CooldownIsKept == Spec => CooldownKept
<1> DEFINE Kept == \A f \in Ids : Entered(f) =>
                     \A e \in DOMAIN executors :
                       Traded(executors[e]) /\ executors[e].ended =>
                         now - executors[e].closed
                           >= IF executors[e].closeType = "STOP_LOSS" THEN StopLossCooldown ELSE Cooldown
<1>1. ASSUME Inv, EntryInv, [Next]_vars PROVE Kept
  <2> SUFFICES ASSUME NEW f \in Ids, Entered(f),
                      NEW e \in DOMAIN executors, Traded(executors[e]), executors[e].ended
               PROVE  now - executors[e].closed >= CooldownOf(executors[e])
    BY DEF CooldownOf
  <2>1. Creating
    BY <1>1, EntersByListening
  <2>2. Due(executors[e]) <= cooldownUntil /\ cooldownUntil <= now /\ cooldownUntil \in Int
    BY <1>1, <2>1 DEF EntryInv, QueuedInv, WaitInv
  <2>3. executors[e] \in Executor /\ now \in Nat
    BY <1>1 DEF Inv, TypeInv, Time
  <2>4. QED
    BY <2>2, <2>3, DurationsAre DEF Due
<1>2. Inv /\ EntryInv /\ [Next]_vars => [Kept]_vars
  BY <1>1
<1> HIDE DEF Kept
<1>3. Spec => [][Kept]_vars
  BY Invariance, EntryInvariance, <1>2, PTL DEF Spec
<1>4. QED
  BY <1>3 DEF CooldownKept, Kept

\* A candle is tried again only after the grace of an attempt without a trade, and never after
\* a trade if the cooldown is as long as a candle.
THEOREM CandlesTriedOnce == Spec => []CandleTriedOnce
<1>1. ASSUME Inv, EntryInv PROVE CandleTriedOnce
  <2> SUFFICES ASSUME NEW e \in DOMAIN executors, NEW f \in DOMAIN executors, e < f,
                      CandleOf(executors[e].created) = CandleOf(executors[f].created)
               PROVE  /\ \E d \in 1..(f - 1) :
                           /\ ~Traded(executors[d])
                           /\ executors[f].created >= executors[d].closed + Grace
                      /\ Cooldown >= CandleLength => ~Traded(executors[e])
    BY DEF CandleTriedOnce, CandleOf
  <2>1. /\ \E d \in DOMAIN executors : d < f /\ Released(executors[d], executors[f].created)
        /\ Cooldown >= CandleLength => ~Traded(executors[e])
    BY <1>1 DEF EntryInv, TriedInv, TriedFor
  <2>2. PICK d \in DOMAIN executors : d < f /\ Released(executors[d], executors[f].created)
    BY <2>1
  <2>3. d \in 1..(f - 1) /\ executors[d] \in Executor /\ executors[f] \in Executor
    BY <1>1, <2>2 DEF Inv, TypeInv
  <2>4. executors[f].created >= executors[d].closed + Grace /\ ~Traded(executors[d])
    BY <2>2, <2>3, DurationsAre DEF Released
  <2>5. QED
    BY <2>1, <2>3, <2>4
<1>2. QED
  BY Invariance, EntryInvariance, <1>1, PTL
-------------------------------------------------------------------------------
\* Why account_positions may not show the position: no poll was since the start, or a market
\* order of the controller moved it, or an executor, for as long as it is unseen at most.
Excused ==
  \/ unseen = now
  \/ \E e \in DOMAIN executors :
       executors[e].left /\ ~executors[e].filled /\ now - executors[e].closed <= PositionDelay
Moved(executor) == (executor.filled \/ executor.left) /\ (executor.ended => executor.closed + unseen >= now)

Explained ==
  \/ position \in {0, seen} \/ unseen = now
  \/ cooldownUntil + unseen >= now + Cooldown
  \/ \E e \in DOMAIN executors : Moved(executors[e])

FlatInv ==
  /\ unseen \in 0..PositionDelay
  /\ closing # 0 => cooldownUntil >= now + Cooldown
  /\ \A e \in DOMAIN executors : executors[e].left => executors[e].ended
  /\ Explained
  /\ Creating /\ PositionDelay < Cooldown => position = 0 \/ Excused

LEMMA NumbersAre ==
  ASSUME Inv, EntryInv, FlatInv
  PROVE  /\ now \in Nat /\ cooldownUntil \in Int /\ unseen \in Nat /\ unseen <= PositionDelay
         /\ PositionDelay \in Nat /\ Cooldown \in Nat /\ Cooldown > 0
         /\ \A e \in DOMAIN executors : executors[e].closed \in Int
<1>1. now \in Nat /\ cooldownUntil \in Int
  BY DEF Inv, TypeInv, Time, EntryInv, WaitInv
<1>2. PositionDelay \in Nat /\ Cooldown \in Nat /\ Cooldown > 0
  BY TimeAssumption
<1>3. unseen \in Nat /\ unseen <= PositionDelay
  BY <1>2 DEF FlatInv
<1>4. \A e \in DOMAIN executors : executors[e] \in Executor
  BY DEF Inv, TypeInv
<1>5. QED
  BY <1>1, <1>2, <1>3, <1>4, DurationsAre

\* While a creation is queued all executors have ended, and nothing is in flight.
LEMMA QueuedIsQuiet ==
  ASSUME Inv, EntryInv, FlatInv, Creating
  PROVE  /\ closing = 0 /\ queue # <<>>
         /\ \A e \in DOMAIN executors : executors[e].ended
<1>1. cooldownUntil <= now
  BY DEF EntryInv, QueuedInv
<1>2. closing = 0
  BY <1>1, NumbersAre DEF FlatInv
<1>3. queue # <<>>
  BY DEF Creating
<1>4. QED
  BY <1>2, <1>3 DEF Inv, OneInv, Unfinished

\* Stops and storing change nothing here.
LEMMA StopKeepsFlat ==
  ASSUME Inv, EntryInv, FlatInv, Tick \/ Listen
  PROVE  FlatInv'
<1>1. UNCHANGED <<now, position, seen, unseen, closing, cooldownUntil>>
  BY DEF Tick, Listen, exchangeVars
<1>2. ASSUME NEW e \in DOMAIN executors
      PROVE  /\ e \in DOMAIN executors'
             /\ UNCHANGED <<executors[e].filled, executors[e].left,
                     executors[e].ended, executors[e].closed>>
  <2>1. executors[e] \in Executor
    BY DEF Inv, TypeInv
  <2>2. CASE Listen
    <3>1. e \in DOMAIN executors'
      BY <2>2, ListenKeepsAll DEF Keeps
    <3>2. executors'[e] = executors[e] \/ executors'[e] = Stopped(executors[e])
      BY <2>2, ListenKeeps
    <3>3. QED
      BY <2>1, <3>1, <3>2 DEF Stopped, Executor
  <2>3. CASE Tick
    BY <2>3, TickIs
  <2>4. QED
    BY <2>2, <2>3
<1>3. ASSUME NEW e \in DOMAIN executors', e \notin DOMAIN executors PROVE ~executors'[e].left
  <2>1. Listen
    BY <1>3, TickIs
  <2>2. \E a : executors'[e] = New(a)
    BY <1>3, <2>1, ListenIs
  <2>3. QED
    BY <2>2 DEF New
<1>4. Creating' => Creating
  BY TickIs, ListenIs DEF Creating
<1>5. Excused => Excused'
  BY <1>1, <1>2 DEF Excused
<1>6. Explained => Explained'
  BY <1>1, <1>2 DEF Explained, Moved
<1>7. QED
  BY <1>1, <1>2, <1>3, <1>4, <1>5, <1>6 DEF FlatInv

LEMMA InitFlat == Init => FlatInv
<1> SUFFICES ASSUME Init PROVE FlatInv
  OBVIOUS
<1>1. unseen = 0 /\ now = 0 /\ closing = 0 /\ executors = <<>> /\ queue = <<>>
  BY DEF Init
<1>2. PositionDelay \in Nat
  BY TimeAssumption
<1>3. QED
  BY <1>1, <1>2 DEF FlatInv, Explained, Creating

\* A position that moves is unseen for as long as the one before it, or from now on.
LEMMA MovesIs ==
  ASSUME Inv, EntryInv, FlatInv, Stays \/ \E p : Moves(p)
  PROVE  /\ unseen' \in 0..PositionDelay
         /\ position' # position => \E p : Moves(p)
<1>1. unseen' \in {0, unseen}
  BY DEF Stays, Moves
<1>2. QED
  BY <1>1, NumbersAre DEF FlatInv, Stays

\* An executor's step trades, gives up, or forgets.
LEMMA ExecutorActsFlat ==
  ASSUME Inv, EntryInv, FlatInv, NEW e \in DOMAIN executors, ExecutorActs(e)
  PROVE  FlatInv'
<1>1. UNCHANGED <<now, seen, closing, cooldownUntil, queue>>
  BY DEF ExecutorActs, EntryFills, HitsBarrier, Finishes, ForgetsFill, GivesUp, ExecutorStep,
         controllerVars
<1>2. executors[e] \in Executor /\ executors \in Seq(Executor) /\ ~executors[e].ended
      /\ ~executors[e].left
  BY ExecutorActsIs DEF Inv, TypeInv, FlatInv
<1>3. ~Creating /\ ~Creating'
  BY <1>1, <1>2, QueuedIsQuiet DEF Creating
<1>4. unseen' \in 0..PositionDelay
  <2>1. Stays \/ \E p : Moves(p)
    BY DEF ExecutorActs, EntryFills, HitsBarrier, Finishes, ForgetsFill, GivesUp
  <2>2. QED
    BY <2>1, MovesIs
<1>5. PICK change :
        /\ executors' = [executors EXCEPT ![e] = change]
        /\ change.left => change.ended
        /\ change.ended => change.closed = now
        /\ \/ change.filled \/ change.left
           \/ ~executors[e].filled /\ UNCHANGED <<position, unseen>>
  <2>1. CASE EntryFills(e)
    <3> DEFINE change == [executors[e] EXCEPT !.filled = TRUE]
    <3>1. change.filled /\ ~change.ended /\ ~change.left
      BY <1>2 DEF Executor
    <3>2. executors' = [executors EXCEPT ![e] = change]
      BY <2>1 DEF EntryFills, ExecutorStep
    <3> HIDE DEF change
    <3>3. QED
      BY <3>1, <3>2
  <2>2. CASE HitsBarrier(e)
    <3>1. PICK why \in Barrier :
            executors' = [executors EXCEPT ![e] =
              [executors[e] EXCEPT !.status = "SHUTTING_DOWN", !.closeType = why]]
      BY <2>2 DEF HitsBarrier, ExecutorStep
    <3> DEFINE change == [executors[e] EXCEPT !.status = "SHUTTING_DOWN", !.closeType = why]
    <3>2. change.filled = executors[e].filled /\ ~change.ended /\ ~change.left
      BY <1>2 DEF Executor
    <3>3. UNCHANGED <<position, unseen>> /\ executors' = [executors EXCEPT ![e] = change]
      BY <2>2, <3>1 DEF HitsBarrier, Stays
    <3> HIDE DEF change
    <3>4. QED
      BY <3>2, <3>3
  <2>3. CASE Finishes(e)
    <3> DEFINE change == Over(executors[e], executors[e].closeType)
    <3>1. change.filled = executors[e].filled /\ change.ended /\ change.closed = now
      BY <1>2 DEF Executor, Over
    <3>2. /\ executors' = [executors EXCEPT ![e] = change]
          /\ ~executors[e].filled => UNCHANGED <<position, unseen>>
      BY <2>3 DEF Finishes, ExecutorStep, Stays
    <3> HIDE DEF change
    <3>3. QED
      BY <3>1, <3>2
  <2>4. CASE ForgetsFill(e)
    <3> DEFINE change ==
          [Over(executors[e], executors[e].closeType) EXCEPT !.filled = FALSE, !.left = TRUE]
    <3>1. change.ended /\ change.left /\ change.closed = now
      BY <1>2 DEF Executor, Over
    <3>2. executors' = [executors EXCEPT ![e] = change]
      BY <2>4 DEF ForgetsFill, ExecutorStep
    <3> HIDE DEF change
    <3>3. QED
      BY <3>1, <3>2
  <2>5. CASE GivesUp(e)
    <3> DEFINE change == [Over(executors[e], "FAILED") EXCEPT !.left = executors[e].filled]
    <3>1. change.filled = executors[e].filled /\ change.ended /\ change.closed = now
      BY <1>2 DEF Executor, Over
    <3>2. executors' = [executors EXCEPT ![e] = change] /\ UNCHANGED <<position, unseen>>
      BY <2>5 DEF GivesUp, ExecutorStep, Stays
    <3> HIDE DEF change
    <3>3. QED
      BY <3>1, <3>2
  <2>6. QED
    BY <2>1, <2>2, <2>3, <2>4, <2>5 DEF ExecutorActs
<1>6. /\ DOMAIN executors' = DOMAIN executors /\ executors'[e] = change
      /\ \A f \in DOMAIN executors : f # e => executors'[f] = executors[f]
  BY <1>2, <1>5
<1>7. \A f \in DOMAIN executors' : executors'[f].left => executors'[f].ended
  BY <1>5, <1>6 DEF FlatInv
<1>8. Explained'
  <2>1. CASE change.filled \/ change.left
    <3>1. now + unseen' >= now
      BY <1>4, NumbersAre
    <3>2. Moved(executors[e])'
      BY <1>1, <1>5, <1>6, <2>1, <3>1 DEF Moved
    <3>3. QED
      BY <1>6, <3>2 DEF Explained
  <2>2. CASE ~executors[e].filled /\ UNCHANGED <<position, unseen>>
    <3>1. ASSUME NEW f \in DOMAIN executors, Moved(executors[f]) PROVE Moved(executors[f])'
      <4>1. f # e
        BY <1>2, <2>2, <3>1 DEF Moved
      <4>2. QED
        BY <1>1, <1>6, <2>2, <3>1, <4>1 DEF Moved
    <3>2. QED
      BY <1>1, <1>6, <2>2, <3>1 DEF FlatInv, Explained
  <2>3. QED
    BY <1>5, <2>1, <2>2
<1>9. QED
  BY <1>1, <1>3, <1>4, <1>7, <1>8 DEF FlatInv

\* Time passes while a position is unseen for as long as a poll takes at most; a market order
\* moves the position at the beginning of a cooldown.
LEMMA OutsideFlat ==
  ASSUME Inv, EntryInv, FlatInv,
         MarketOrderEnds \/ SeePosition \/ RequestClose \/ TimePasses \/ UNCHANGED vars
  PROVE  FlatInv'
<1>1. UNCHANGED <<executors, queue, cooldownUntil>> /\ Creating' = Creating
  BY DEF MarketOrderEnds, SeePosition, RequestClose, TimePasses, vars, controllerVars, Creating
<1>2. CASE MarketOrderEnds
  <2>1. now' = now /\ closing # 0 /\ cooldownUntil >= now + Cooldown
    BY <1>2 DEF MarketOrderEnds, FlatInv
  <2>2. ~Creating'
    BY <1>1, <2>1, QueuedIsQuiet
  <2>3. unseen' \in 0..PositionDelay
    <3>1. Stays \/ \E p : Moves(p)
      BY <1>2 DEF MarketOrderEnds
    <3>2. QED
      BY <3>1, MovesIs
  <2>4. cooldownUntil' + unseen' >= now' + Cooldown
    BY <1>1, <2>1, <2>3, NumbersAre
  <2>5. QED
    BY <1>1, <2>1, <2>2, <2>3, <2>4 DEF FlatInv, Explained
<1>3. CASE SeePosition
  BY <1>1, <1>3 DEF SeePosition, FlatInv, Excused, Explained
<1>4. CASE TimePasses
  <2>1. closing' = 0 /\ now' = now + 1 /\ UNCHANGED <<position, seen>>
    BY <1>4 DEF TimePasses
  <2>2. ~Creating'
    BY <1>1, <1>4, QueuedIsQuiet DEF TimePasses
  <2>3. unseen' \in 0..PositionDelay
    BY <1>4, NumbersAre DEF TimePasses
  <2>4. Explained'
    <3>1. CASE position \in {0, seen}
      BY <2>1, <3>1 DEF Explained
    <3>2. CASE position \notin {0, seen}
      <4>1. unseen' = unseen + 1
        BY <1>4, <3>2 DEF TimePasses
      <4>2. ASSUME NEW e \in DOMAIN executors, Moved(executors[e]) PROVE Moved(executors[e])'
        BY <1>1, <2>1, <4>1, <4>2, NumbersAre DEF Moved
      <4>3. CASE unseen = now
        BY <2>1, <4>1, <4>3 DEF Explained
      <4>4. CASE cooldownUntil + unseen >= now + Cooldown
        <5>1. cooldownUntil' + unseen' >= now' + Cooldown
          BY <1>1, <2>1, <4>1, <4>4, NumbersAre
        <5>2. QED
          BY <5>1 DEF Explained
      <4>5. CASE \E e \in DOMAIN executors : Moved(executors[e])
        BY <1>1, <4>2, <4>5 DEF Explained
      <4>6. QED
        BY <3>2, <4>3, <4>4, <4>5 DEF FlatInv, Explained
    <3>3. QED
      BY <3>1, <3>2
  <2>5. QED
    BY <1>1, <2>1, <2>2, <2>3, <2>4 DEF FlatInv
<1>5. CASE RequestClose \/ UNCHANGED vars
  <2>1. UNCHANGED <<now, exchangeVars, executors, queue, cooldownUntil>>
    BY <1>5 DEF RequestClose, vars, controllerVars, exchangeVars
  <2>2. QED
    BY <1>1, <2>1 DEF FlatInv, exchangeVars, Excused, Explained, Moved
<1>6. QED
  BY <1>2, <1>3, <1>4, <1>5

\* A close begins a cooldown; an entry is decided on a position that nobody moves, and that a
\* poll would show before a cooldown is over.
LEMMA ControlFlat == ASSUME Inv, EntryInv, FlatInv, Control PROVE FlatInv'
<1>1. UNCHANGED <<now, executors, position, seen, unseen>> /\ queue = <<>> /\ ~Creating
  BY DEF Control, ManualClose, FixedTakeProfitHit, CloseEverything, WithdrawEntry, ConsiderEntry,
         Decides, Awake, exchangeVars, Creating
<1>2. EntryInv' /\ Inv'
  BY StopEntry, ConsiderEntryEntry, ControlInv DEF Control
<1>3. cooldownUntil' \in Int
  BY <1>2 DEF EntryInv, WaitInv
<1>4. Excused' = Excused
  BY <1>1 DEF Excused
<1>5. ASSUME cooldownUntil' >= cooldownUntil PROVE Explained'
  <2>1. cooldownUntil + unseen >= now + Cooldown => cooldownUntil' + unseen >= now + Cooldown
    BY <1>3, <1>5, NumbersAre
  <2>2. QED
    BY <1>1, <2>1 DEF FlatInv, Explained, Moved
<1>6. CASE ManualClose \/ FixedTakeProfitHit
  <2>1. cooldownUntil' = Larger(cooldownUntil, now + Cooldown)
    BY <1>6 DEF ManualClose, FixedTakeProfitHit, CloseEverything
  <2>2. cooldownUntil' >= now + Cooldown /\ cooldownUntil' >= cooldownUntil
    BY <2>1, NumbersAre DEF Larger
  <2>3. cooldownUntil' > now'
    BY <1>1, <1>3, <2>2, NumbersAre
  <2>4. ~Creating'
    BY <1>2, <1>3, <2>3, <1>1, NumbersAre DEF EntryInv, QueuedInv
  <2>5. QED
    BY <1>1, <1>5, <2>2, <2>4 DEF FlatInv
<1>7. CASE WithdrawEntry
  <2>1. UNCHANGED <<closing, cooldownUntil>>
    BY <1>7 DEF WithdrawEntry, exchangeVars
  <2>2. ~Creating'
    <3>1. \E ids : queue' = queue \/ queue' = <<StopActions(ids)>>
      BY <1>1, <1>7 DEF WithdrawEntry, Send
    <3>2. QED
      BY <1>1, <3>1 DEF Creating, StopActions
  <2>3. cooldownUntil' >= cooldownUntil
    BY <2>1, NumbersAre
  <2>4. QED
    BY <1>1, <1>5, <2>1, <2>2, <2>3 DEF FlatInv
<1>8. CASE ConsiderEntry
  <2>1. closing' = closing /\ cooldownUntil' >= cooldownUntil
    BY <1>8 DEF ConsiderEntry, exchangeVars, Cooldowns
  <2>2. closing' # 0 => cooldownUntil' >= now' + Cooldown
    BY <1>1, <1>3, <2>1, NumbersAre DEF FlatInv
  <2>3. ASSUME Creating', PositionDelay < Cooldown PROVE position' = 0 \/ Excused'
    <3>1. seen = 0
      <4>1. CASE CanEnter
        BY <4>1 DEF CanEnter
      <4>2. CASE ~CanEnter
        <5>1. Send({})
          BY <1>8, <4>2 DEF ConsiderEntry
        <5>2. QED
          BY <1>1, <2>3, <5>1 DEF Send, Creating
      <4>3. QED
        BY <4>1, <4>2
    <3>2. cooldownUntil' <= now /\ unseen < Cooldown
      BY <1>1, <1>2, <2>3, NumbersAre DEF EntryInv, QueuedInv
    <3>3. ~(cooldownUntil + unseen >= now + Cooldown)
      BY <1>3, <2>1, <3>2, NumbersAre
    <3>4. ASSUME NEW e \in DOMAIN executors, Moved(executors[e]) PROVE Excused
      <4>1. executors'[e] = executors[e] /\ executors[e] \in Executor
        BY <1>1 DEF Inv, TypeInv
      <4>2. executors[e].ended
        BY <1>1, <1>2, <2>3 DEF Inv, OneInv, Unfinished
      <4>3. executors[e].closed + unseen >= now /\ (executors[e].filled \/ executors[e].left)
        BY <3>4, <4>2 DEF Moved
      <4>4. ~executors[e].filled
        <5> SUFFICES ASSUME executors[e].filled PROVE FALSE
          OBVIOUS
        <5>1. Due(executors[e]) <= cooldownUntil'
          BY <1>1, <1>2, <2>3, <4>1 DEF EntryInv, QueuedInv, Traded
        <5>2. CooldownOf(executors[e]) \in Int /\ CooldownOf(executors[e]) >= Cooldown
          BY <4>1, DurationsAre
        <5>3. QED
          BY <1>3, <3>2, <4>3, <5>1, <5>2, NumbersAre DEF Due
      <4>5. now - executors[e].closed <= PositionDelay
        BY <4>3, NumbersAre
      <4>6. QED
        BY <4>3, <4>4, <4>5 DEF Excused
    <3>5. position = 0 \/ Excused
      BY <3>1, <3>3, <3>4 DEF FlatInv, Explained, Excused
    <3>6. QED
      BY <1>1, <1>4, <3>5
  <2>4. QED
    BY <1>1, <1>5, <2>1, <2>2, <2>3 DEF FlatInv
<1>9. QED
  BY <1>6, <1>7, <1>8 DEF Control

THEOREM FlatInvariance == Spec => []FlatInv
<1>1. Inv /\ EntryInv /\ FlatInv /\ [Next]_vars => FlatInv'
  BY ControlFlat, StopKeepsFlat, ExecutorActsFlat, OutsideFlat DEF Next
<1>2. QED
  BY InitFlat, <1>1, Invariance, EntryInvariance, PTL DEF Spec

\* Nothing is entered on top of a position, whatever executors and the controller's own
\* orders do before the entry and however late account_positions shows it, if the cooldown is
\* longer than a poll takes; but for the two exceptions it names.
THEOREM EntersOnFlat == Spec => EntersFlat
<1> DEFINE Flat == \A f \in Ids : Entered(f) /\ PositionDelay < Cooldown =>
                     \/ position = 0
                     \/ unseen = now
                     \/ \E e \in DOMAIN executors :
                          executors[e].left /\ ~executors[e].filled
                            /\ now - executors[e].closed <= PositionDelay
<1>1. ASSUME Inv, EntryInv, FlatInv, [Next]_vars PROVE Flat
  BY <1>1, EntersByListening DEF FlatInv, Excused
<1>2. Inv /\ EntryInv /\ FlatInv /\ [Next]_vars => [Flat]_vars
  BY <1>1
<1> HIDE DEF Flat
<1>3. Spec => [][Flat]_vars
  BY Invariance, EntryInvariance, FlatInvariance, <1>2, PTL DEF Spec
<1>4. QED
  BY <1>3 DEF EntersFlat, Flat
-------------------------------------------------------------------------------
\* The rest of the types: a creation is queued only if there is room for one more executor.
BoundsInv ==
  /\ {position, seen, closing} \subseteq Int /\ closes \in 0..MaxCloses
  /\ Len(executors) <= MaxExecutors /\ (Creating => Len(executors) < MaxExecutors)
  /\ queue \in Seq(SUBSET Action)
  /\ lastEntryCandle \in Time \cup {NoCandle} /\ cooldownUntil \in Nat
  /\ {updated, closeRequest, killSwitch, exited} \subseteq BOOLEAN

LEMMA InitBounds == Init => BoundsInv
<1> SUFFICES ASSUME Init PROVE BoundsInv
  OBVIOUS
<1>1. Len(executors) = 0 /\ queue \in Seq(SUBSET Action) /\ ~Creating
  BY EmptySeq DEF Init, Creating
<1>2. {position, seen, closing} \subseteq Int /\ closes \in 0..MaxCloses /\ 0 <= MaxExecutors
  BY BoundAssumption DEF Init
<1>3. /\ lastEntryCandle \in Time \cup {NoCandle} /\ cooldownUntil \in Nat
      /\ {updated, closeRequest, killSwitch, exited} \subseteq BOOLEAN
  BY DEF Init
<1>4. QED
  BY <1>1, <1>2, <1>3 DEF BoundsInv

LEMMA CandleIsATime == ASSUME Inv PROVE Candle \in Time
<1>1. now \in Nat /\ now <= MaxTime /\ MaxTime \in Nat /\ CandleLength \in Nat \ {0}
  BY TimeAssumption DEF Inv, TypeInv, Time
<1>2. now \div CandleLength \in Nat /\ now \div CandleLength <= now
  BY <1>1
<1>3. QED
  BY <1>1, <1>2 DEF Candle, Time

\* Sending some actions, of which a creation only when there is room.
LEMMA SendBounds ==
  ASSUME BoundsInv, queue = <<>>, NEW actions \in SUBSET Action, Send(actions),
         executors' = executors,
         (\E a \in actions : a.kind = "create") => Len(executors) < MaxExecutors
  PROVE  /\ queue' \in Seq(SUBSET Action) /\ updated' \in BOOLEAN
         /\ Creating' => Len(executors') < MaxExecutors
<1>1. CASE actions = {}
  <2>1. UNCHANGED <<queue, updated>>
    BY <1>1 DEF Send
  <2>2. QED
    BY <2>1 DEF BoundsInv, Creating
<1>2. CASE actions # {}
  <2>1. queue' = <<actions>> /\ updated' = FALSE
    BY <1>2 DEF Send
  <2>2. queue' \in Seq(SUBSET Action) /\ \A i \in DOMAIN queue' : queue'[i] = actions
    BY <2>1
  <2>3. Creating' => \E a \in actions : a.kind = "create"
    BY <2>2, Zenon DEF Creating
  <2>4. QED
    BY <2>1, <2>2, <2>3
<1>3. QED
  BY <1>1, <1>2

LEMMA StopsAreActions ==
  ASSUME Inv, BoundsInv, NEW ids \in SUBSET DOMAIN infos
  PROVE  StopActions(ids) \in SUBSET Action /\ \A a \in StopActions(ids) : a.kind # "create"
<1>1. \A e \in ids : e \in Ids
  BY BoundAssumption DEF Inv, SeenInv, TypeInv, BoundsInv, Ids
<1>2. QED
  BY <1>1 DEF StopActions, Action

LEMMA ControlBounds == ASSUME Inv, EntryInv, BoundsInv, Control PROVE BoundsInv'
<1>1. UNCHANGED <<now, executors, position, seen, killSwitch, exited>> /\ queue = <<>>
  BY DEF Control, ManualClose, FixedTakeProfitHit, CloseEverything, WithdrawEntry, ConsiderEntry,
         Decides, Awake, exchangeVars
<1>2. now \in Nat /\ cooldownUntil \in Nat /\ Cooldown \in Nat /\ MaxCloses \in Nat
  BY TimeAssumption, BoundAssumption DEF Inv, TypeInv, Time, BoundsInv
<1>3. CASE ManualClose \/ FixedTakeProfitHit
  <2>1. /\ closes' = closes + 1 /\ closes < MaxCloses
        /\ cooldownUntil' = Larger(cooldownUntil, now + Cooldown)
        /\ closing' = closing \/ closing' = closing - seen
        /\ lastEntryCandle' = lastEntryCandle /\ (closeRequest' = closeRequest \/ closeRequest' = FALSE)
        /\ Send(StopActions({e \in DOMAIN infos : Active(infos[e])}))
    BY <1>3 DEF ManualClose, FixedTakeProfitHit, CloseEverything
  <2>2. queue' \in Seq(SUBSET Action) /\ updated' \in BOOLEAN /\ (Creating' => Len(executors') < MaxExecutors)
    <3> DEFINE ids == {e \in DOMAIN infos : Active(infos[e])}
    <3>1. StopActions(ids) \in SUBSET Action /\ \A a \in StopActions(ids) : a.kind # "create"
      BY StopsAreActions
    <3>2. QED
      BY <1>1, <2>1, <3>1, SendBounds
  <2>3. cooldownUntil' \in Nat
    BY <1>2, <2>1 DEF Larger
  <2>4. {position', seen', closing'} \subseteq Int /\ closes' \in 0..MaxCloses
    BY <1>1, <1>2, <2>1 DEF BoundsInv
  <2>5. {updated', closeRequest', killSwitch', exited'} \subseteq BOOLEAN
    BY <1>1, <2>1, <2>2 DEF BoundsInv
  <2>6. Len(executors') <= MaxExecutors /\ lastEntryCandle' \in Time \cup {NoCandle}
    BY <1>1, <2>1 DEF BoundsInv
  <2>7. QED
    BY <2>2, <2>3, <2>4, <2>5, <2>6 DEF BoundsInv
<1>4. CASE WithdrawEntry
  <2>1. PICK signal \in Signal : Send(StopActions(ToWithdraw(signal)))
    BY <1>4 DEF WithdrawEntry
  <2>2. StopActions(ToWithdraw(signal)) \in SUBSET Action
        /\ \A a \in StopActions(ToWithdraw(signal)) : a.kind # "create"
    BY StopsAreActions DEF ToWithdraw
  <2>3. queue' \in Seq(SUBSET Action) /\ updated' \in BOOLEAN /\ (Creating' => Len(executors') < MaxExecutors)
    BY <1>1, <2>1, <2>2, SendBounds
  <2>4. UNCHANGED <<closing, closes, lastEntryCandle, cooldownUntil, closeRequest>>
    BY <1>4 DEF WithdrawEntry, exchangeVars
  <2>5. QED
    BY <1>1, <2>3, <2>4 DEF BoundsInv
<1>5. CASE ConsiderEntry
  <2>1. PICK signal \in Signal \ {0} :
          /\ cooldownUntil' \in Cooldowns /\ \A t \in Cooldowns : t <= cooldownUntil'
          /\ \/ lastEntryCandle' = LastAttempt /\ Send({})
             \/ /\ Len(executors) < MaxExecutors /\ lastEntryCandle' = Candle
                /\ Send({[kind |-> "create", side |-> signal, created |-> now]})
    BY <1>5 DEF ConsiderEntry
  <2>2. cooldownUntil' \in Nat
    <3>1. cooldownUntil' \in Int
      BY <1>5, ConsiderEntryEntry DEF EntryInv, WaitInv
    <3>2. cooldownUntil' >= cooldownUntil
      BY <2>1 DEF Cooldowns
    <3>3. QED
      BY <1>2, <3>1, <3>2
  <2>3. lastEntryCandle' \in Time \cup {NoCandle}
    BY <2>1, CandleIsATime DEF LastAttempt, BoundsInv
  <2>4. queue' \in Seq(SUBSET Action) /\ updated' \in BOOLEAN /\ (Creating' => Len(executors') < MaxExecutors)
    <3>1. CASE Send({})
      BY <1>1, <3>1, SendBounds
    <3>2. CASE /\ Len(executors) < MaxExecutors
               /\ Send({[kind |-> "create", side |-> signal, created |-> now]})
      <4> DEFINE entry == {[kind |-> "create", side |-> signal, created |-> now]}
      <4>1. entry \in SUBSET Action
        <5>1. signal \in {-1, 1} /\ now \in Time
          BY SignalAssumption DEF Inv, TypeInv
        <5>2. [kind |-> "create", side |-> signal, created |-> now]
                \in [kind : {"create"}, side : {-1, 1}, created : Time]
          BY <5>1
        <5>3. QED
          BY <5>2 DEF Action
      <4>2. Send(entry) /\ Len(executors) < MaxExecutors
        BY <3>2
      <4> HIDE DEF entry
      <4>3. QED
        BY <1>1, <4>1, <4>2, SendBounds
    <3>3. QED
      BY <2>1, <3>1, <3>2
  <2>5. UNCHANGED <<closing, closes, closeRequest>>
    BY <1>5 DEF ConsiderEntry, exchangeVars
  <2>6. QED
    BY <1>1, <2>2, <2>3, <2>4, <2>5 DEF BoundsInv
<1>6. QED
  BY <1>3, <1>4, <1>5 DEF Control

LEMMA ListenBounds == ASSUME Inv, BoundsInv, Listen PROVE BoundsInv'
<1>1. /\ queue' = <<>> /\ executors' \in Seq(Executor) /\ UNCHANGED <<lastEntryCandle, cooldownUntil>>
      /\ \/ DOMAIN executors' = DOMAIN executors
         \/ Creating /\ DOMAIN executors' = DOMAIN executors \cup {Len(executors) + 1}
  BY ListenIs
<1>2. UNCHANGED <<position, seen, closing, closes, closeRequest, killSwitch, exited>> /\ updated' = TRUE
  BY DEF Listen, exchangeVars
<1>3. queue' \in Seq(SUBSET Action) /\ ~Creating'
  BY <1>1, EmptySeq DEF Creating
<1>4. Len(executors') <= MaxExecutors
  <2>1. /\ Len(executors) \in Nat /\ DOMAIN executors = 1..Len(executors)
        /\ Len(executors') \in Nat /\ DOMAIN executors' = 1..Len(executors')
    BY <1>1 DEF Inv, TypeInv
  <2>2. Len(executors) <= MaxExecutors /\ (Creating => Len(executors) < MaxExecutors) /\ MaxExecutors \in Nat
    BY BoundAssumption DEF BoundsInv
  <2>3. Len(executors') = 0 \/ Len(executors') \in DOMAIN executors'
    BY <2>1
  <2>4. CASE DOMAIN executors' = DOMAIN executors
    <3>1. Len(executors') <= Len(executors)
      BY <2>1, <2>3, <2>4
    <3>2. QED
      BY <2>1, <2>2, <3>1
  <2>5. CASE Creating /\ DOMAIN executors' = DOMAIN executors \cup {Len(executors) + 1}
    <3>1. Len(executors') <= Len(executors) + 1
      BY <2>1, <2>3, <2>5
    <3>2. QED
      BY <2>1, <2>2, <2>5, <3>1
  <2>6. QED
    BY <1>1, <2>4, <2>5
<1>5. QED
  BY <1>1, <1>2, <1>3, <1>4 DEF BoundsInv

LEMMA TickBounds == ASSUME Inv, BoundsInv, Tick PROVE BoundsInv'
<1>1. /\ queue' = queue /\ executors' \in Seq(Executor) /\ DOMAIN executors' = DOMAIN executors
  BY TickIs
<1>2. /\ UNCHANGED <<position, seen, closing, closes, lastEntryCandle, cooldownUntil, closeRequest>>
      /\ updated' = TRUE /\ killSwitch' \in BOOLEAN /\ (exited' = exited \/ exited' = TRUE)
  BY DEF Tick, exchangeVars, BoundsInv
<1>3. Len(executors') = Len(executors)
  BY <1>1 DEF Inv, TypeInv
<1>4. QED
  BY <1>1, <1>2, <1>3 DEF BoundsInv, Creating

LEMMA EnvironmentBounds ==
  ASSUME Inv, BoundsInv,
         \/ \E e \in DOMAIN executors : ExecutorActs(e)
         \/ MarketOrderEnds \/ SeePosition \/ RequestClose \/ TimePasses \/ UNCHANGED vars
  PROVE  BoundsInv'
<1>1. UNCHANGED <<closes, queue, updated, lastEntryCandle, cooldownUntil, killSwitch, exited>>
  BY DEF ExecutorActs, EntryFills, HitsBarrier, Finishes, ForgetsFill, GivesUp, ExecutorStep,
         MarketOrderEnds, SeePosition, RequestClose, TimePasses, vars, controllerVars, exchangeVars
<1>2. position \in Int /\ seen \in Int /\ closing \in Int
  BY DEF BoundsInv
<1>3. position' \in Int
  <2>1. CASE \E e \in DOMAIN executors : ExecutorActs(e)
    <3>1. PICK e \in DOMAIN executors : ExecutorActs(e)
      BY <2>1
    <3>2. executors[e].side \in Int
      <4>1. executors[e] \in Executor
        BY DEF Inv, TypeInv
      <4>2. QED
        BY <4>1 DEF Executor
    <3>3. position' \in {position, position + executors[e].side, position - executors[e].side}
      BY <3>1 DEF ExecutorActs, EntryFills, HitsBarrier, Finishes, ForgetsFill, GivesUp, Moves, Stays
    <3>4. QED
      BY <1>2, <3>2, <3>3
  <2>2. CASE MarketOrderEnds
    BY <1>2, <2>2 DEF MarketOrderEnds, Moves, Stays
  <2>3. CASE SeePosition \/ RequestClose \/ TimePasses \/ UNCHANGED vars
    BY <1>2, <2>3 DEF SeePosition, RequestClose, TimePasses, vars, exchangeVars
  <2>4. QED
    BY <2>1, <2>2, <2>3
<1>4. seen' \in {seen, position} /\ closing' \in Int
  <2>1. CASE MarketOrderEnds
    BY <1>2, <2>1 DEF MarketOrderEnds
  <2>2. CASE ~MarketOrderEnds
    <3>1. closing' = closing /\ seen' \in {seen, position}
      BY <2>2 DEF ExecutorActs, EntryFills, HitsBarrier, Finishes, ForgetsFill, GivesUp, ExecutorStep,
                  SeePosition, RequestClose, TimePasses, vars, exchangeVars
    <3>2. QED
      BY <1>2, <3>1
  <2>3. QED
    BY <2>1, <2>2
<1>5. closeRequest' = closeRequest \/ closeRequest' = TRUE
  BY DEF ExecutorActs, EntryFills, HitsBarrier, Finishes, ForgetsFill, GivesUp, ExecutorStep,
         MarketOrderEnds, SeePosition, RequestClose, TimePasses, vars, controllerVars
<1>6. Len(executors') = Len(executors)
  <2>1. CASE \E e \in DOMAIN executors : ExecutorActs(e)
    <3>1. PICK e \in DOMAIN executors : ExecutorActs(e)
      BY <2>1
    <3>2. \E change : executors' = [executors EXCEPT ![e] = change]
      BY <3>1, ExecutorActsIs
    <3>3. QED
      BY <3>2 DEF Inv, TypeInv
  <2>2. CASE MarketOrderEnds \/ SeePosition \/ RequestClose \/ TimePasses \/ UNCHANGED vars
    BY <2>2 DEF MarketOrderEnds, SeePosition, RequestClose, TimePasses, vars
  <2>3. QED
    BY <2>1, <2>2
<1>7. {updated', closeRequest', killSwitch', exited'} \subseteq BOOLEAN
  BY <1>1, <1>5 DEF BoundsInv
<1>8. {position', seen', closing'} \subseteq Int
  BY <1>2, <1>3, <1>4
<1>9. Creating' = Creating
  BY <1>1 DEF Creating
<1>10. QED
  BY <1>1, <1>6, <1>7, <1>8, <1>9 DEF BoundsInv

\* Type correctness.
THEOREM TypesAreKept == Spec => []TypeOK
<1>1. Inv /\ EntryInv /\ BoundsInv /\ [Next]_vars => BoundsInv'
  BY ControlBounds, ListenBounds, TickBounds, EnvironmentBounds DEF Next
<1>2. ASSUME Inv, EntryInv, FlatInv, BoundsInv PROVE TypeOK
  BY <1>2 DEF TypeOK, Inv, TypeInv, SeenInv, EntryInv, InfosInv, FlatInv, BoundsInv
<1>3. QED
  BY InitBounds, <1>1, <1>2, Invariance, EntryInvariance, FlatInvariance, PTL DEF Spec
===============================================================================
