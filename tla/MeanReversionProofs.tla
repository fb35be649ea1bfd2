-------------------------- MODULE MeanReversionProofs --------------------------
(***************************************************************************)
(* Proofs about MeanReversion, for every duration, every buffer and every  *)
(* number of executors: the controller decides on old infos, and yet it    *)
(* never has two executors.                                                *)
(***************************************************************************)
EXTENDS MeanReversion, FiniteSetTheorems, SequenceTheorems, TLAPS

AnyAction == [kind : {"create"}, side : {-1, 1}, created : Time] \cup [kind : {"stop"}, id : Nat]

Creating == \E i \in DOMAIN queue : \E a \in queue[i] : a.kind = "create"

TypeInv ==
  /\ now \in Time
  /\ executors \in Seq(Executor)
  /\ queue \in Seq(SUBSET AnyAction)

\* Executors are done or stored when they have ended only.
EndsSoundly(executor) == Done(executor) \/ executor.stored => executor.ended

\* What is not listed has ended, and so has what an info says is done, however old it is.
SeenInv ==
  /\ DOMAIN infos \subseteq DOMAIN executors
  /\ \A e \in DOMAIN infos : Done(infos[e]) => executors[e].ended
  /\ Unfinished \subseteq DOMAIN infos

\* The controller is never more than one batch of actions ahead.
OneInv ==
  /\ Len(queue) <= 1
  /\ Creating => Unfinished = {}
  /\ \A e, f \in Unfinished : e = f

Inv == TypeInv /\ (\A e \in DOMAIN executors : EndsSoundly(executors[e])) /\ SeenInv /\ OneInv

\* What a step may do to an executor that there is.
Change(e) ==
  \/ UNCHANGED <<executors[e].status, executors[e].closeType, executors[e].ended>>
  \/ Lifecycle(e)!Next
-------------------------------------------------------------------------------
LEMMA InitInv == Init => Inv
<1> SUFFICES ASSUME Init PROVE Inv
  OBVIOUS
<1>1. now = 0 /\ executors = <<>> /\ infos = <<>> /\ queue = <<>>
  BY DEF Init
<1>2. 0 \in Time
  BY TimeAssumption DEF Time
<1>3. QED
  BY <1>1, <1>2 DEF Inv, TypeInv, SeenInv, OneInv, Unfinished, Creating

\* A stop goes from one executor to another one of the lifecycle.
LEMMA StoppedIs ==
  ASSUME NEW executor \in Executor
  PROVE  /\ Stopped(executor) \in Executor
         /\ Stopped(executor).status = "SHUTTING_DOWN"
         /\ Stopped(executor).closeType = "EARLY_STOP"
         /\ Stopped(executor).ended = executor.ended
         /\ Stopped(executor).stored = executor.stored
         /\ Stopped(executor).created = executor.created
         /\ Stopped(executor).filled = executor.filled
         /\ Stopped(executor).closed = executor.closed
         /\ Stopped(executor).left = executor.left
BY DEF Stopped, Executor

\* The controller's turn: it sends nothing, stops, or one creation when all has ended.
LEMMA ControlInv == ASSUME Inv, Control PROVE Inv'
<1>1. UNCHANGED <<now, executors, infos>> /\ queue = <<>>
  BY DEF Control, ManualClose, FixedTakeProfitHit, WithdrawEntry, ConsiderEntry, Decides, Awake
<1>2. \/ queue' = queue
      \/ \E ids \in SUBSET DOMAIN infos : queue' = Append(queue, StopActions(ids))
      \/ /\ CanEnter
         /\ \E side \in {-1, 1} :
              queue' = Append(queue, {[kind |-> "create", side |-> side, created |-> now]})
  <2>1. CASE ManualClose \/ FixedTakeProfitHit
    <3>1. Send(StopActions({e \in DOMAIN infos : Active(infos[e])}))
      BY <2>1 DEF ManualClose, FixedTakeProfitHit, CloseEverything
    <3>2. QED
      BY <3>1 DEF Send
  <2>2. CASE WithdrawEntry
    <3>1. PICK signal \in Signal : Send(StopActions(ToWithdraw(signal)))
      BY <2>2 DEF WithdrawEntry
    <3>2. ToWithdraw(signal) \subseteq DOMAIN infos
      BY DEF ToWithdraw
    <3>3. QED
      BY <3>1, <3>2 DEF Send
  <2>3. CASE ConsiderEntry
    <3>1. PICK signal \in Signal \ {0} :
            \/ Send({})
            \/ CanEnter /\ Send({[kind |-> "create", side |-> signal, created |-> now]})
      BY <2>3 DEF ConsiderEntry
    <3>2. signal \in {-1, 1}
      BY SignalAssumption
    <3>3. QED
      BY <3>1, <3>2 DEF Send
  <2>4. QED
    BY <2>1, <2>2, <2>3 DEF Control
<1>3. CASE queue' = queue
  BY <1>1, <1>3 DEF Inv, TypeInv, SeenInv, OneInv, Unfinished, Creating
<1>4. ASSUME NEW ids \in SUBSET DOMAIN infos, queue' = Append(queue, StopActions(ids))
      PROVE  Inv'
  <2>1. StopActions(ids) \in SUBSET AnyAction /\ \A a \in StopActions(ids) : a.kind = "stop"
    BY DEF StopActions, AnyAction, Inv, SeenInv, TypeInv
  <2>2. queue' = <<StopActions(ids)>>
    BY <1>1, <1>4
  <2>3. ~Creating' /\ Len(queue') = 1 /\ queue' \in Seq(SUBSET AnyAction)
    BY <2>1, <2>2 DEF Creating
  <2>4. QED
    BY <1>1, <2>3 DEF Inv, TypeInv, SeenInv, OneInv, Unfinished
<1>5. ASSUME CanEnter, NEW side \in {-1, 1},
             queue' = Append(queue, {[kind |-> "create", side |-> side, created |-> now]})
      PROVE  Inv'
  <2>1. Unfinished = {}
    BY <1>5 DEF CanEnter, Considered, Inv, SeenInv, TypeInv, Unfinished
  <2>2. {[kind |-> "create", side |-> side, created |-> now]} \in SUBSET AnyAction
    BY DEF AnyAction, Inv, TypeInv
  <2>3. Len(queue') = 1 /\ queue' \in Seq(SUBSET AnyAction)
    BY <1>1, <1>5, <2>2
  <2>4. QED
    BY <1>1, <2>1, <2>3 DEF Inv, TypeInv, SeenInv, OneInv, Unfinished
<1>6. QED
  BY <1>2, <1>3, <1>4, <1>5

LEMMA OneInQueue ==
  ASSUME NEW S, NEW q \in Seq(S), q # <<>>, Len(q) <= 1
  PROVE  Len(q) = 1 /\ Tail(q) = <<>> /\ Head(q) = q[1] /\ Head(q) \in S
<1>1. Len(q) = 1
  <2>1. Len(q) \in Nat \ {0}
    BY EmptySeq
  <2>2. QED
    BY <2>1
<1>2. Head(q) \in S /\ Tail(q) \in Seq(S) /\ Len(Tail(q)) = 0 /\ Head(q) = q[1]
  BY <1>1, HeadTailProperties
<1>3. QED
  BY <1>1, <1>2, EmptySeq

\* Listening stops an executor or leaves it alone.
LEMMA ListenKeeps ==
  ASSUME Inv, Listen, NEW e \in DOMAIN executors
  PROVE  executors'[e] = executors[e] \/ executors'[e] = Stopped(executors[e])
<1> DEFINE actions == Head(queue)
           asked == {a.id : a \in {b \in actions : b.kind = "stop"}}
           stopped == [f \in DOMAIN executors |->
                         IF f \in asked /\ ~executors[f].stored THEN Stopped(executors[f]) ELSE executors[f]]
           new == {a \in actions : a.kind = "create"}
           length == Len(executors)
<1>1. executors' = IF new = {} THEN stopped ELSE Append(stopped, New(CHOOSE a \in new : TRUE))
  BY DEF Listen, Executed
<1>2. stopped[e] = executors[e] \/ stopped[e] = Stopped(executors[e])
  OBVIOUS
<1>3. DOMAIN stopped = 1..length /\ length \in Nat /\ e \in 1..length
  BY DEF Inv, TypeInv
<1>4. Len(stopped) = length
  BY <1>3
<1> HIDE DEF stopped, new, length
<1>5. executors'[e] = stopped[e]
  BY <1>1, <1>3, <1>4
<1>6. QED
  BY <1>2, <1>5

\* A batch of actions: some executors are stopped, one may be new.
LEMMA ListenInv == ASSUME Inv, Listen PROVE Inv'
<1> DEFINE actions == Head(queue)
           asked == {a.id : a \in {b \in actions : b.kind = "stop"}}
           stopped == [e \in DOMAIN executors |->
                         IF e \in asked /\ ~executors[e].stored THEN Stopped(executors[e]) ELSE executors[e]]
           new == {a \in actions : a.kind = "create"}
<1>1. /\ queue # <<>> /\ queue' = Tail(queue) /\ now' = now /\ infos' = Listing(executors')
      /\ executors' = IF new = {} THEN stopped ELSE Append(stopped, New(CHOOSE a \in new : TRUE))
  BY DEF Listen, Executed
<1>2. Len(queue) = 1 /\ queue' = <<>> /\ actions \in SUBSET AnyAction /\ actions = queue[1]
  <2>1. queue \in Seq(SUBSET AnyAction) /\ Len(queue) <= 1
    BY DEF Inv, OneInv, TypeInv
  <2>2. queue # <<>> /\ queue' = Tail(queue)
    BY <1>1
  <2>3. QED
    BY <2>1, <2>2, OneInQueue
<1>3. /\ stopped \in Seq(Executor) /\ Len(stopped) = Len(executors)
      /\ DOMAIN stopped = DOMAIN executors
      /\ \A e \in DOMAIN executors :
           stopped[e].ended = executors[e].ended /\ EndsSoundly(stopped[e])
  <2>1. ASSUME NEW e \in DOMAIN executors
        PROVE  /\ stopped[e] \in Executor /\ stopped[e].ended = executors[e].ended
               /\ EndsSoundly(stopped[e])
    <3>1. executors[e] \in Executor /\ EndsSoundly(executors[e])
      BY DEF Inv, TypeInv
    <3>2. stopped[e] = executors[e] \/ (stopped[e] = Stopped(executors[e]) /\ ~executors[e].stored)
      OBVIOUS
    <3>3. QED
      BY <3>1, <3>2, StoppedIs DEF EndsSoundly, Done
  <2> HIDE DEF stopped
  <2>2. stopped \in [DOMAIN executors -> Executor]
    BY <2>1 DEF stopped
  <2>3. QED
    BY <2>1, <2>2 DEF Inv, TypeInv
<1>4. CASE new = {}
  <2>1. executors' = stopped
    BY <1>1, <1>4
  <2> HIDE DEF stopped
  <2>2. Unfinished' = Unfinished
    BY <1>3, <2>1 DEF Unfinished
  <2>3. SeenInv'
    BY <1>1, <1>3, <2>1 DEF SeenInv, Listing, Unfinished, EndsSoundly
  <2>4. ~Creating' /\ Len(queue') = 0 /\ queue' \in Seq(SUBSET AnyAction)
    BY <1>2 DEF Creating
  <2>5. OneInv'
    BY <2>2, <2>4 DEF Inv, OneInv
  <2>6. TypeInv'
    BY <1>1, <1>3, <2>1, <2>4 DEF Inv, TypeInv
  <2>7. QED
    BY <1>3, <2>1, <2>3, <2>5, <2>6 DEF Inv
<1>5. CASE new # {}
  <2> DEFINE added == New(CHOOSE a \in new : TRUE)
             length == Len(executors)
  <2>1. (CHOOSE a \in new : TRUE) \in new
    BY <1>5
  <2>2. added \in Executor /\ ~added.ended /\ EndsSoundly(added)
    BY <1>2, <2>1 DEF AnyAction, New, Executor, EndsSoundly, Done
  <2>3. Unfinished = {}
    BY <1>2, <1>5 DEF Inv, OneInv, Creating
  <2>4. executors' = Append(stopped, added) /\ length \in Nat
    BY <1>1, <1>5 DEF Inv, TypeInv
  <2> HIDE DEF stopped, added
  <2>5. /\ executors' \in Seq(Executor) /\ DOMAIN executors' = 1..(length + 1)
        /\ DOMAIN executors = 1..length
        /\ executors'[length + 1] = added
        /\ \A e \in 1..length : executors'[e] = stopped[e]
    BY <1>3, <2>2, <2>4 DEF Inv, TypeInv
  <2>6. /\ \A e \in DOMAIN executors' : EndsSoundly(executors'[e])
        /\ Unfinished' \subseteq {length + 1}
    BY <1>3, <2>2, <2>3, <2>5 DEF Unfinished
  <2>7. SeenInv'
    BY <1>1, <2>5, <2>6 DEF SeenInv, Listing, Unfinished, EndsSoundly
  <2>8. ~Creating' /\ Len(queue') = 0 /\ queue' \in Seq(SUBSET AnyAction)
    BY <1>2 DEF Creating
  <2>9. OneInv'
    BY <2>6, <2>8 DEF OneInv
  <2>10. TypeInv'
    BY <1>1, <2>5, <2>8 DEF Inv, TypeInv
  <2>11. QED
    BY <2>6, <2>7, <2>9, <2>10 DEF Inv
<1>6. QED
  BY <1>4, <1>5

\* The executors after the tick stored old ones, or did not.
Filed(ready) == IF ready THEN Store(executors) ELSE executors

\* The tick lists what is not stored, then stores and stops.
LEMMA TickIs ==
  ASSUME Inv, Tick
  PROVE  /\ infos' = Listing(executors) /\ UNCHANGED <<now, queue>>
         /\ executors' \in Seq(Executor) /\ DOMAIN executors' = DOMAIN executors
         /\ \A e \in DOMAIN executors :
              /\ executors'[e].ended = executors[e].ended /\ EndsSoundly(executors'[e])
              /\ UNCHANGED <<executors[e].created, executors[e].filled, executors[e].closed, executors[e].left>>
              /\ ~executors[e].stored /\ (\A d \in DOMAIN executors : d <= e) => ~executors'[e].stored
              /\ \/ UNCHANGED <<executors[e].status, executors[e].closeType>>
                 \/ executors'[e].status = "SHUTTING_DOWN" /\ executors'[e].closeType = "EARLY_STOP"
<1>1. PICK kill, drawdown, ready \in BOOLEAN :
        /\ infos' = Listing(executors) /\ UNCHANGED <<now, queue>>
        /\ executors' = [e \in DOMAIN Filed(ready) |->
             IF /\ ~Filed(ready)[e].stored
                /\ \/ kill /\ Running
                   \/ drawdown /\ Active(Filed(ready)[e]) /\ ~Filed(ready)[e].filled
             THEN Stopped(Filed(ready)[e]) ELSE Filed(ready)[e]]
  BY DEF Tick, Filed
<1> DEFINE kept == Filed(ready)
<1>2. /\ DOMAIN kept = DOMAIN executors
      /\ \A e \in DOMAIN executors :
           \E stored \in BOOLEAN :
             /\ kept[e] = [executors[e] EXCEPT !.stored = stored]
             /\ stored => executors[e].stored \/ Done(executors[e])
             /\ stored => executors[e].stored \/ \E d \in DOMAIN executors : d > e
  <2> DEFINE done == {e \in DOMAIN executors : ~executors[e].stored /\ Done(executors[e])}
             old(e) == e \in done /\ Cardinality({d \in done : d > e}) >= Buffer
  <2>1. kept = [e \in DOMAIN executors |->
                  [executors[e] EXCEPT !.stored = executors[e].stored \/ (ready /\ old(e))]]
    <3>1. CASE ready
      BY <3>1 DEF Filed, Store
    <3>2. CASE ~ready
      <4>1. ASSUME NEW e \in DOMAIN executors
            PROVE  [executors[e] EXCEPT !.stored = executors[e].stored \/ (ready /\ old(e))] = executors[e]
        <5>1. executors[e] \in Executor
          BY DEF Inv, TypeInv
        <5>2. (executors[e].stored \/ (ready /\ old(e))) = executors[e].stored
          BY <3>2, <5>1 DEF Executor
        <5>3. [executors[e] EXCEPT !.stored = executors[e].stored] = executors[e]
          BY <5>1 DEF Executor
        <5>4. QED
          BY <5>2, <5>3
      <4>2. kept = executors /\ executors = [e \in DOMAIN executors |-> executors[e]]
        BY <3>2 DEF Filed, Inv, TypeInv
      <4>3. QED
        BY <4>1, <4>2
    <3>3. QED
      BY <3>1, <3>2
  <2>2. ASSUME NEW e \in DOMAIN executors, old(e)
        PROVE  Done(executors[e]) /\ \E d \in DOMAIN executors : d > e
    <3>1. CASE {d \in done : d > e} = {}
      BY <2>2, <3>1, FS_EmptySet, BoundAssumption
    <3>2. CASE {d \in done : d > e} # {}
      BY <2>2, <3>2
    <3>3. QED
      BY <3>1, <3>2
  <2>3. \A e \in DOMAIN executors : (executors[e].stored \/ (ready /\ old(e))) \in BOOLEAN
    OBVIOUS
  <2> HIDE DEF old, done, kept
  <2>4. QED
    BY <2>1, <2>2, <2>3, Zenon
<1> HIDE DEF kept
<1>3. ASSUME NEW e \in DOMAIN executors
      PROVE  /\ executors'[e] \in Executor
             /\ executors'[e].ended = executors[e].ended /\ EndsSoundly(executors'[e])
             /\ UNCHANGED <<executors[e].created, executors[e].filled, executors[e].closed, executors[e].left>>
             /\ ~executors[e].stored /\ (\A d \in DOMAIN executors : d <= e) => ~executors'[e].stored
             /\ \/ UNCHANGED <<executors[e].status, executors[e].closeType>>
                \/ executors'[e].status = "SHUTTING_DOWN" /\ executors'[e].closeType = "EARLY_STOP"
  <2>1. executors[e] \in Executor /\ EndsSoundly(executors[e])
    BY DEF Inv, TypeInv
  <2>2. PICK stored \in BOOLEAN :
          /\ kept[e] = [executors[e] EXCEPT !.stored = stored]
          /\ stored => executors[e].stored \/ Done(executors[e])
          /\ stored => executors[e].stored \/ \E d \in DOMAIN executors : d > e
    BY <1>2
  <2>3. /\ kept[e] \in Executor /\ kept[e].ended = executors[e].ended
        /\ kept[e].status = executors[e].status /\ kept[e].closeType = executors[e].closeType
        /\ kept[e].stored => executors[e].ended
        /\ kept[e].created = executors[e].created /\ kept[e].filled = executors[e].filled
        /\ kept[e].closed = executors[e].closed /\ kept[e].left = executors[e].left
        /\ kept[e].stored = stored
    BY <2>1, <2>2 DEF Executor, EndsSoundly
  <2>4. executors'[e] = kept[e] \/ executors'[e] = Stopped(kept[e])
    BY <1>1, <1>2 DEF kept
  <2>5. ~executors[e].stored /\ (\A d \in DOMAIN executors : d <= e) => ~stored
    BY <2>2 DEF Inv, TypeInv
  <2>6. QED
    BY <2>1, <2>3, <2>4, <2>5, StoppedIs DEF EndsSoundly, Done
<1>4. executors' \in [DOMAIN executors -> Executor]
  <2>1. DOMAIN executors' = DOMAIN executors /\ executors' = [e \in DOMAIN executors |-> executors'[e]]
    BY <1>1, <1>2 DEF kept
  <2>2. QED
    BY <1>3, <2>1
<1>5. executors' \in Seq(Executor) /\ DOMAIN executors' = DOMAIN executors
  BY <1>4 DEF Inv, TypeInv
<1>6. QED
  BY <1>1, <1>3, <1>5

LEMMA TickInv == ASSUME Inv, Tick PROVE Inv'
<1>1. Unfinished' = Unfinished /\ Creating' = Creating
  BY TickIs DEF Unfinished, Creating
<1>2. DOMAIN infos' = {e \in DOMAIN executors : ~executors[e].stored}
  BY TickIs DEF Listing
<1>3. \A e \in DOMAIN infos' : infos'[e] = executors[e]
  BY TickIs DEF Listing
<1>4. \A e \in DOMAIN executors :
        /\ executors'[e].ended = executors[e].ended
        /\ Done(executors[e]) \/ executors[e].stored => executors[e].ended
  BY TickIs DEF Inv, EndsSoundly
<1>5. SeenInv'
  BY <1>1, <1>2, <1>3, <1>4, TickIs DEF SeenInv, Unfinished
<1>6. QED
  BY <1>1, <1>5, TickIs DEF Inv, TypeInv, OneInv

\* An executor's own step, and that it is one of the lifecycle.
LEMMA ExecutorActsIs ==
  ASSUME Inv, NEW e \in DOMAIN executors, ExecutorActs(e)
  PROVE  /\ UNCHANGED <<now, infos, queue>>
         /\ ~executors[e].ended
         /\ \E change \in Executor :
              /\ executors' = [executors EXCEPT ![e] = change] /\ EndsSoundly(change)
              /\ change.created = executors[e].created /\ change.stored = executors[e].stored
              /\ change.ended => change.closed = now
         /\ Change(e)
<1>1. executors[e] \in Executor /\ EndsSoundly(executors[e]) /\ now \in Time
  BY DEF Inv, TypeInv
<1>2. ~executors[e].ended /\ ~executors[e].stored /\ ~Done(executors[e])
  BY <1>1 DEF ExecutorActs, EntryFills, HitsBarrier, Finishes, ForgetsFill, GivesUp, ExecutorStep,
              EndsSoundly
<1>3. UNCHANGED <<now, infos, queue>>
  BY DEF ExecutorActs, EntryFills, HitsBarrier, Finishes, ForgetsFill, GivesUp, ExecutorStep,
         controllerVars
<1>4. ASSUME NEW change \in Executor, executors' = [executors EXCEPT ![e] = change]
      PROVE  executors'[e] = change
  BY <1>4
<1>5. CASE EntryFills(e)
  <2> DEFINE change == [executors[e] EXCEPT !.filled = TRUE]
  <2>1. executors' = [executors EXCEPT ![e] = change]
    BY <1>5 DEF EntryFills, ExecutorStep
  <2>2. /\ change \in Executor /\ EndsSoundly(change)
        /\ change.status = executors[e].status /\ change.closeType = executors[e].closeType
        /\ change.ended = executors[e].ended
        /\ change.created = executors[e].created /\ change.stored = executors[e].stored
    BY <1>1, <1>2 DEF Executor, EndsSoundly, Done
  <2> HIDE DEF change
  <2>3. executors'[e] = change
    BY <2>1, <2>2, <1>4
  <2>4. QED
    BY <1>2, <1>3, <2>1, <2>2, <2>3 DEF Change
<1>6. CASE HitsBarrier(e)
  <2>1. PICK why \in Barrier :
          executors' = [executors EXCEPT ![e] =
            [executors[e] EXCEPT !.status = "SHUTTING_DOWN", !.closeType = why]]
    BY <1>6 DEF HitsBarrier, ExecutorStep
  <2> DEFINE change == [executors[e] EXCEPT !.status = "SHUTTING_DOWN", !.closeType = why]
  <2>2. /\ change \in Executor /\ EndsSoundly(change)
        /\ change.status = "SHUTTING_DOWN" /\ change.closeType = why /\ change.ended = FALSE
        /\ change.created = executors[e].created /\ change.stored = executors[e].stored
    BY <1>1, <1>2 DEF Executor, EndsSoundly, Done
  <2>3. executors' = [executors EXCEPT ![e] = change]
    BY <2>1
  <2> HIDE DEF change
  <2>4. executors'[e] = change
    BY <2>2, <2>3, <1>4
  <2>5. Lifecycle(e)!HitBarrier
    BY <1>1, <1>2, <2>2, <2>4, BarrierAssumption
    DEF Lifecycle!HitBarrier, Lifecycle!Barriers, Executor
  <2>6. QED
    BY <1>2, <1>3, <2>2, <2>3, <2>5 DEF Change, Lifecycle!Next, Lifecycle!OwnStep
<1>7. CASE Finishes(e) \/ ForgetsFill(e) \/ GivesUp(e)
  <2>1. PICK why \in {executors[e].closeType, "FAILED"}, filled \in BOOLEAN, left \in BOOLEAN :
          /\ executors' = [executors EXCEPT ![e] =
               [Over(executors[e], why) EXCEPT !.filled = filled, !.left = left]]
          /\ why = "FAILED" \/ executors[e].status = "SHUTTING_DOWN"
    <3>1. CASE Finishes(e)
      <4>1. Over(executors[e], executors[e].closeType)
              = [Over(executors[e], executors[e].closeType) EXCEPT
                   !.filled = executors[e].filled, !.left = executors[e].left]
        BY <1>1 DEF Over, Executor
      <4>2. executors[e].filled \in BOOLEAN /\ executors[e].left \in BOOLEAN
        BY <1>1 DEF Executor
      <4>3. QED
        BY <3>1, <4>1, <4>2 DEF Finishes, ExecutorStep
    <3>2. CASE ForgetsFill(e)
      BY <3>2 DEF ForgetsFill, ExecutorStep
    <3>3. CASE GivesUp(e)
      <4>1. [Over(executors[e], "FAILED") EXCEPT !.left = executors[e].filled]
              = [Over(executors[e], "FAILED") EXCEPT
                   !.filled = executors[e].filled, !.left = executors[e].filled]
        BY <1>1 DEF Over, Executor
      <4>2. executors[e].filled \in BOOLEAN
        BY <1>1 DEF Executor
      <4>3. QED
        BY <3>3, <4>1, <4>2 DEF GivesUp, ExecutorStep
    <3>4. QED
      BY <1>7, <3>1, <3>2, <3>3
  <2> DEFINE change == [Over(executors[e], why) EXCEPT !.filled = filled, !.left = left]
  <2>2. /\ change \in Executor /\ EndsSoundly(change)
        /\ change.status = "TERMINATED" /\ change.closeType = why /\ change.ended = TRUE
        /\ change.created = executors[e].created /\ change.stored = executors[e].stored
        /\ change.closed = now
    BY <1>1 DEF Over, Executor, EndsSoundly
  <2>3. executors' = [executors EXCEPT ![e] = change]
    BY <2>1
  <2> HIDE DEF change
  <2>4. executors'[e] = change
    BY <2>2, <2>3, <1>4
  <2>5. executors[e].closeType # "POSITION_HOLD"
    BY <1>1, BarrierAssumption DEF Executor
  <2>6. Lifecycle(e)!Finish \/ Lifecycle(e)!GiveUp
    BY <1>2, <2>1, <2>2, <2>4, <2>5 DEF Lifecycle!Finish, Lifecycle!GiveUp, Lifecycle!Terminate
  <2>7. QED
    BY <1>2, <1>3, <2>2, <2>3, <2>6 DEF Change, Lifecycle!Next, Lifecycle!OwnStep
<1>8. QED
  BY <1>5, <1>6, <1>7 DEF ExecutorActs

LEMMA ExecutorActsInv ==
  ASSUME Inv, NEW e \in DOMAIN executors, ExecutorActs(e)
  PROVE  Inv'
<1>1. PICK change \in Executor :
        executors' = [executors EXCEPT ![e] = change] /\ EndsSoundly(change)
  BY ExecutorActsIs
<1>2. /\ UNCHANGED <<now, infos, queue>> /\ e \in Unfinished
      /\ executors \in Seq(Executor)
  BY ExecutorActsIs DEF Inv, TypeInv, Unfinished
<1>3. /\ DOMAIN executors' = DOMAIN executors /\ executors' \in Seq(Executor)
      /\ executors'[e] = change
      /\ \A f \in DOMAIN executors : f # e => executors'[f] = executors[f]
  BY <1>1, <1>2
<1>4. Unfinished' \subseteq Unfinished
  BY <1>2, <1>3 DEF Unfinished
<1>5. OneInv'
  BY <1>2, <1>4 DEF Inv, OneInv, Creating
<1>6. SeenInv'
  BY <1>2, <1>3, <1>4 DEF Inv, SeenInv, Unfinished
<1>7. QED
  BY <1>1, <1>2, <1>3, <1>5, <1>6 DEF Inv, TypeInv

\* The exchange, the dashboard and the clock.
LEMMA OutsideInv ==
  ASSUME Inv, MarketOrderEnds \/ SeePosition \/ RequestClose \/ TimePasses \/ UNCHANGED vars
  PROVE  Inv'
<1>1. UNCHANGED <<executors, infos, queue>>
  BY DEF MarketOrderEnds, SeePosition, RequestClose, TimePasses, vars, controllerVars
<1>2. now' \in Time
  BY TimeAssumption DEF Inv, TypeInv, Time, MarketOrderEnds, SeePosition, RequestClose, TimePasses, vars
<1>3. QED
  BY <1>1, <1>2 DEF Inv, TypeInv, SeenInv, OneInv, Unfinished, Creating

LEMMA NextInv == ASSUME Inv, [Next]_vars PROVE Inv'
BY ControlInv, ListenInv, TickInv, ExecutorActsInv, OutsideInv DEF Next
-------------------------------------------------------------------------------
THEOREM Invariance == Spec => []Inv
<1>1. Inv /\ [Next]_vars => Inv'
  BY NextInv
<1>2. QED
  BY InitInv, <1>1, PTL DEF Spec

LEMMA AtMostOne ==
  ASSUME NEW S, \A a, b \in S : a = b
  PROVE  Cardinality(S) \in {0, 1} /\ (Cardinality(S) = 0 <=> S = {})
<1>1. CASE S = {}
  BY <1>1, FS_EmptySet
<1>2. CASE S # {}
  <2>1. PICK a \in S : TRUE
    BY <1>2
  <2>2. S = {a}
    BY <2>1
  <2>3. Cardinality(S) = 1
    BY <2>2, FS_Singleton
  <2>4. QED
    BY <1>2, <2>3
<1>3. QED
  BY <1>1, <1>2

\* There is at most one executor that has not ended, and none while one is in the queue,
\* although the controller decides on infos that ticks, stops and the executors have outrun.
THEOREM AtMostOneExecutor == Spec => []OneExecutor
<1> DEFINE creations == {i \in DOMAIN queue : \E a \in queue[i] : a.kind = "create"}
<1>1. ASSUME Inv PROVE OneExecutor
  <2>1. \A e, f \in Unfinished : e = f
    BY <1>1 DEF Inv, OneInv
  <2>2. \A i, j \in creations : i = j
    <3>1. queue \in Seq(SUBSET AnyAction) /\ Len(queue) <= 1
      BY <1>1 DEF Inv, OneInv, TypeInv
    <3>2. DOMAIN queue = 1..Len(queue) /\ Len(queue) \in Nat
      BY <3>1, LenProperties
    <3>3. QED
      BY <3>1, <3>2
  <2>3. creations = {} \/ Unfinished = {}
    BY <1>1 DEF Inv, OneInv, Creating
  <2> HIDE DEF creations
  <2>4. Cardinality(Unfinished) + Cardinality(creations) <= 1
    BY <2>1, <2>2, <2>3, AtMostOne
  <2>5. QED
    BY <2>4 DEF OneExecutor, creations
<1>2. QED
  BY Invariance, <1>1, PTL

\* What happens to an executor, whoever does it, the lifecycle allows.
LEMMA StepsFollow ==
  ASSUME Inv, Next, NEW e \in DOMAIN executors
  PROVE  Change(e)
<1>1. CASE Control \/ MarketOrderEnds \/ SeePosition \/ RequestClose \/ TimePasses
  <2>1. executors' = executors
    BY <1>1 DEF Control, ManualClose, FixedTakeProfitHit, WithdrawEntry, ConsiderEntry,
                MarketOrderEnds, SeePosition, RequestClose, TimePasses
  <2>2. QED
    BY <2>1 DEF Change
<1>2. CASE Listen
  <2>1. executors'[e] = executors[e] \/ executors'[e] = Stopped(executors[e])
    BY <1>2, ListenKeeps
  <2>2. executors[e] \in Executor
    BY DEF Inv, TypeInv
  <2>3. CASE executors'[e] = executors[e]
    BY <2>3 DEF Change
  <2>4. CASE executors'[e] = Stopped(executors[e])
    BY <2>2, <2>4, StoppedIs DEF Change, Lifecycle!Next, Lifecycle!EarlyStop
  <2>5. QED
    BY <2>1, <2>3, <2>4
<1>3. CASE Tick
  BY <1>3, TickIs DEF Change, Lifecycle!Next, Lifecycle!EarlyStop
<1>4. CASE \E f \in DOMAIN executors : ExecutorActs(f)
  <2>1. PICK f \in DOMAIN executors : ExecutorActs(f)
    BY <1>4
  <2>2. CASE f = e
    BY <2>1, <2>2, ExecutorActsIs
  <2>3. CASE f # e
    <3>1. executors'[e] = executors[e]
      BY <2>1, <2>3, ExecutorActsIs
    <3>2. QED
      BY <3>1 DEF Change
  <2>4. QED
    BY <2>2, <2>3
<1>5. QED
  BY <1>1, <1>2, <1>3, <1>4 DEF Next

\* Every executor of the composition is one of ExecutorLifecycle, which PositionExecutor implements.
THEOREM ExecutorsFollowLifecycle == Spec => FollowLifecycle
<1> DEFINE Follow == \A e \in DOMAIN executors : [Lifecycle(e)!Next]_(Lifecycle(e)!executorVars)
<1>1. ASSUME Inv, Next PROVE Follow
  BY <1>1, StepsFollow DEF Change, Lifecycle!executorVars
<1>2. Inv /\ [Next]_vars => [Follow]_vars
  BY <1>1
<1> HIDE DEF Follow
<1>3. Spec => [][Follow]_vars
  BY Invariance, <1>2, PTL DEF Spec
<1>4. QED
  BY <1>3 DEF FollowLifecycle, Follow
===============================================================================
