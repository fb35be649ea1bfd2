------------------------------- MODULE ApiThrottler -------------------------------
(***************************************************************************)
(* The rate limiter every REST request of a connector passes               *)
(* (core/api_throttler), in the bots that share an account: a request is   *)
(* logged under its own limit and under the pools linked to it, and one    *)
(* that finds no capacity sleeps and tries again.  The lock's sections     *)
(* hold no await, so the lock is never contended and a try is one step.    *)
(*                                                                         *)
(* Time is counted in units shorter than the intervals.  The exchange      *)
(* counts a request when it arrives, Delay units later at most.            *)
(***************************************************************************)
EXTENDS Integers, Sequences, FiniteSetsExt, SequencesExt

CONSTANTS Bot,            \* the throttlers that share the account
          Limit,          \* limit ids
          Configured,     \* the exchange's limit of each
          Share,          \* limits_share_percentage of a bot
          Interval,       \* time_interval of each limit
          Margin,         \* what safety_margin_pct adds to it
          Weight,         \* Weight[l][m]: what a request of l takes from m, its own limit or a linked one
          Delay,          \* the longest a request travels
          Requester,      \* the coroutines that send requests
          BotOf, LimitOf, \* their throttler and the limit id they use
          Retry           \* retry_interval

ASSUME LimitAssumption ==
  /\ IsFiniteSet(Bot) /\ IsFiniteSet(Limit)
  /\ Configured \in [Limit -> Nat] /\ Share \in [Bot -> 1..100]
  /\ Interval \in [Limit -> Nat] /\ Margin \in [Limit -> Nat]
  /\ Weight \in [Limit -> [Limit -> Nat]] /\ \A l \in Limit : Weight[l][l] > 0
  /\ LimitOf \in [Requester -> Limit] /\ BotOf \in [Requester -> Bot]
ASSUME RetryAssumption == Retry \in Nat \ {0}
\* What the safety margin is for.
ASSUME DelayAssumption == Delay \in Nat /\ \A l \in Limit : Delay <= Margin[l]

VARIABLES
  taskLogs,   \* _task_logs of each bot, with the age of each log
  sleep,      \* of a waiting request: time to its next try; Idle when there is none
  travelling, \* logs of the requests on their way, by the time since they were let through
  arrived     \* logs of what the exchange still counts

vars == <<taskLogs, sleep, travelling, arrived>>

Idle == -1
TaskLog == [limit : Limit, weight : Nat, age : Nat]

\* The logs have limits and ages, no request sleeps longer than the retry interval.
TypeOK ==
  /\ taskLogs \in [Bot -> Seq(TaskLog)]
  /\ sleep \in [Requester -> Idle..Retry]
  /\ travelling \in Seq(Seq(TaskLog)) /\ arrived \in Seq(TaskLog)

Init ==
  /\ taskLogs = [b \in Bot |-> <<>>] /\ travelling = <<>> /\ arrived = <<>>
  /\ sleep = [r \in Requester |-> Idle]
-------------------------------------------------------------------------------
\* set_rate_limits
LimitFor(b, l) ==
  LET share == (Configured[l] * Share[b]) \div 100 IN IF share < 1 THEN 1 ELSE share

Needed(l) == {m \in Limit : Weight[l][m] > 0}

Within(log, extra) == log.age <= Interval[log.limit] + extra[log.limit]
NoExtra == [l \in Limit |-> 0]

\* Mutant: the safety margin is not added to the interval.
CountsForInterval(log) == Within(log, NoExtra)
Counts(log) == Within(log, Margin)

CapacityUsed(logs, l) ==
  SumFunction([i \in DOMAIN logs |-> IF logs[i].limit = l /\ Counts(logs[i]) THEN logs[i].weight ELSE 0])

Recent(logs, extra) ==
  LET kept[n \in 0..Len(logs)] ==
        IF n = 0 THEN <<>>
        ELSE IF Within(logs[n], extra) THEN Append(kept[n - 1], logs[n]) ELSE kept[n - 1]
  IN kept[Len(logs)]

Flush(logs) == Recent(logs, Margin)

\* Mutant: a request that would fill a limit is held back.
BelowCapacity(logs, b, l) ==
  \A m \in Needed(l) : CapacityUsed(logs, m) + Weight[l][m] < LimitFor(b, m)
WithinCapacity(logs, b, l) ==
  \A m \in Needed(l) : CapacityUsed(logs, m) + Weight[l][m] <= LimitFor(b, m)

NewLogs == [l \in Limit |-> LET needed == SetToSeq(Needed(l)) IN
  [i \in DOMAIN needed |-> [limit |-> needed[i], weight |-> Weight[l][needed[i]], age |-> 0]]]

\* execute_task
Ask(r) ==
  /\ sleep[r] = Idle
  /\ sleep' = [sleep EXCEPT ![r] = 0]
  /\ UNCHANGED <<taskLogs, travelling, arrived>>

\* A turn of acquire's loop; the request leaves the bot when it is let through.
Try(r) ==
  LET b == BotOf[r]
      logs == Flush(taskLogs[b])
  IN /\ sleep[r] = 0
     /\ IF WithinCapacity(logs, b, LimitOf[r])
        THEN /\ taskLogs' = [taskLogs EXCEPT ![b] = logs \o NewLogs[LimitOf[r]]]
             /\ sleep' = [sleep EXCEPT ![r] = Idle]
             /\ travelling' = Append(travelling, NewLogs[LimitOf[r]])
        ELSE /\ taskLogs' = [taskLogs EXCEPT ![b] = logs]
             /\ sleep' = [sleep EXCEPT ![r] = Retry] /\ UNCHANGED travelling
     /\ UNCHANGED arrived

\* The coroutine is cancelled in its sleep.
Cancelled(r) ==
  /\ sleep[r] # Idle
  /\ sleep' = [sleep EXCEPT ![r] = Idle]
  /\ UNCHANGED <<taskLogs, travelling, arrived>>

\* The exchange receives a request; they may overtake one another.
Arrive ==
  \E i \in DOMAIN travelling :
    /\ arrived' = arrived \o [j \in DOMAIN travelling[i] |-> [travelling[i][j] EXCEPT !.age = 0]]
    /\ travelling' = RemoveAt(travelling, i)
    /\ UNCHANGED <<taskLogs, sleep>>

\* Ages are not counted further once they no longer matter.
Aged(logs) == [i \in DOMAIN logs |->
  IF Counts(logs[i]) THEN [logs[i] EXCEPT !.age = @ + 1] ELSE logs[i]]

\* Mutant: the timer of a request that is not asleep runs on.
SleptOn(time) == time - 1
Slept(time) == IF time > 0 THEN time - 1 ELSE time

TimePasses ==
  /\ \A i \in DOMAIN travelling : \A j \in DOMAIN travelling[i] : travelling[i][j].age < Delay
  /\ taskLogs' = [b \in Bot |-> Aged(taskLogs[b])]
  /\ travelling' = [i \in DOMAIN travelling |-> Aged(travelling[i])]
  /\ arrived' = Recent(Aged(arrived), NoExtra)
  /\ sleep' = [r \in Requester |-> Slept(sleep[r])]

Next == TimePasses \/ Arrive \/ \E r \in Requester : Ask(r) \/ Try(r) \/ Cancelled(r)
Spec == Init /\ [][Next]_vars
\* The event loop wakes a sleeper whose time has come; the clock goes on and requests arrive.
FairSpec ==
  Spec /\ WF_vars(TimePasses) /\ WF_vars(Arrive) /\ \A r \in Requester : WF_vars(Try(r))
-------------------------------------------------------------------------------
Received(l) ==
  SumFunction([i \in DOMAIN arrived |-> IF arrived[i].limit = l THEN arrived[i].weight ELSE 0])

\* The exchange never counts more in an interval than its limits allow, however the requests of
\* the bots interleave and overtake one another on their way, but for one request of each bot
\* whose share of the limit is less than one and is rounded up.
WithinLimits ==
  SumFunction(Share) <= 100 =>
    \A l \in Limit :
      Received(l) <= Configured[l] + Cardinality({b \in Bot : Configured[l] * Share[b] < 100})

\* What r needs may be taken by the other requests of its bot that need some of the same limits.
Fits(r) == \A m \in Needed(LimitOf[r]) : Weight[LimitOf[r]][m] <= LimitFor(BotOf[r], m)
Rivals(r) ==
  {q \in Requester \ {r} : BotOf[q] = BotOf[r] /\ Needed(LimitOf[q]) \cap Needed(LimitOf[r]) # {}}

\* A request that fits into the bot's share at all is let through, or given up by its caller,
\* once its rivals begin no further requests.  While they do, it may starve: the waiters try
\* on their own timers, and not in the order of async_throttler.py:58.
EveryRequestGranted ==
  \A r \in Requester :
    Fits(r) /\ <>[][\A q \in Rivals(r) : ~Ask(q)]_vars => (sleep[r] # Idle ~> sleep[r] = Idle)
==================================================================================
