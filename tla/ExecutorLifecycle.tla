---------------------------- MODULE ExecutorLifecycle ----------------------------
(***************************************************************************)
(* What an executor promises to the orchestrator, the strategy and the     *)
(* controller, which see of it its status, its close type and the held     *)
(* position orders of its info:                                            *)
(*   - it begins RUNNING and never comes back to it;                       *)
(*   - it is TERMINATED in the very step that sets its terminated event,   *)
(*     and that event is never cleared;                                    *)
(*   - an executor TERMINATED with POSITION_HOLD holds filled orders;      *)
(*   - filled orders become held in the step that terminates it and in no  *)
(*     other, and are never given back.                                    *)
(* What it does not promise: a stop may make a terminated executor         *)
(* SHUTTING_DOWN, and what its loop still does after its end (on_start, or *)
(* the retries after the last sleep) may change the close type again.      *)
(***************************************************************************)
VARIABLES status,     \* RunnableStatus
          closeType,  \* CloseType, "none" until one is set
          ended,      \* the terminated event
          holding     \* held_position_orders is not empty

executorVars == <<status, closeType, ended, holding>>

Barriers == {"TIME_LIMIT", "STOP_LOSS", "TAKE_PROFIT", "TRAILING_STOP"}

Init == status = "RUNNING" /\ closeType = "none" /\ ended = FALSE /\ holding = FALSE

Terminate(why) == status' = "TERMINATED" /\ ended' = TRUE /\ closeType' = why

\* A barrier is hit, or the take profit completes.
HitBarrier ==
  /\ ~ended
  /\ status' = "SHUTTING_DOWN" /\ closeType' \in Barriers
  /\ UNCHANGED <<ended, holding>>

\* early_stop, whatever the status is.
EarlyStop ==
  /\ status' = "SHUTTING_DOWN" /\ closeType' \in {"EARLY_STOP", "POSITION_HOLD"}
  /\ UNCHANGED <<ended, holding>>

\* Nothing has to be closed any more.
Finish ==
  /\ ~ended /\ status = "SHUTTING_DOWN" /\ closeType # "POSITION_HOLD"
  /\ Terminate(closeType)
  /\ UNCHANGED holding

\* The fills are held instead of closed.
Hold ==
  /\ ~ended /\ status = "SHUTTING_DOWN" /\ closeType = "POSITION_HOLD"
  /\ holding' \in BOOLEAN /\ (holding => holding')
  /\ Terminate(IF holding' THEN "POSITION_HOLD" ELSE "EARLY_STOP")

\* on_start finds no balance, or the time limit already over; it looks at nothing else.
Abandon ==
  /\ ~holding
  /\ \E why \in {"EXPIRED", "INSUFFICIENT_BALANCE"} : Terminate(why)
  /\ UNCHANGED holding

\* evaluate_max_retries
GiveUp == Terminate("FAILED") /\ UNCHANGED holding

\* force_stop_with_position_hold
ForceStop ==
  /\ status # "TERMINATED"
  /\ holding' \in BOOLEAN /\ (holding => holding')
  /\ Terminate(IF holding' THEN "POSITION_HOLD" ELSE "FAILED")

\* What its control loop and its orders bring about.
OwnStep == HitBarrier \/ Finish \/ Hold \/ Abandon \/ GiveUp

Next == OwnStep \/ EarlyStop \/ ForceStop

Spec == Init /\ [][Next]_executorVars
===============================================================================
