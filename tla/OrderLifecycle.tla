----------------------------- MODULE OrderLifecycle -----------------------------
(***************************************************************************)
(* What the connector promises of an order to the executors and to the     *)
(* markets recorder, which see it only through the events it triggers and  *)
(* the order objects it returns:                                           *)
(*   - an order is tracked once and, when it is given up, never again;     *)
(*   - a completion event (cancelled, completed or failure) is announced   *)
(*     in the very step that ends the tracking, and never before;          *)
(*   - its filled amount never decreases and never exceeds its size, and   *)
(*     may still grow after the tracking has ended.                        *)
(***************************************************************************)
EXTENDS Naturals

CONSTANTS Order,   \* client order ids
          Amount   \* lots of every order

VARIABLES phase,     \* phase[o]: new, tracked, lost or closed
          filled,    \* filled[o]: lots the connector has recorded
          announced  \* announced[o]: a completion event was triggered

lifecycleVars == <<phase, filled, announced>>

Init ==
  /\ phase = [o \in Order |-> "new"]
  /\ filled = [o \in Order |-> 0]
  /\ announced = [o \in Order |-> FALSE]

Start(o) ==
  /\ phase[o] = "new"
  /\ phase' = [phase EXCEPT ![o] = "tracked"]
  /\ UNCHANGED <<filled, announced>>

Fill(o) ==
  /\ phase[o] # "new"
  /\ \E n \in filled[o] + 1 .. Amount : filled' = [filled EXCEPT ![o] = n]
  /\ UNCHANGED <<phase, announced>>

\* The order is over, or is given up as lost.
GiveUp(o) ==
  /\ phase[o] = "tracked"
  /\ \E p \in {"closed", "lost"} : phase' = [phase EXCEPT ![o] = p]
  /\ announced' = [announced EXCEPT ![o] = TRUE]
  /\ UNCHANGED filled

Forget(o) ==
  /\ phase[o] = "lost"
  /\ phase' = [phase EXCEPT ![o] = "closed"]
  /\ UNCHANGED <<filled, announced>>

Next == \E o \in Order : Start(o) \/ Fill(o) \/ GiveUp(o) \/ Forget(o)

Spec == Init /\ [][Next]_lifecycleVars
===============================================================================
