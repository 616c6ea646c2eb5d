------------------------------ MODULE TurnLock ------------------------------
(***************************************************************************)
(* What the reply run registry promises to the code that answers messages: *)
(* a lock per session.  A turn takes its session at most once, only when   *)
(* no turn has it, and gives it back at most once.                         *)
(*                                                                         *)
(* ReplyRunRegistry is shown to implement this module.                     *)
(***************************************************************************)
EXTENDS FiniteSets

CONSTANTS Turns,   \* attempts to answer a message
          KeyOf    \* the session of each

VARIABLE stage

Holding(k) == { t \in Turns : stage[t] = "holding" /\ KeyOf[t] = k }

Init == stage = [t \in Turns |-> "outside"]

Take(t) ==
    /\ stage[t] = "outside"
    /\ Holding(KeyOf[t]) = {}
    /\ stage' = [stage EXCEPT ![t] = "holding"]

\* A restart takes the sessions of several turns in one step.
GiveBack(ts) ==
    /\ \A t \in ts : stage[t] = "holding"
    /\ stage' = [t \in Turns |-> IF t \in ts THEN "released" ELSE stage[t]]

Next == (\E t \in Turns : Take(t)) \/ (\E ts \in SUBSET Turns : GiveBack(ts))

Spec == Init /\ [][Next]_stage
=============================================================================
