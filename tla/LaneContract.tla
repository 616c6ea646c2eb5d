---------------------------- MODULE LaneContract ----------------------------
(***************************************************************************)
(* What the lane scheduler of src/process/command-queue.ts promises to the *)
(* code that enqueues work, without queues, generations, promises or       *)
(* timers.  A request is waiting, then holds one of the slots of its lane, *)
(* then has released it; it takes each of these steps at most once.  A     *)
(* lane admits requests only while it has a free slot, admits the most     *)
(* urgent and then the oldest one first, and never leaves a slot free      *)
(* while a request waits for it.                                           *)
(*                                                                         *)
(* CommandQueue is shown to implement this module.                         *)
(***************************************************************************)
EXTENDS Integers, FiniteSets

CONSTANTS Entries,   \* the requests that may be submitted
          Lanes      \* the lanes they may be submitted to

VARIABLES stage,     \* where each request stands
          ticket,    \* lane, priority and arrival number, once submitted
          slots      \* how many requests each lane may serve at once

vars == <<stage, ticket, slots>>

Stages == {"new", "waiting", "holding", "released", "dropped"}

NoTicket == [lane |-> "none"]

\* The stage changes a request may make in one step.  A submission to a lane
\* with a free slot is admitted in the same step.
Moves == { <<"new", "waiting">>,     <<"new", "holding">>,
           <<"new", "dropped">>,     <<"waiting", "holding">>,
           <<"waiting", "dropped">>, <<"holding", "released">> }

Waiting(l) == { e \in Entries : stage[e] = "waiting" /\ ticket[e].lane = l }
Holding(l) == { e \in Entries : stage[e] = "holding" /\ ticket[e].lane = l }

Precedes(a, b) ==
    \/ ticket[a].priority > ticket[b].priority
    \/ /\ ticket[a].priority = ticket[b].priority
       /\ ticket[a].sequence < ticket[b].sequence

Init ==
    /\ stage = [e \in Entries |-> "new"]
    /\ ticket = [e \in Entries |-> NoTicket]
    /\ slots \in [Lanes -> Nat]

\* Any number of requests move at once: a completion admits a successor, and
\* a reset releases every holder and admits a full complement.
Step ==
    /\ \A e \in Entries :
          /\ stage'[e] # stage[e] => <<stage[e], stage'[e]>> \in Moves
          /\ stage[e] # "new" => ticket'[e] = ticket[e]
    /\ \A l \in Lanes :
          LET holding == Holding(l)'
              waiting == Waiting(l)'
          IN  /\ \A a \in holding :
                    stage[a] # "holding" =>
                        /\ Cardinality(holding) =< slots'[l]
                        /\ \A b \in waiting : Precedes(a, b)'
              /\ waiting # {} => Cardinality(holding) >= slots'[l]

Spec == Init /\ [][Step]_vars
=============================================================================
