---------------------------- MODULE HeartbeatWake ----------------------------
(***************************************************************************)
(* Waking the agents' heartbeat (src/infra/heartbeat-wake.ts).  Requests   *)
(* of a target are merged into one pending wake; one timer, moved forward  *)
(* by whoever is in a hurry, hands all pending wakes to the registered     *)
(* handler one after the other.  A target that is busy is tried again      *)
(* after a cooldown, and so is a whole batch that fails.  An in-process    *)
(* restart registers a new handler, also while the old one is at work.     *)
(*                                                                         *)
(* Time passes in ticks.  A handler's call takes any time.                 *)
(***************************************************************************)
EXTENDS Integers, FiniteSets

CONSTANTS Targets,       \* agents and sessions that may be woken
          Priorities,    \* of their requests, see resolveWakePriority
          Delays,        \* how long a request may wait for others, in ticks
          RetryDelay,    \* the cooldown, DEFAULT_RETRY_MS
          CoalesceDelay, \* DEFAULT_COALESCE_MS
          RequestCap,    \* bound on the requests
          RefusalCap,    \* bound on the calls that end busy or failed
          LifecycleCap   \* bound on the registrations of a handler

ASSUME PrioritiesAssumption == Priorities \subseteq 0 .. 3 /\ Priorities # {}

ASSUME DelaysAssumption ==
    /\ Delays \subseteq Nat
    /\ {RetryDelay, CoalesceDelay} \subseteq Nat

ASSUME CapsAssumption == {RequestCap, RefusalCap, LifecycleCap} \subseteq Nat

\* RETRY, INTERVAL, DEFAULT and ACTION are 0 to 3.
Nothing == -1
NoTimer == [kind |-> "none"]
NoHandler == 0

\* A batch at work: the wakes it took, those still to be handed over or being
\* handled, the delay its timer was armed with, and whose handler it calls.
Idle == [wakes |-> [t \in Targets |-> Nothing], left |-> {}, delay |-> 0,
         registration |-> NoHandler]
Slots == 1 .. LifecycleCap + 1
NoSlot == 0

VARIABLES
    handler,      \* the registration in force
    lifecycles,   \* how many registrations there were
    pendingWakes, \* per target, the priority of its pending wake
    timer,        \* what is left of its delay, its kind, the delay asked for
    scheduled, running,
    batches,      \* per slot, the timer callback at work
    requests, refusals,  \* counted for their bounds
    owed,         \* history: per target, the requests that are yet to be
                  \* handled, and the batch each of them is in
    found         \* history: per registration, the batches it found at work

vars == <<handler, lifecycles, pendingWakes, timer, scheduled, running,
          batches, requests, refusals, owed, found>>

-----------------------------------------------------------------------------
\* (mutant) The last request counts.
LastPriority(pending, t, p) == [pending EXCEPT ![t] = p]

\* queuePendingWakeReason, as far as the priorities go.
QueuePendingWake(pending, t, p) ==
    [pending EXCEPT ![t] = IF p >= @ THEN p ELSE @]

\* schedule: the timer that is armed from then on.  A retry's is left alone,
\* any other is moved forward but never back.
Schedule(armed, delay, kind) ==
    IF /\ armed # NoTimer
       /\ armed.kind = "retry" \/ armed.due =< delay
    THEN armed
    ELSE [due |-> delay, kind |-> kind, delay |-> delay]

RequestHeartbeat(t) ==
    /\ requests < RequestCap
    /\ requests' = requests + 1
    /\ \E p \in Priorities, delay \in Delays :
          /\ pendingWakes' = QueuePendingWake(pendingWakes, t, p)
          /\ timer' = Schedule(timer, delay, "normal")
          /\ owed' = [owed EXCEPT ![t] =
                        @ \cup {[priority |-> p, at |-> NoSlot]}]
    /\ UNCHANGED <<handler, lifecycles, scheduled, running, batches, refusals,
                   found>>

Pending == { t \in Targets : pendingWakes[t] # Nothing }

AtWork(s) == batches[s].left # {}

Working == { s \in Slots : AtWork(s) }

\* The requests of targets ts that were at one place are at another.
Move(ts, from, to) ==
    owed' = [t \in Targets |->
               IF t \in ts
               THEN { [q EXCEPT !.at = IF @ = from THEN to ELSE @] :
                        q \in owed[t] }
               ELSE owed[t]]

StartBatch(delay) ==
    \E s \in Slots :
        /\ ~AtWork(s)
        /\ \A lower \in Slots : lower < s => AtWork(lower)
        /\ batches' = [batches EXCEPT ![s] =
              [wakes |-> pendingWakes, left |-> Pending, delay |-> delay,
               registration |-> handler]]
        /\ Move(Targets, NoSlot, s)

\* (mutant) A batch begins whether or not one is at work.
StartsWhenDue == TRUE

StartsNow == ~running

\* The callback of the timer, up to its first await.  Without a handler the
\* wakes stay pending; while a batch is at work it comes again.  A timer is
\* armed only while wakes are pending, so no batch is empty.
TimerFires ==
    /\ timer # NoTimer
    /\ timer.due = 0
    /\ \/ /\ handler = NoHandler
          /\ timer' = NoTimer
          /\ scheduled' = FALSE
          /\ UNCHANGED <<pendingWakes, running, batches, owed>>
       \/ /\ handler # NoHandler
          /\ ~StartsNow
          /\ timer' = Schedule(NoTimer, timer.delay, timer.kind)
          /\ scheduled' = TRUE
          /\ UNCHANGED <<pendingWakes, running, batches, owed>>
       \/ /\ handler # NoHandler
          /\ StartsNow
          /\ timer' = NoTimer
          /\ scheduled' = FALSE
          /\ running' = TRUE
          /\ pendingWakes' = [t \in Targets |-> Nothing]
          /\ StartBatch(timer.delay)
    /\ UNCHANGED <<handler, lifecycles, requests, refusals, found>>

\* The end of a batch: its finally block.
EndBatch(s, pending, armed) ==
    /\ batches' = [batches EXCEPT ![s] = Idle]
    /\ running' = FALSE
    /\ pendingWakes' = pending
    /\ timer' = IF scheduled \/ \E t \in Targets : pending[t] # Nothing
                THEN Schedule(armed, batches[s].delay, "normal") ELSE armed

\* The end of one call: the next wake is handed over, or the batch is over.
GoOn(s, t, pending, armed) ==
    IF batches[s].left = {t}
    THEN EndBatch(s, pending, armed)
    ELSE /\ batches' = [batches EXCEPT ![s].left = @ \ {t}]
         /\ pendingWakes' = pending
         /\ timer' = armed
         /\ UNCHANGED running

\* The handler ran, or skipped the wake for a reason that is final.  The
\* order of the wakes in a batch is of no account.
WakeIsHandled(s, t) ==
    /\ t \in batches[s].left
    /\ GoOn(s, t, pendingWakes, timer)
    /\ owed' = [owed EXCEPT ![t] = { q \in @ : q.at # s }]
    /\ UNCHANGED <<handler, lifecycles, scheduled, requests, refusals, found>>

\* The target is busy.
WakeIsRefused(s, t) ==
    /\ t \in batches[s].left
    /\ refusals < RefusalCap
    /\ refusals' = refusals + 1
    /\ GoOn(s, t, QueuePendingWake(pendingWakes, t, batches[s].wakes[t]),
            Schedule(timer, RetryDelay, "retry"))
    /\ Move({t}, s, NoSlot)
    /\ UNCHANGED <<handler, lifecycles, scheduled, requests, found>>

\* The handler throws: the whole batch is queued again.
BatchFails(s) ==
    LET again == { t \in Targets : batches[s].wakes[t] # Nothing }
    IN  /\ AtWork(s)
        /\ refusals < RefusalCap
        /\ refusals' = refusals + 1
        /\ EndBatch(s, [t \in Targets |->
                          IF t \in again
                          THEN QueuePendingWake(pendingWakes, t,
                                                batches[s].wakes[t])[t]
                          ELSE pendingWakes[t]],
                    Schedule(timer, RetryDelay, "retry"))
        /\ Move(again, s, NoSlot)
        /\ UNCHANGED <<handler, lifecycles, scheduled, requests, found>>

\* setHeartbeatWakeHandler: a new lifecycle forgets the timer and the flags of
\* the one before, whose batch may still be at work.
SetHeartbeatWakeHandler ==
    /\ lifecycles < LifecycleCap
    /\ lifecycles' = lifecycles + 1
    /\ handler' = lifecycles'
    /\ running' = FALSE
    /\ scheduled' = FALSE
    /\ timer' = IF Pending # {} THEN Schedule(NoTimer, CoalesceDelay, "normal")
                ELSE NoTimer
    /\ found' = [found EXCEPT ![lifecycles'] = Cardinality(Working)]
    /\ UNCHANGED <<pendingWakes, batches, requests, refusals, owed>>

\* (mutant) A disposer clears whatever handler there is.
AnyRegistration(h) == handler

OwnRegistration(h) == h

\* The disposer of registration h; a later one is none of its business.  The
\* last lifecycle goes on.
DisposeHandler(h) ==
    /\ h < LifecycleCap
    /\ h =< lifecycles
    /\ handler # NoHandler
    /\ handler = OwnRegistration(h)
    /\ handler' = NoHandler
    /\ UNCHANGED <<lifecycles, pendingWakes, timer, scheduled, running,
                   batches, requests, refusals, owed, found>>

Tick ==
    /\ timer # NoTimer
    /\ timer.due > 0
    /\ timer' = [timer EXCEPT !.due = @ - 1]
    /\ UNCHANGED <<handler, lifecycles, pendingWakes, scheduled, running,
                   batches, requests, refusals, owed, found>>

-----------------------------------------------------------------------------
Init ==
    /\ handler = NoHandler
    /\ lifecycles = 0
    /\ pendingWakes = [t \in Targets |-> Nothing]
    /\ timer = NoTimer
    /\ scheduled = FALSE
    /\ running = FALSE
    /\ batches = [s \in Slots |-> Idle]
    /\ requests = 0
    /\ refusals = 0
    /\ owed = [t \in Targets |-> {}]
    /\ found = [h \in 1 .. LifecycleCap |-> 0]

Next ==
    \/ \E t \in Targets : RequestHeartbeat(t)
    \/ TimerFires
    \/ \E s \in Slots :
          \/ BatchFails(s)
          \/ \E t \in Targets : WakeIsHandled(s, t) \/ WakeIsRefused(s, t)
    \/ SetHeartbeatWakeHandler
    \/ \E h \in 1 .. LifecycleCap : DisposeHandler(h)
    \/ Tick

Spec == Init /\ [][Next]_vars

\* Time passes, timers fire, every call of a handler ends, and a gateway that
\* has no handler registers one.
Fairness ==
    /\ WF_vars(Tick)
    /\ WF_vars(TimerFires)
    /\ \A s \in Slots :
          WF_vars(\E t \in Targets : WakeIsHandled(s, t))
    /\ WF_vars(handler = NoHandler /\ SetHeartbeatWakeHandler)

FairSpec == Spec /\ Fairness

-----------------------------------------------------------------------------
(***************************************************************************)
(* Properties.                                                             *)
(***************************************************************************)
Batch == [wakes : [Targets -> Priorities \cup {Nothing}],
          left : SUBSET Targets, delay : Nat,
          registration : 0 .. LifecycleCap]

Requests == [priority : Priorities, at : Slots \cup {NoSlot}]

Timers == [due : Nat, kind : {"normal", "retry"}, delay : Nat]

\* Every variable has its type.
TypeOK ==
    /\ handler \in 0 .. lifecycles
    /\ lifecycles \in 0 .. LifecycleCap
    /\ pendingWakes \in [Targets -> Priorities \cup {Nothing}]
    /\ timer \in Timers \cup {NoTimer}
    /\ scheduled \in BOOLEAN
    /\ running \in BOOLEAN
    /\ batches \in [Slots -> Batch]
    /\ requests \in 0 .. RequestCap
    /\ refusals \in 0 .. RefusalCap
    /\ owed \in [Targets -> SUBSET Requests]
    /\ found \in [1 .. LifecycleCap -> Nat]

\* A request that is yet to be handled has a wake of its target, pending or
\* still to be handed over in the batch that took it, that is no less urgent:
\* the request is not merged away by a weaker one, earlier or later, nor lost
\* in a retry, a failing batch or a change of handlers
\* (queuePendingWakeReason, heartbeat-wake.ts:137).
RequestsKeepUrgency ==
    \A t \in Targets : \A q \in owed[t] :
        \/ q.at = NoSlot /\ pendingWakes[t] >= q.priority
        \/ /\ q.at # NoSlot
           /\ t \in batches[q.at].left
           /\ batches[q.at].wakes[t] >= q.priority

\* The batches at work that call the handlers of registration h and before.
WorkingUpTo(h) == { s \in Working : batches[s].registration =< h }

\* Batches overlap no further than a change of handlers makes them: those of
\* a registration and the older ones it found at work are never more than one
\* in addition to what it found.  So the batches of a registration that found
\* none take turns.  One that found some may have two at work: the late end of
\* an older batch clears the one flag there is (heartbeat-wake.ts:262).
OverlapIsInherited ==
    \A h \in 1 .. lifecycles : Cardinality(WorkingUpTo(h)) =< found[h] + 1

\* A wake that was asked for is handled in the end, through merging, retries,
\* failures, timers that come too early and disposers that come too late.
EveryWakeIsHandled == \A t \in Targets : owed[t] # {} ~> owed[t] = {}
=============================================================================
