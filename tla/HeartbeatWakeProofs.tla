------------------------- MODULE HeartbeatWakeProofs -------------------------
(***************************************************************************)
(* That no request is lost or made less urgent, and that batches overlap   *)
(* no further than a change of handlers makes them, for any targets,       *)
(* priorities, delays and bounds.                                          *)
(***************************************************************************)
EXTENDS HeartbeatWake, FiniteSetTheorems, TLAPS

Levels == Priorities \cup {Nothing}

\* Nothing is handed over that was not taken.
HandsOverWhatItTook ==
    \A s \in Slots : \A t \in batches[s].left : batches[s].wakes[t] # Nothing

UrgencyInv == TypeOK /\ RequestsKeepUrgency /\ HandsOverWhatItTook

\* Only the latest registration is in force, and it is the only one whose
\* batches become more.  While it is not running it leaves room for the batch
\* it will start.
OverlapInv ==
    /\ handler # NoHandler => handler = lifecycles
    /\ \A s \in Working : batches[s].registration \in 1 .. lifecycles
    /\ OverlapIsInherited
    /\ lifecycles # 0 /\ ~running => Cardinality(Working) =< found[lifecycles]

-----------------------------------------------------------------------------
(***************************************************************************)
(* The helpers.                                                            *)
(***************************************************************************)

\* Priorities are numbers, and Nothing is below all of them.
LEMMA LevelsAreOrdered ==
    /\ Levels \subseteq Int
    /\ \A p \in Levels : p >= Nothing /\ (p # Nothing => p > Nothing)
    /\ Nothing \in Levels
BY PrioritiesAssumption DEF Levels, Nothing

\* Merging a request never makes a pending wake less urgent, and the wake is
\* as urgent as the request.
LEMMA MergingKeepsUrgency ==
    ASSUME NEW pending \in [Targets -> Levels], NEW t \in Targets,
           NEW p \in Levels
    PROVE  /\ QueuePendingWake(pending, t, p) \in [Targets -> Levels]
           /\ QueuePendingWake(pending, t, p)[t] >= p
           /\ \A u \in Targets :
                 QueuePendingWake(pending, t, p)[u] >= pending[u]
<1> DEFINE merged == IF p >= pending[t] THEN p ELSE pending[t]
<1>1. /\ p \in Int
      /\ \A u \in Targets : pending[u] \in Int /\ pending[u] \in Levels
    BY LevelsAreOrdered
<1>2. merged \in Levels /\ merged >= p /\ merged >= pending[t]
    BY <1>1
<1>3. QueuePendingWake(pending, t, p) = [pending EXCEPT ![t] = merged]
    BY DEF QueuePendingWake
<1>. HIDE DEF merged
<1>4. \A u \in Targets :
         QueuePendingWake(pending, t, p)[u] =
             IF u = t THEN merged ELSE pending[u]
    BY <1>3
<1>5. QueuePendingWake(pending, t, p) \in [Targets -> Levels]
    BY <1>2, <1>3
<1>6. \A u \in Targets : QueuePendingWake(pending, t, p)[u] >= pending[u]
    BY <1>1, <1>2, <1>4
<1>. QED
    BY <1>2, <1>4, <1>5, <1>6

\* schedule leaves a timer armed.
LEMMA ScheduleArms ==
    ASSUME NEW armed \in Timers \cup {NoTimer}, NEW delay \in Nat,
           NEW kind \in {"normal", "retry"}
    PROVE  Schedule(armed, delay, kind) \in Timers
BY DEF Schedule, Timers, NoTimer

\* Whose batches are at work can be counted.
LEMMA WorkingIsFinite ==
    /\ IsFiniteSet(Working)
    /\ Cardinality(Working) \in Nat
    /\ \A W \in SUBSET Working :
          /\ IsFiniteSet(W)
          /\ Cardinality(W) \in Nat
          /\ Cardinality(W) =< Cardinality(Working)
<1>1. IsFiniteSet(Slots)
    BY FS_Interval, CapsAssumption DEF Slots
<1>2. Working \in SUBSET Slots
    BY DEF Working
<1>3. IsFiniteSet(Working)
    BY <1>1, <1>2, FS_Subset
<1>. QED
    BY <1>3, FS_CardinalityType, FS_Subset

\* A request that is moved stays what it is; only its place changes.
LEMMA MovedRequests ==
    ASSUME TypeOK, NEW ts \in SUBSET Targets,
           NEW from \in Slots \cup {NoSlot}, NEW to \in Slots \cup {NoSlot},
           Move(ts, from, to)
    PROVE  /\ owed' \in [Targets -> SUBSET Requests]
           /\ \A t \in Targets : \A q \in owed'[t] : \E r \in owed[t] :
                 /\ q.priority = r.priority
                 /\ \/ t \in ts /\ r.at = from /\ q.at = to
                    \/ ~(t \in ts /\ r.at = from) /\ q.at = r.at
<1>. DEFINE Moved(r) == [r EXCEPT !.at = IF @ = from THEN to ELSE @]
<1>1. owed \in [Targets -> SUBSET Requests]
    BY DEF TypeOK
<1>2. \A r \in Requests :
         /\ Moved(r) \in Requests
         /\ Moved(r).priority = r.priority
         /\ Moved(r).at = IF r.at = from THEN to ELSE r.at
    BY DEF Requests
<1>3. owed' = [t \in Targets |-> IF t \in ts THEN { Moved(r) : r \in owed[t] }
                                             ELSE owed[t]]
    BY DEF Move
<1>. HIDE DEF Moved
<1>4. \A t \in Targets : owed'[t] \in SUBSET Requests
    BY <1>1, <1>2, <1>3
<1>5. owed' \in [Targets -> SUBSET Requests]
    BY <1>3, <1>4
<1>6. ASSUME NEW t \in Targets, NEW q \in owed'[t]
      PROVE  \E r \in owed[t] :
                /\ q.priority = r.priority
                /\ \/ t \in ts /\ r.at = from /\ q.at = to
                   \/ ~(t \in ts /\ r.at = from) /\ q.at = r.at
  <2>1. CASE t \in ts
    <3>1. PICK r \in owed[t] : q = Moved(r)
        BY <1>3, <1>6, <2>1
    <3>. QED
        BY <1>1, <1>2, <2>1, <3>1
  <2>2. CASE t \notin ts
      BY <1>3, <1>6, <2>2
  <2>. QED
      BY <2>1, <2>2
<1>. QED
    BY <1>5, <1>6

-----------------------------------------------------------------------------
(***************************************************************************)
(* Urgency.  An end of a batch is proved from what the action gives it.    *)
(***************************************************************************)

\* What one call's end, or a failure, does to the batch in slot s: only left
\* stay in it; the requests of the others are handled, or else they are
\* pending again, as urgent as the batch had them.
LetsGo(s, again, left) ==
    /\ left \subseteq batches[s].left
    /\ \/ left # {} /\ batches' = [batches EXCEPT ![s].left = left]
       \/ left = {} /\ batches' = [batches EXCEPT ![s] = Idle]
    /\ pendingWakes' = again
    /\ \A t \in Targets : again[t] >= pendingWakes[t]
    /\ owed' \in [Targets -> SUBSET Requests]
    /\ \A t \in Targets : \A q \in owed'[t] : \E r \in owed[t] :
          /\ q.priority = r.priority
          /\ \/ q.at = r.at /\ (r.at = s => t \in left)
             \/ /\ r.at = s /\ q.at = NoSlot
                /\ again[t] >= batches[s].wakes[t]

LEMMA LettingGoKeepsUrgency ==
    ASSUME UrgencyInv, NEW s \in Slots,
           NEW again \in [Targets -> Levels], NEW left \in SUBSET Targets,
           LetsGo(s, again, left)
    PROVE  /\ batches' \in [Slots -> Batch]
           /\ RequestsKeepUrgency'
           /\ HandsOverWhatItTook'
<1>. USE DEF UrgencyInv, TypeOK, LetsGo
<1>1. Idle \in Batch /\ Idle.left = {}
    BY CapsAssumption DEF Idle, Batch, NoHandler
<1>2. batches[s] \in Batch /\ [batches[s] EXCEPT !.left = left] \in Batch
  <2>1. batches[s] \in Batch
      OBVIOUS
  <2>2. left \in SUBSET Targets
      OBVIOUS
  <2>. HIDE DEF UrgencyInv, TypeOK, LetsGo
  <2>. QED
      BY <2>1, <2>2 DEF Batch
<1>3. batches' \in [Slots -> Batch]
    BY <1>1, <1>2
<1>4. /\ \A z \in Slots : z # s => batches'[z] = batches[z]
      /\ batches'[s].left = left
      /\ left # {} => batches'[s].wakes = batches[s].wakes
    BY <1>1, <1>2 DEF Batch
<1>5. RequestsKeepUrgency'
  <2>. SUFFICES ASSUME NEW t \in Targets, NEW q \in owed'[t]
                PROVE  \/ q.at = NoSlot /\ again[t] >= q.priority
                       \/ /\ q.at # NoSlot
                          /\ t \in batches'[q.at].left
                          /\ batches'[q.at].wakes[t] >= q.priority
      BY DEF RequestsKeepUrgency
  <2>1. PICK r \in owed[t] :
              /\ q.priority = r.priority
              /\ \/ q.at = r.at /\ (r.at = s => t \in left)
                 \/ /\ r.at = s /\ q.at = NoSlot
                    /\ again[t] >= batches[s].wakes[t]
      OBVIOUS
  <2>2. \/ r.at = NoSlot /\ pendingWakes[t] >= r.priority
        \/ /\ r.at # NoSlot
           /\ t \in batches[r.at].left
           /\ batches[r.at].wakes[t] >= r.priority
      BY DEF RequestsKeepUrgency
  <2>3. /\ r.priority \in Int /\ r.at \in Slots \cup {NoSlot}
        /\ again[t] \in Int /\ pendingWakes[t] \in Int
        /\ batches[s].wakes[t] \in Int /\ NoSlot \notin Slots
        /\ again[t] >= pendingWakes[t]
      BY <1>2, LevelsAreOrdered DEF Levels, Requests, Batch, Slots, NoSlot
  <2>4. CASE r.at = NoSlot
    <3>1. pendingWakes[t] >= r.priority /\ q.at = NoSlot
        BY <2>1, <2>2, <2>3, <2>4
    <3>. QED
        BY <2>1, <2>3, <3>1
  <2>5. CASE r.at = s /\ q.at = NoSlot
    <3>1. batches[s].wakes[t] >= r.priority /\ again[t] >= batches[s].wakes[t]
        BY <2>1, <2>2, <2>3, <2>5
    <3>. QED
        BY <2>1, <2>3, <2>5, <3>1
  <2>6. CASE r.at = s /\ q.at = s
      BY <1>4, <2>1, <2>2, <2>3, <2>6
  <2>7. CASE r.at \notin {s, NoSlot}
    <3>1. batches'[r.at] = batches[r.at] /\ q.at = r.at
        BY <1>4, <2>1, <2>3, <2>7
    <3>. QED
        BY <2>1, <2>2, <2>7, <3>1
  <2>. QED
      BY <2>1, <2>4, <2>5, <2>6, <2>7
<1>6. HandsOverWhatItTook'
    BY <1>4 DEF HandsOverWhatItTook
<1>. QED
    BY <1>3, <1>5, <1>6

LEMMA InitUrgency == ASSUME Init PROVE UrgencyInv
<1>. USE DEF Init, UrgencyInv, TypeOK, Nothing, NoHandler, NoSlot
<1>1. \A s \in Slots : batches[s] = Idle
    BY DEF Slots
<1>2. Idle \in Batch /\ Idle.left = {}
    BY CapsAssumption DEF Idle, Batch
<1>3. TypeOK
  <2>1. timer \in Timers \cup {NoTimer} /\ batches \in [Slots -> Batch]
      BY <1>2
  <2>2. requests \in 0 .. RequestCap /\ refusals \in 0 .. RefusalCap
        /\ lifecycles \in 0 .. LifecycleCap /\ handler \in 0 .. lifecycles
      BY CapsAssumption
  <2>. QED
      BY <2>1, <2>2
<1>4. RequestsKeepUrgency
    BY DEF RequestsKeepUrgency
<1>5. HandsOverWhatItTook
    BY <1>1, <1>2 DEF HandsOverWhatItTook
<1>. QED
    BY <1>3, <1>4, <1>5

\* A request only concerns its own target.
LEMMA RequestUrgency ==
    ASSUME UrgencyInv, NEW t \in Targets, RequestHeartbeat(t)
    PROVE  UrgencyInv'
<1>. USE DEF UrgencyInv, TypeOK
<1>1. PICK p \in Priorities, delay \in Delays :
         /\ pendingWakes' = QueuePendingWake(pendingWakes, t, p)
         /\ timer' = Schedule(timer, delay, "normal")
         /\ owed' = [owed EXCEPT ![t] =
                       @ \cup {[priority |-> p, at |-> NoSlot]}]
    BY DEF RequestHeartbeat
<1>2. /\ requests < RequestCap /\ requests' = requests + 1
      /\ UNCHANGED <<handler, lifecycles, scheduled, running, batches, refusals,
                     found>>
    BY DEF RequestHeartbeat
<1>3. p \in Levels /\ delay \in Nat
    BY DelaysAssumption DEF Levels
<1>4. /\ pendingWakes' \in [Targets -> Levels]
      /\ pendingWakes'[t] >= p
      /\ \A u \in Targets : pendingWakes'[u] >= pendingWakes[u]
    BY <1>1, <1>3, MergingKeepsUrgency DEF Levels
<1>5. TypeOK'
  <2>1. timer' \in Timers
      BY <1>1, <1>3, ScheduleArms
  <2>2. requests' \in 0 .. RequestCap
      BY <1>2, CapsAssumption
  <2>3. owed' \in [Targets -> SUBSET Requests]
      BY <1>1 DEF Requests
  <2>. QED
      BY <1>2, <1>4, <2>1, <2>2, <2>3 DEF Levels
<1>6. RequestsKeepUrgency'
  <2>. SUFFICES ASSUME NEW u \in Targets, NEW q \in owed'[u]
                PROVE  \/ q.at = NoSlot /\ pendingWakes'[u] >= q.priority
                       \/ /\ q.at # NoSlot
                          /\ u \in batches'[q.at].left
                          /\ batches'[q.at].wakes[u] >= q.priority
      BY DEF RequestsKeepUrgency
  <2>1. CASE q \in owed[u]
    <3>1. \/ q.at = NoSlot /\ pendingWakes[u] >= q.priority
          \/ /\ q.at # NoSlot
             /\ u \in batches[q.at].left
             /\ batches[q.at].wakes[u] >= q.priority
        BY <2>1 DEF RequestsKeepUrgency
    <3>2. /\ pendingWakes'[u] \in Int /\ pendingWakes[u] \in Int
          /\ q.priority \in Int
        BY <1>4, <2>1, LevelsAreOrdered DEF Levels, Requests
    <3>. QED
        BY <1>2, <1>4, <3>1, <3>2
  <2>2. CASE q \notin owed[u]
    <3>1. u = t /\ q.at = NoSlot /\ q.priority = p
        BY <1>1, <2>2
    <3>. QED
        BY <1>4, <3>1
  <2>. QED
      BY <2>1, <2>2
<1>7. HandsOverWhatItTook'
    BY <1>2 DEF HandsOverWhatItTook
<1>. QED
    BY <1>5, <1>6, <1>7

\* A batch takes all that is pending, each with its priority.
LEMMA TimerUrgency == ASSUME UrgencyInv, TimerFires PROVE UrgencyInv'
<1>. USE DEF UrgencyInv, TypeOK
<1>0. UNCHANGED <<handler, lifecycles, requests, refusals, found>>
      /\ timer \in Timers
    BY DEF TimerFires
<1>1. CASE /\ timer' = NoTimer
           /\ scheduled' = FALSE
           /\ UNCHANGED <<pendingWakes, running, batches, owed>>
  <2>1. TypeOK'
      BY <1>0, <1>1
  <2>. QED
      BY <1>0, <1>1, <2>1 DEF RequestsKeepUrgency, HandsOverWhatItTook
<1>2. CASE /\ timer' = Schedule(NoTimer, timer.delay, timer.kind)
           /\ scheduled' = TRUE
           /\ UNCHANGED <<pendingWakes, running, batches, owed>>
  <2>1. timer' \in Timers
    <3>1. timer.delay \in Nat /\ timer.kind \in {"normal", "retry"}
        BY <1>0 DEF Timers
    <3>. QED
        BY <1>2, <3>1, ScheduleArms
  <2>2. TypeOK'
      BY <1>0, <1>2, <2>1
  <2>. QED
      BY <1>0, <1>2, <2>2 DEF RequestsKeepUrgency, HandsOverWhatItTook
<1>3. CASE /\ timer' = NoTimer
           /\ scheduled' = FALSE
           /\ running' = TRUE
           /\ pendingWakes' = [t \in Targets |-> Nothing]
           /\ StartBatch(timer.delay)
  <2> DEFINE new == [wakes |-> pendingWakes, left |-> Pending,
                     delay |-> timer.delay, registration |-> handler]
  <2>1. PICK s \in Slots :
           /\ ~AtWork(s)
           /\ batches' = [batches EXCEPT ![s] = new]
           /\ Move(Targets, NoSlot, s)
      BY <1>3 DEF StartBatch
  <2>2. new \in Batch /\ Pending \subseteq Targets
    <3>1. handler \in 0 .. LifecycleCap
        BY CapsAssumption
    <3>. QED
        BY <1>0, <3>1 DEF Batch, Pending, Timers
  <2>3. batches'[s] = new /\ \A z \in Slots : z # s => batches'[z] = batches[z]
      BY <2>1
  <2>4. /\ owed' \in [Targets -> SUBSET Requests]
        /\ \A t \in Targets : \A q \in owed'[t] : \E r \in owed[t] :
              /\ q.priority = r.priority
              /\ \/ t \in Targets /\ r.at = NoSlot /\ q.at = s
                 \/ ~(t \in Targets /\ r.at = NoSlot) /\ q.at = r.at
    <3>. HIDE DEF TypeOK
    <3>. QED
        BY <2>1, MovedRequests DEF UrgencyInv
  <2>5. TypeOK'
    <3>1. batches' \in [Slots -> Batch]
        BY <2>1, <2>2
    <3>. QED
        BY <1>0, <1>3, <2>4, <3>1
  <2>6. RequestsKeepUrgency'
    <3>. SUFFICES ASSUME NEW t \in Targets, NEW q \in owed'[t]
                  PROVE  /\ q.at # NoSlot
                         /\ t \in batches'[q.at].left
                         /\ batches'[q.at].wakes[t] >= q.priority
        BY DEF RequestsKeepUrgency
    <3>1. PICK r \in owed[t] :
              /\ q.priority = r.priority
              /\ \/ r.at = NoSlot /\ q.at = s
                 \/ r.at # NoSlot /\ q.at = r.at
        BY <2>4
    <3>2. \/ r.at = NoSlot /\ pendingWakes[t] >= r.priority
          \/ /\ r.at # NoSlot
             /\ t \in batches[r.at].left
             /\ batches[r.at].wakes[t] >= r.priority
        BY DEF RequestsKeepUrgency
    <3>3. /\ r.priority \in Nat /\ r.at \in Slots \cup {NoSlot}
          /\ NoSlot \notin Slots
        BY PrioritiesAssumption DEF Requests, Slots, NoSlot
    <3>4. CASE r.at = NoSlot
      <4>1. pendingWakes[t] >= r.priority /\ q.at = s
          BY <3>1, <3>2, <3>4
      <4>2. pendingWakes[t] # Nothing
          BY <3>3, <4>1 DEF Nothing
      <4>3. t \in Pending
          BY <4>2 DEF Pending
      <4>. QED
          BY <2>3, <3>1, <3>3, <4>1, <4>3
    <3>5. CASE r.at # NoSlot
      <4>1. r.at # s
          BY <2>1, <3>2, <3>5 DEF AtWork
      <4>2. batches'[r.at] = batches[r.at]
          BY <2>3, <3>3, <3>5, <4>1
      <4>. QED
          BY <3>1, <3>2, <3>5, <4>2
    <3>. QED
        BY <3>4, <3>5
  <2>7. HandsOverWhatItTook'
    <3>1. \A t \in new.left : new.wakes[t] # Nothing
        BY DEF Pending
    <3>. HIDE DEF new
    <3>. QED
        BY <2>3, <3>1 DEF HandsOverWhatItTook
  <2>. QED
      BY <2>5, <2>6, <2>7
<1>. QED
    BY <1>1, <1>2, <1>3 DEF TimerFires

\* The timer after the end of a call or batch, and the running flag.
LEMMA GoOnTypes ==
    ASSUME TypeOK, NEW s \in Slots, NEW t \in batches[s].left,
           NEW again \in [Targets -> Levels],
           NEW armed \in Timers \cup {NoTimer},
           GoOn(s, t, again, armed)
    PROVE  /\ timer' \in Timers \cup {NoTimer}
           /\ running' \in BOOLEAN
           /\ pendingWakes' = again
           /\ \/ /\ batches[s].left \ {t} # {}
                 /\ batches' = [batches EXCEPT ![s].left = @ \ {t}]
              \/ /\ batches[s].left \ {t} = {}
                 /\ batches' = [batches EXCEPT ![s] = Idle]
<1>1. batches[s].delay \in Nat
    BY DEF TypeOK, Batch
<1>2. Schedule(armed, batches[s].delay, "normal") \in Timers
    BY <1>1, ScheduleArms
<1>. QED
    BY <1>2 DEF GoOn, EndBatch, TypeOK

LEMMA EndBatchTypes ==
    ASSUME TypeOK, NEW s \in Slots, NEW again,
           NEW armed \in Timers \cup {NoTimer},
           EndBatch(s, again, armed)
    PROVE  timer' \in Timers \cup {NoTimer} /\ running' \in BOOLEAN
<1>1. batches[s].delay \in Nat
    BY DEF TypeOK, Batch
<1>2. Schedule(armed, batches[s].delay, "normal") \in Timers
    BY <1>1, ScheduleArms
<1>. QED
    BY <1>2 DEF EndBatch

LEMMA HandledUrgency ==
    ASSUME UrgencyInv, NEW s \in Slots, NEW t \in Targets, WakeIsHandled(s, t)
    PROVE  UrgencyInv'
<1>. USE DEF UrgencyInv, TypeOK
<1>1. /\ t \in batches[s].left
      /\ GoOn(s, t, pendingWakes, timer)
      /\ owed' = [owed EXCEPT ![t] = { q \in @ : q.at # s }]
      /\ UNCHANGED <<handler, lifecycles, scheduled, requests, refusals, found>>
    BY DEF WakeIsHandled
<1>2. pendingWakes \in [Targets -> Levels]
    BY DEF Levels
<1>3. /\ timer' \in Timers \cup {NoTimer}
      /\ running' \in BOOLEAN
      /\ pendingWakes' = pendingWakes
      /\ \/ /\ batches[s].left \ {t} # {}
            /\ batches' = [batches EXCEPT ![s].left = @ \ {t}]
         \/ /\ batches[s].left \ {t} = {}
            /\ batches' = [batches EXCEPT ![s] = Idle]
    BY <1>1, <1>2, GoOnTypes
<1>4. owed' \in [Targets -> SUBSET Requests]
    BY <1>1
<1>5. batches[s].left \in SUBSET Targets
    BY DEF Batch
<1>6. \A u \in Targets : pendingWakes[u] >= pendingWakes[u]
  <2>. SUFFICES ASSUME NEW u \in Targets
                PROVE  pendingWakes[u] >= pendingWakes[u]
      OBVIOUS
  <2>1. pendingWakes[u] \in Int
      BY <1>2, LevelsAreOrdered
  <2>. QED
      BY <2>1
\* What is still in this batch is of another target.
<1>7. ASSUME NEW u \in Targets, NEW q \in owed'[u]
      PROVE  q \in owed[u] /\ (q.at = s => u \in batches[s].left \ {t})
  <2>1. q \in owed[u] /\ (u = t => q.at # s)
      BY <1>1, <1>7
  <2>2. q.at = s => u \in batches[s].left
      BY <2>1 DEF RequestsKeepUrgency, Slots, NoSlot
  <2>. QED
      BY <2>1, <2>2
<1>8. /\ batches' \in [Slots -> Batch]
      /\ RequestsKeepUrgency'
      /\ HandsOverWhatItTook'
  <2> DEFINE again == pendingWakes
             rest == batches[s].left \ {t}
  <2>1. /\ rest \in SUBSET Targets
        /\ rest \subseteq batches[s].left
        /\ \/ rest # {} /\ batches' = [batches EXCEPT ![s].left = rest]
           \/ rest = {} /\ batches' = [batches EXCEPT ![s] = Idle]
      BY <1>3, <1>5
  <2>2. /\ again \in [Targets -> Levels]
        /\ pendingWakes' = again
        /\ \A u \in Targets : again[u] >= pendingWakes[u]
      BY <1>2, <1>3, <1>6
  <2>3. \A u \in Targets : \A q \in owed'[u] : \E r \in owed[u] :
           /\ q.priority = r.priority
           /\ \/ q.at = r.at /\ (r.at = s => u \in rest)
              \/ r.at = s /\ q.at = NoSlot /\ again[u] >= batches[s].wakes[u]
      BY <1>7
  <2>4. LetsGo(s, again, rest)
      BY <1>4, <2>1, <2>2, <2>3 DEF LetsGo
  <2>. HIDE DEF again, rest, UrgencyInv, TypeOK
  <2>. QED
      BY <2>1, <2>2, <2>4, LettingGoKeepsUrgency
<1>. QED
    BY <1>1, <1>3, <1>4, <1>8 DEF Levels

LEMMA RefusedUrgency ==
    ASSUME UrgencyInv, NEW s \in Slots, NEW t \in Targets, WakeIsRefused(s, t)
    PROVE  UrgencyInv'
<1>. USE DEF UrgencyInv, TypeOK
<1> DEFINE again == QueuePendingWake(pendingWakes, t, batches[s].wakes[t])
           armed == Schedule(timer, RetryDelay, "retry")
           rest == batches[s].left \ {t}
<1>1. /\ t \in batches[s].left
      /\ GoOn(s, t, again, armed)
      /\ Move({t}, s, NoSlot)
      /\ refusals < RefusalCap /\ refusals' = refusals + 1
      /\ UNCHANGED <<handler, lifecycles, scheduled, requests, found>>
    BY DEF WakeIsRefused
<1>2. batches[s].wakes[t] \in Levels /\ batches[s].left \in SUBSET Targets
    BY DEF Batch, Levels
<1>3. /\ again \in [Targets -> Levels]
      /\ again[t] >= batches[s].wakes[t]
      /\ \A u \in Targets : again[u] >= pendingWakes[u]
    BY <1>2, MergingKeepsUrgency DEF Levels
<1>4. armed \in Timers \cup {NoTimer}
    BY ScheduleArms, DelaysAssumption
<1>. HIDE DEF again, armed
<1>5. /\ timer' \in Timers \cup {NoTimer}
      /\ running' \in BOOLEAN
      /\ pendingWakes' = again
      /\ \/ rest # {} /\ batches' = [batches EXCEPT ![s].left = rest]
         \/ rest = {} /\ batches' = [batches EXCEPT ![s] = Idle]
    BY <1>1, <1>3, <1>4, GoOnTypes
<1>6. /\ owed' \in [Targets -> SUBSET Requests]
      /\ \A u \in Targets : \A q \in owed'[u] : \E r \in owed[u] :
            /\ q.priority = r.priority
            /\ \/ u \in {t} /\ r.at = s /\ q.at = NoSlot
               \/ ~(u \in {t} /\ r.at = s) /\ q.at = r.at
  <2>1. {t} \in SUBSET Targets /\ s \in Slots \cup {NoSlot}
        /\ NoSlot \in Slots \cup {NoSlot} /\ TypeOK
      OBVIOUS
  <2>. HIDE DEF TypeOK
  <2>. QED
      BY <1>1, <2>1, MovedRequests
<1>7. ASSUME NEW u \in Targets, NEW q \in owed'[u]
      PROVE  \E r \in owed[u] :
                /\ q.priority = r.priority
                /\ \/ q.at = r.at /\ (r.at = s => u \in rest)
                   \/ /\ r.at = s /\ q.at = NoSlot
                      /\ again[u] >= batches[s].wakes[u]
  <2>1. PICK r \in owed[u] :
            /\ q.priority = r.priority
            /\ \/ u = t /\ r.at = s /\ q.at = NoSlot
               \/ ~(u = t /\ r.at = s) /\ q.at = r.at
      BY <1>6, <1>7
  <2>2. r.at = s => u \in batches[s].left
      BY DEF RequestsKeepUrgency, Slots, NoSlot
  <2>. QED
      BY <1>3, <2>1, <2>2
<1>8. /\ batches' \in [Slots -> Batch]
      /\ RequestsKeepUrgency'
      /\ HandsOverWhatItTook'
  <2>1. rest \in SUBSET Targets /\ rest \subseteq batches[s].left
      BY <1>2
  <2>2. LetsGo(s, again, rest)
      BY <1>3, <1>5, <1>6, <1>7, <2>1 DEF LetsGo
  <2>. HIDE DEF rest, UrgencyInv, TypeOK
  <2>. QED
      BY <1>3, <2>1, <2>2, LettingGoKeepsUrgency
<1>9. refusals' \in 0 .. RefusalCap
    BY <1>1, CapsAssumption
<1>. QED
    BY <1>1, <1>3, <1>5, <1>6, <1>8, <1>9 DEF Levels

LEMMA FailedUrgency ==
    ASSUME UrgencyInv, NEW s \in Slots, BatchFails(s)
    PROVE  UrgencyInv'
<1>. USE DEF UrgencyInv, TypeOK
<1> DEFINE took == { t \in Targets : batches[s].wakes[t] # Nothing }
           again == [t \in Targets |->
                       IF t \in took
                       THEN QueuePendingWake(pendingWakes, t,
                                             batches[s].wakes[t])[t]
                       ELSE pendingWakes[t]]
           armed == Schedule(timer, RetryDelay, "retry")
<1>1. /\ AtWork(s)
      /\ EndBatch(s, again, armed)
      /\ Move(took, s, NoSlot)
      /\ refusals < RefusalCap /\ refusals' = refusals + 1
      /\ UNCHANGED <<handler, lifecycles, scheduled, requests, found>>
    BY DEF BatchFails
<1>2. /\ batches[s].wakes \in [Targets -> Levels]
      /\ batches[s].left \in SUBSET Targets
    BY DEF Batch, Levels
<1>3. \A t \in Targets : /\ again[t] \in Levels
                         /\ again[t] >= pendingWakes[t]
                         /\ t \in took => again[t] >= batches[s].wakes[t]
  <2>. SUFFICES ASSUME NEW t \in Targets
                PROVE  /\ again[t] \in Levels
                       /\ again[t] >= pendingWakes[t]
                       /\ t \in took => again[t] >= batches[s].wakes[t]
      OBVIOUS
  <2> DEFINE merged == QueuePendingWake(pendingWakes, t, batches[s].wakes[t])
  <2>1. /\ merged \in [Targets -> Levels]
        /\ merged[t] >= batches[s].wakes[t]
        /\ merged[t] >= pendingWakes[t]
      BY <1>2, MergingKeepsUrgency DEF Levels
  <2>2. pendingWakes[t] \in Levels /\ pendingWakes[t] \in Int
      BY LevelsAreOrdered DEF Levels
  <2>3. again[t] = IF t \in took THEN merged[t] ELSE pendingWakes[t]
      OBVIOUS
  <2>. HIDE DEF again, merged, took
  <2>. QED
      BY <2>1, <2>2, <2>3
<1>4. armed \in Timers \cup {NoTimer}
    BY ScheduleArms, DelaysAssumption
<1>5. batches[s].left \ took = {}
    BY <1>2 DEF HandsOverWhatItTook
<1>6. took \in SUBSET Targets /\ again \in [Targets -> Levels]
    BY <1>3
<1>. HIDE DEF again, armed, took
<1>7. /\ timer' \in Timers \cup {NoTimer}
      /\ running' \in BOOLEAN
      /\ pendingWakes' = again
      /\ batches' = [batches EXCEPT ![s] = Idle]
    BY <1>1, <1>4, EndBatchTypes DEF EndBatch
<1>8. /\ owed' \in [Targets -> SUBSET Requests]
      /\ \A u \in Targets : \A q \in owed'[u] : \E r \in owed[u] :
            /\ q.priority = r.priority
            /\ \/ u \in took /\ r.at = s /\ q.at = NoSlot
               \/ ~(u \in took /\ r.at = s) /\ q.at = r.at
  <2>1. s \in Slots \cup {NoSlot} /\ NoSlot \in Slots \cup {NoSlot} /\ TypeOK
      OBVIOUS
  <2>. HIDE DEF TypeOK
  <2>. QED
      BY <1>1, <1>6, <2>1, MovedRequests
<1>9. ASSUME NEW u \in Targets, NEW q \in owed'[u]
      PROVE  \E r \in owed[u] :
                /\ q.priority = r.priority
                /\ \/ q.at = r.at /\ (r.at = s => u \in {})
                   \/ /\ r.at = s /\ q.at = NoSlot
                      /\ again[u] >= batches[s].wakes[u]
  <2>1. PICK r \in owed[u] :
            /\ q.priority = r.priority
            /\ \/ u \in took /\ r.at = s /\ q.at = NoSlot
               \/ ~(u \in took /\ r.at = s) /\ q.at = r.at
      BY <1>8, <1>9
  <2>2. r.at = s => u \in took
      BY <1>5 DEF RequestsKeepUrgency, Slots, NoSlot
  <2>. QED
      BY <1>3, <2>1, <2>2
<1>10. /\ batches' \in [Slots -> Batch]
       /\ RequestsKeepUrgency'
       /\ HandsOverWhatItTook'
  <2> DEFINE rest == {}
  <2>1. /\ rest \in SUBSET Targets
        /\ rest \subseteq batches[s].left
        /\ \/ rest # {} /\ batches' = [batches EXCEPT ![s].left = rest]
           \/ rest = {} /\ batches' = [batches EXCEPT ![s] = Idle]
      BY <1>7
  <2>2. \A t \in Targets : again[t] >= pendingWakes[t]
      BY <1>3
  <2>3. \A u \in Targets : \A q \in owed'[u] : \E r \in owed[u] :
           /\ q.priority = r.priority
           /\ \/ q.at = r.at /\ (r.at = s => u \in rest)
              \/ r.at = s /\ q.at = NoSlot /\ again[u] >= batches[s].wakes[u]
      BY <1>9
  <2>4. LetsGo(s, again, rest)
      BY <1>7, <1>8, <2>1, <2>2, <2>3 DEF LetsGo
  <2>. HIDE DEF rest, UrgencyInv, TypeOK
  <2>. QED
      BY <1>6, <2>1, <2>4, LettingGoKeepsUrgency
<1>11. refusals' \in 0 .. RefusalCap
    BY <1>1, CapsAssumption
<1>. QED
    BY <1>1, <1>6, <1>7, <1>8, <1>10, <1>11 DEF Levels

\* The steps that leave requests, batches and pending wakes alone.
LEMMA OtherStepsUrgency ==
    ASSUME UrgencyInv,
           \/ SetHeartbeatWakeHandler
           \/ \E h \in 1 .. LifecycleCap : DisposeHandler(h)
           \/ Tick
           \/ UNCHANGED vars
    PROVE  UrgencyInv'
<1>. USE DEF UrgencyInv, TypeOK
<1>1. UNCHANGED <<pendingWakes, batches, requests, refusals, owed>>
    BY DEF SetHeartbeatWakeHandler, DisposeHandler, Tick, vars
<1>2. /\ handler' \in 0 .. lifecycles'
      /\ lifecycles' \in 0 .. LifecycleCap
      /\ timer' \in Timers \cup {NoTimer}
      /\ scheduled' \in BOOLEAN
      /\ running' \in BOOLEAN
      /\ found' \in [1 .. LifecycleCap -> Nat]
  <2>1. CASE SetHeartbeatWakeHandler
    <3>1. Schedule(NoTimer, CoalesceDelay, "normal") \in Timers
        BY ScheduleArms, DelaysAssumption
    <3>2. lifecycles \in Nat /\ lifecycles' = lifecycles + 1
          /\ lifecycles < LifecycleCap /\ handler' = lifecycles'
        BY <2>1, CapsAssumption DEF SetHeartbeatWakeHandler
    <3>3. handler' \in 0 .. lifecycles' /\ lifecycles' \in 0 .. LifecycleCap
        BY <3>2, CapsAssumption
    <3>4. found' \in [1 .. LifecycleCap -> Nat]
        BY <2>1, WorkingIsFinite DEF SetHeartbeatWakeHandler
    <3>. QED
        BY <2>1, <3>1, <3>3, <3>4 DEF SetHeartbeatWakeHandler
  <2>2. CASE \E h \in 1 .. LifecycleCap : DisposeHandler(h)
      BY <2>2, CapsAssumption DEF DisposeHandler, NoHandler
  <2>3. CASE Tick
    <3>1. timer \in Timers /\ timer.due > 0
        BY <2>3 DEF Tick
    <3>2. timer' \in Timers
        BY <2>3, <3>1 DEF Tick, Timers
    <3>. QED
        BY <2>3, <3>2 DEF Tick
  <2>4. CASE UNCHANGED vars
      BY <2>4 DEF vars
  <2>. QED
      BY <2>1, <2>2, <2>3, <2>4
<1>3. TypeOK'
    BY <1>1, <1>2
<1>. QED
    BY <1>1, <1>3 DEF RequestsKeepUrgency, HandsOverWhatItTook

LEMMA StepUrgency == UrgencyInv /\ [Next]_vars => UrgencyInv'
<1>. SUFFICES ASSUME UrgencyInv, [Next]_vars PROVE UrgencyInv'
    OBVIOUS
<1>1. CASE \E t \in Targets : RequestHeartbeat(t)
    BY <1>1, RequestUrgency
<1>2. CASE TimerFires
    BY <1>2, TimerUrgency
<1>3. CASE \E s \in Slots : BatchFails(s)
    BY <1>3, FailedUrgency
<1>4. CASE \E s \in Slots, t \in Targets : WakeIsHandled(s, t)
    BY <1>4, HandledUrgency
<1>5. CASE \E s \in Slots, t \in Targets : WakeIsRefused(s, t)
    BY <1>5, RefusedUrgency
<1>. QED
    BY <1>1, <1>2, <1>3, <1>4, <1>5, OtherStepsUrgency DEF Next

\* Every variable keeps its type (heartbeat-wake.ts).
THEOREM TypeCorrect == Spec => []TypeOK
<1>1. UrgencyInv => TypeOK
    BY DEF UrgencyInv
<1>. QED
    BY InitUrgency, StepUrgency, <1>1, PTL DEF Spec

\* A request that is yet to be handled always has a wake that is no less
\* urgent, pending or in the batch that took it: whatever is asked for after
\* it, however often its target is busy or its batch fails, and whichever
\* handler is registered (queuePendingWakeReason, heartbeat-wake.ts:137).
THEOREM UrgencyIsKept == Spec => []RequestsKeepUrgency
<1>1. UrgencyInv => RequestsKeepUrgency
    BY DEF UrgencyInv
<1>. QED
    BY InitUrgency, StepUrgency, <1>1, PTL DEF Spec

-----------------------------------------------------------------------------
(***************************************************************************)
(* The batches at work.                                                    *)
(***************************************************************************)

LEMMA UpToIsWorking ==
    ASSUME TypeOK, OverlapInv
    PROVE  /\ \A h \in 1 .. lifecycles :
                 /\ Cardinality(WorkingUpTo(h)) \in Nat
                 /\ found[h] \in Nat
           /\ WorkingUpTo(lifecycles) = Working
<1>1. \A h \in 1 .. lifecycles : WorkingUpTo(h) \in SUBSET Working
    BY DEF WorkingUpTo
<1>2. \A h \in 1 .. lifecycles : h \in 1 .. LifecycleCap
    BY CapsAssumption DEF TypeOK
<1>3. WorkingUpTo(lifecycles) = Working
  <2>1. lifecycles \in Nat
      BY CapsAssumption DEF TypeOK
  <2>2. \A s \in Working : batches[s].registration =< lifecycles
      BY <2>1 DEF OverlapInv
  <2>. QED
      BY <2>2 DEF WorkingUpTo
<1>. QED
    BY <1>1, <1>2, <1>3, WorkingIsFinite DEF TypeOK

\* A batch that goes on changes nothing, one that ends gives its place to the
\* next.
LEMMA EndsMakeRoom ==
    ASSUME TypeOK, OverlapInv, NEW s \in Slots, AtWork(s),
           UNCHANGED <<handler, lifecycles, found>>,
           \/ /\ batches' = [batches EXCEPT ![s] = Idle]
              /\ running' = FALSE
           \/ \E left \in SUBSET Targets :
                /\ left # {}
                /\ batches' = [batches EXCEPT ![s].left = left]
                /\ running' = running
    PROVE  OverlapInv'
<1>0. /\ Cardinality(Working) \in Nat /\ lifecycles \in Nat
      /\ s \in Working /\ running \in BOOLEAN
    BY WorkingIsFinite, CapsAssumption DEF TypeOK, Working
<1>1. batches \in [Slots -> Batch] /\ Idle.left = {}
    BY DEF TypeOK, Idle
<1>2. CASE batches' = [batches EXCEPT ![s] = Idle] /\ running' = FALSE
  <2>1. /\ Working' = Working \ {s}
        /\ \A z \in Working' : batches'[z] = batches[z]
      BY <1>1, <1>2 DEF Working, AtWork
  <2>2. Cardinality(Working') = Cardinality(Working) - 1
        /\ Cardinality(Working') \in Nat
      BY <1>0, <2>1, WorkingIsFinite, FS_RemoveElement, FS_CardinalityType
  <2>3. /\ lifecycles \in 1 .. lifecycles
        /\ Cardinality(Working) =< found[lifecycles] + 1
        /\ found[lifecycles] \in Nat
    <3>1. lifecycles \in 1 .. lifecycles
        BY <1>0 DEF OverlapInv
    <3>. QED
        BY <3>1, UpToIsWorking DEF OverlapInv, OverlapIsInherited
  <2>4. Cardinality(Working') =< found'[lifecycles']
      BY <1>0, <2>2, <2>3
  <2>5. ASSUME NEW h \in 1 .. lifecycles
        PROVE  Cardinality(WorkingUpTo(h)') =< found'[h] + 1
    <3>1. WorkingUpTo(h)' \in SUBSET WorkingUpTo(h)
        BY <2>1 DEF WorkingUpTo
    <3>2. IsFiniteSet(WorkingUpTo(h))
        BY WorkingIsFinite DEF WorkingUpTo
    <3>3. /\ Cardinality(WorkingUpTo(h)') =< Cardinality(WorkingUpTo(h))
          /\ Cardinality(WorkingUpTo(h)') \in Nat
        BY <3>1, <3>2, FS_Subset, FS_CardinalityType
    <3>4. Cardinality(WorkingUpTo(h)) =< found[h] + 1
        BY DEF OverlapInv, OverlapIsInherited
    <3>. QED
        BY <3>3, <3>4, UpToIsWorking
  <2>. QED
      BY <2>1, <2>4, <2>5 DEF OverlapInv, OverlapIsInherited
<1>3. CASE \E left \in SUBSET Targets :
             /\ left # {}
             /\ batches' = [batches EXCEPT ![s].left = left]
             /\ running' = running
  <2>1. PICK left \in SUBSET Targets :
             /\ left # {}
             /\ batches' = [batches EXCEPT ![s].left = left]
             /\ running' = running
      BY <1>3
  <2>2. \A z \in Slots :
           /\ batches'[z].left # {} <=> batches[z].left # {}
           /\ batches'[z].registration = batches[z].registration
      BY <1>1, <2>1 DEF AtWork, Batch
  <2>3. Working' = Working
      BY <2>2 DEF Working, AtWork
  <2>4. \A h \in 1 .. lifecycles : WorkingUpTo(h)' = WorkingUpTo(h)
      BY <2>2, <2>3 DEF WorkingUpTo, Working
  <2>. QED
      BY <2>1, <2>2, <2>3, <2>4
         DEF OverlapInv, OverlapIsInherited, Working
<1>. QED
    BY <1>2, <1>3

\* The handler in force, the latest, starts a batch where it has left room.
LEMMA StartsTakeTheRoom ==
    ASSUME TypeOK, OverlapInv, handler # NoHandler, ~running, running' = TRUE,
           NEW delay, StartBatch(delay),
           UNCHANGED <<handler, lifecycles, found>>
    PROVE  OverlapInv'
<1>1. /\ handler = lifecycles
      /\ lifecycles \in 1 .. lifecycles
      /\ Cardinality(Working) =< found[lifecycles]
    BY CapsAssumption DEF OverlapInv, TypeOK, NoHandler
<1>2. PICK s \in Slots :
         /\ ~AtWork(s)
         /\ batches' = [batches EXCEPT ![s] =
               [wakes |-> pendingWakes, left |-> Pending, delay |-> delay,
                registration |-> handler]]
    BY DEF StartBatch
<1>3. /\ batches'[s].registration = lifecycles
      /\ \A z \in Slots : z # s => batches'[z] = batches[z]
      /\ s \notin Working
    BY <1>1, <1>2 DEF TypeOK, Working
<1>4. Working' \in SUBSET (Working \cup {s})
    BY <1>3 DEF Working, AtWork
<1>5. /\ IsFiniteSet(Working \cup {s})
      /\ Cardinality(Working \cup {s}) = Cardinality(Working) + 1
    BY <1>3, WorkingIsFinite, FS_AddElement
<1>6. Cardinality(Working') =< Cardinality(Working) + 1
      /\ Cardinality(Working') \in Nat
    BY <1>4, <1>5, FS_Subset, FS_CardinalityType
<1>7. ASSUME NEW h \in 1 .. lifecycles
      PROVE  Cardinality(WorkingUpTo(h)') =< found[h] + 1
  <2>1. CASE h = lifecycles
    <3>1. WorkingUpTo(h)' \in SUBSET Working'
        BY DEF WorkingUpTo
    <3>2. IsFiniteSet(Working')
        BY <1>4, <1>5, FS_Subset
    <3>3. Cardinality(WorkingUpTo(h)') =< Cardinality(Working')
          /\ Cardinality(WorkingUpTo(h)') \in Nat
        BY <3>1, <3>2, FS_Subset, FS_CardinalityType
    <3>. QED
        BY <1>1, <1>6, <2>1, <3>3, WorkingIsFinite, UpToIsWorking
  <2>2. CASE h # lifecycles
    <3>1. ~(lifecycles =< h)
        BY <2>2, CapsAssumption DEF TypeOK
    <3>2. WorkingUpTo(h)' = WorkingUpTo(h)
        BY <1>3, <3>1 DEF WorkingUpTo, Working, AtWork
    <3>. QED
        BY <3>2 DEF OverlapInv, OverlapIsInherited
  <2>. QED
      BY <2>1, <2>2
<1>8. \A z \in Working' : batches'[z].registration \in 1 .. lifecycles
  <2>. SUFFICES ASSUME NEW z \in Working'
                PROVE  batches'[z].registration \in 1 .. lifecycles
      OBVIOUS
  <2>1. CASE z = s
      BY <1>1, <1>3, <2>1
  <2>2. CASE z # s
      BY <1>3, <1>4, <2>2 DEF OverlapInv, Working
  <2>. QED
      BY <2>1, <2>2
<1>. QED
    BY <1>7, <1>8 DEF OverlapInv, OverlapIsInherited

\* A new registration takes stock of what is at work.
LEMMA RegistrationsTakeStock ==
    ASSUME TypeOK, OverlapInv, SetHeartbeatWakeHandler
    PROVE  OverlapInv'
<1>1. /\ lifecycles \in Nat /\ lifecycles < LifecycleCap
      /\ lifecycles' = lifecycles + 1 /\ handler' = lifecycles'
      /\ running' = FALSE /\ batches' = batches
      /\ found' = [found EXCEPT ![lifecycles'] = Cardinality(Working)]
    BY CapsAssumption DEF SetHeartbeatWakeHandler, TypeOK
<1>2. Working' = Working /\ \A h : WorkingUpTo(h)' = WorkingUpTo(h)
    BY <1>1 DEF WorkingUpTo, Working, AtWork
<1>3. /\ lifecycles' \in 1 .. LifecycleCap
      /\ found'[lifecycles'] = Cardinality(Working)
      /\ \A h \in 1 .. lifecycles : found'[h] = found[h]
    BY <1>1, CapsAssumption DEF TypeOK
<1>4. \A s \in Working' : batches'[s].registration \in 1 .. lifecycles'
    BY <1>1, <1>2 DEF OverlapInv
<1>5. ASSUME NEW h \in 1 .. lifecycles'
      PROVE  Cardinality(WorkingUpTo(h)) =< found'[h] + 1
  <2>1. CASE h = lifecycles'
    <3>1. WorkingUpTo(h) \in SUBSET Working
        BY DEF WorkingUpTo
    <3>2. /\ Cardinality(WorkingUpTo(h)) =< Cardinality(Working)
          /\ Cardinality(WorkingUpTo(h)) \in Nat
          /\ Cardinality(Working) \in Nat
        BY <3>1, WorkingIsFinite
    <3>. QED
        BY <1>3, <2>1, <3>2
  <2>2. CASE h # lifecycles'
    <3>1. h \in 1 .. lifecycles
        BY <1>1, <2>2
    <3>. QED
        BY <1>3, <3>1 DEF OverlapInv, OverlapIsInherited
  <2>. QED
      BY <2>1, <2>2
<1>6. Cardinality(Working') =< found'[lifecycles']
    BY <1>2, <1>3, WorkingIsFinite
<1>. QED
    BY <1>1, <1>2, <1>4, <1>5, <1>6 DEF OverlapInv, OverlapIsInherited

LEMMA StepKeepsOverlap ==
    ASSUME TypeOK, OverlapInv, [Next]_vars
    PROVE  OverlapInv'
<1>1. ASSUME NEW s \in Slots, NEW t \in Targets, NEW pending, NEW armed,
             t \in batches[s].left, GoOn(s, t, pending, armed),
             UNCHANGED <<handler, lifecycles, found>>
      PROVE  OverlapInv'
  <2>1. AtWork(s) /\ batches[s].left \in SUBSET Targets
      BY <1>1 DEF AtWork, TypeOK, Batch
  <2>2. \/ batches' = [batches EXCEPT ![s] = Idle] /\ running' = FALSE
        \/ /\ batches[s].left \ {t} # {}
           /\ batches' = [batches EXCEPT ![s].left = batches[s].left \ {t}]
           /\ running' = running
      BY <1>1 DEF GoOn, EndBatch
  <2>. QED
      BY <1>1, <2>1, <2>2, EndsMakeRoom
<1>2. CASE \E s \in Slots, t \in Targets : WakeIsHandled(s, t)
    BY <1>1, <1>2 DEF WakeIsHandled
<1>3. CASE \E s \in Slots, t \in Targets : WakeIsRefused(s, t)
    BY <1>1, <1>3 DEF WakeIsRefused
<1>4. CASE \E s \in Slots : BatchFails(s)
    BY <1>4, EndsMakeRoom DEF BatchFails, EndBatch
<1>5. ASSUME UNCHANGED <<running, batches, lifecycles, found>>,
             handler' \in {handler, NoHandler}
      PROVE  OverlapInv'
  <2>1. Working' = Working /\ \A h : WorkingUpTo(h)' = WorkingUpTo(h)
      BY <1>5 DEF WorkingUpTo, Working, AtWork
  <2>. QED
      BY <1>5, <2>1 DEF OverlapInv, OverlapIsInherited
<1>6. CASE TimerFires
  <2>1. CASE UNCHANGED <<running, batches>>
      BY <1>5, <1>6, <2>1 DEF TimerFires
  <2>2. CASE handler # NoHandler /\ StartsNow /\ running' = TRUE
             /\ StartBatch(timer.delay)
      BY <1>6, <2>2, StartsTakeTheRoom DEF TimerFires, StartsNow
  <2>. QED
      BY <1>6, <2>1, <2>2 DEF TimerFires
<1>7. CASE SetHeartbeatWakeHandler
    BY <1>7, RegistrationsTakeStock
<1>8. CASE \/ \E t \in Targets : RequestHeartbeat(t)
           \/ \E h \in 1 .. LifecycleCap : DisposeHandler(h)
           \/ Tick
           \/ UNCHANGED vars
    BY <1>5, <1>8 DEF RequestHeartbeat, DisposeHandler, Tick, vars
<1>. QED
    BY <1>2, <1>3, <1>4, <1>6, <1>7, <1>8 DEF Next

\* The batches of a registration and the older ones it found at work are never
\* more than one in addition to what it found: however late a former handler's
\* batch ends, clearing the flag of one that is at work by then, it makes room
\* for one batch in its own place and no more (heartbeat-wake.ts:237, 262).
THEOREM BatchesOverlapAsInherited == Spec => []OverlapIsInherited
<1>1. Init => OverlapInv
  <2>. SUFFICES ASSUME Init PROVE OverlapInv
      OBVIOUS
  <2>1. Working = {} /\ lifecycles = 0 /\ handler = NoHandler
      BY DEF Init, Working, AtWork, Idle
  <2>. QED
      BY <2>1 DEF OverlapInv, OverlapIsInherited
<1>2. TypeOK /\ OverlapInv /\ [Next]_vars => OverlapInv'
    BY StepKeepsOverlap
<1>3. OverlapInv => OverlapIsInherited
    BY DEF OverlapInv
<1>. QED
    BY <1>1, <1>2, <1>3, TypeCorrect, PTL DEF Spec
==============================================================================
