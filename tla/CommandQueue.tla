---------------------------- MODULE CommandQueue ----------------------------
(***************************************************************************)
(* The in-process command queue of the gateway                             *)
(* (src/process/command-queue.ts).  Work is enqueued into named lanes;     *)
(* each lane runs up to maxConcurrent tasks, most urgent and then oldest   *)
(* first.  A running task may be given up on after its lane timeout, a     *)
(* lane may be paused, cleared or reset by a recovery path, and the whole  *)
(* queue may be drained and reset by an in-process restart, all while the  *)
(* tasks it started keep executing.                                        *)
(*                                                                         *)
(* A call of enqueueCommandInLane is an element of Entries.  taskIds are   *)
(* fresh numbers, one per dequeued entry (nextTaskId++), so an entry also  *)
(* stands for its task id.  Every function of the module is synchronous,   *)
(* hence one action; what is asynchronous is the task, its timeout and the *)
(* continuation that runs after either of them.                            *)
(***************************************************************************)
EXTENDS Integers, Sequences, FiniteSets, SequencesExt

CONSTANTS Entries,        \* calls of enqueueCommandInLane
          Lanes,          \* lane names
          ProbeLanes,     \* those named auth-probe:* and session:probe-*
          Priorities,     \* of resolveQueuePriority: 1, 0, -1 for "foreground",
                          \* "normal", "background"
          LaneTimeouts,   \* whether a call may, and may not, set a timeout
          Waiters,        \* calls of waitForActiveTasks
          ConcurrencyCap, \* bounds the argument of setCommandLaneConcurrency
          GenerationCap   \* bounds the resets of a lane

ASSUME CapsAssumption == ConcurrencyCap \in Nat /\ GenerationCap \in Nat

ASSUME LanesAssumption == ProbeLanes \subseteq Lanes

ASSUME OptionsAssumption ==
    Priorities \subseteq {1, 0, -1} /\ LaneTimeouts \subseteq BOOLEAN

ASSUME EntriesAssumption == IsFiniteSet(Entries)

VARIABLES
    gatewayDraining,   \* new work is refused: a restart is under way
    queue,             \* per lane, the entries that wait, in dequeue order
    activeTaskIds,     \* per lane, the tasks that hold a slot
    maxConcurrent,     \* per lane, the number of slots
    generation,        \* per lane, the number of resets so far
    nextQueueSequence,
    entry,             \* per entry, what it was enqueued with
    taskGeneration,    \* per entry, its lane's generation when it started
    phase,             \* per entry, how far its promise has come
    executing,         \* the entries whose task() has not settled yet
    waiter,            \* per call of waitForActiveTasks, its progress
    awaited            \* per such call, the tasks that were active then

laneVars == <<queue, activeTaskIds, maxConcurrent, generation>>
entryVars == <<nextQueueSequence, entry, taskGeneration, phase, executing>>
waiterVars == <<waiter, awaited>>
vars == <<gatewayDraining, laneVars, entryVars, waiterVars>>

EntryOptions == [lane : Lanes, priority : Priorities, sequence : Nat,
                 timed : BOOLEAN]

NoEntry == [lane |-> "none"]

\* refused:   rejected with GatewayDrainingError
\* cleared:   rejected with CommandLaneClearedError
\* settled:   the task settled, the continuation has yet to run
\* timedOut:  CommandLaneTaskTimeoutError won the race, likewise
\* done:      the caller's promise is resolved or rejected
Phases == {"new", "refused", "queued", "cleared", "running", "settled",
           "timedOut", "done"}

Started == {"running", "settled", "timedOut"}

\* idle: not called yet.  A pending call has a timer when it is waitingUntil.
Pending == {"waiting", "waitingUntil"}

WaiterStates == Pending \cup {"idle", "drained", "notDrained"}

-----------------------------------------------------------------------------
(***************************************************************************)
(* The scheduler.                                                          *)
(***************************************************************************)

Precedes(a, b) ==
    \/ entry[a].priority > entry[b].priority
    \/ /\ entry[a].priority = entry[b].priority
       /\ entry[a].sequence < entry[b].sequence

\* (mutant) In front of the entries that are as urgent: last in, first out.
InsertionPointBeforeEquals(q, priority, sequence) ==
    LET behind == { i \in 1 .. Len(q) : entry[q[i]].priority =< priority }
    IN  IF behind = {} THEN Len(q) + 1 ELSE Min(behind)

\* An entry yields to a new one of this priority and sequence number.
Yields(e, priority, sequence) ==
    \/ entry[e].priority < priority
    \/ entry[e].priority = priority /\ entry[e].sequence > sequence

\* enqueueLaneEntry: in front of the first that yields, else at the end.
InsertionPoint(q, priority, sequence) ==
    LET behind == { i \in 1 .. Len(q) : Yields(q[i], priority, sequence) }
    IN  IF behind = {} THEN Len(q) + 1 ELSE Min(behind)

EnqueueLaneEntry(q, e, priority, sequence) ==
    InsertAt(q, InsertionPoint(q, priority, sequence), e)

\* (mutant) The loop runs while active =< slots.
BurstOneTooMany(q, active, slots) ==
    LET free == slots + 1 - Cardinality(active)
    IN  IF free =< 0 THEN 0 ELSE IF free < Len(q) THEN free ELSE Len(q)

\* How many entries of q the loop of pump() shifts while `active` tasks hold
\* slots of a lane that has `slots` of them.
Burst(q, active, slots) ==
    LET free == slots - Cardinality(active)
    IN  IF free =< 0 THEN 0 ELSE IF free < Len(q) THEN free ELSE Len(q)

\* drainLane on each of `pumped`, from the queues, slots and phases the caller
\* has just left behind.  pump() runs to its end before anything else does:
\* the draining flag is only ever seen TRUE from inside an onWait callback,
\* and the one caller that passes onWait (cron/service/ops.ts) only logs.
DrainLanes(pumped, q, active, phases) ==
    LET burst == [l \in Lanes |->
                    IF l \in pumped
                    THEN Burst(q[l], active[l], maxConcurrent'[l]) ELSE 0]
        launch == [l \in Lanes |-> { q[l][i] : i \in 1 .. burst[l] }]
        launched == UNION { launch[l] : l \in Lanes }
    IN  /\ queue' = [l \in Lanes |-> SubSeq(q[l], burst[l] + 1, Len(q[l]))]
        /\ activeTaskIds' = [l \in Lanes |-> active[l] \cup launch[l]]
        /\ phase' = [e \in Entries |->
                       IF e \in launched THEN "running" ELSE phases[e]]
        /\ executing' = executing \cup launched
        /\ taskGeneration' =
             [e \in Entries |-> IF e \in launched
                                THEN generation'[entry'[e].lane]
                                ELSE taskGeneration[e]]

\* (mutant) One awaited task that is through is enough.
NotifyOnFirstCompletion ==
    waiter' = [w \in Waiters |->
                 IF /\ waiter[w] \in Pending
                    /\ \E e \in awaited[w] :
                          \A l \in Lanes : e \notin activeTaskIds'[l]
                 THEN "drained" ELSE waiter[w]]

\* notifyActiveTaskWaiters.  Tasks started by a pump of the same handler have
\* fresh ids, so it does not matter that some callers notify before pumping.
NotifyActiveTaskWaiters ==
    waiter' = [w \in Waiters |->
                 IF /\ waiter[w] \in Pending
                    /\ \A l \in Lanes : awaited[w] \cap activeTaskIds'[l] = {}
                 THEN "drained" ELSE waiter[w]]

-----------------------------------------------------------------------------
(***************************************************************************)
(* The operations.                                                         *)
(***************************************************************************)

Init ==
    /\ gatewayDraining = FALSE
    /\ queue = [l \in Lanes |-> <<>>]
    /\ activeTaskIds = [l \in Lanes |-> {}]
    /\ maxConcurrent = [l \in Lanes |-> 1]
    /\ generation = [l \in Lanes |-> 0]
    /\ nextQueueSequence = 1
    /\ entry = [e \in Entries |-> NoEntry]
    /\ taskGeneration = [e \in Entries |-> 0]
    /\ phase = [e \in Entries |-> "new"]
    /\ executing = {}
    /\ waiter = [w \in Waiters |-> "idle"]
    /\ awaited = [w \in Waiters |-> {}]

\* enqueueCommandInLane, with and without a lane timeout.
Enqueue(e, l, priority, timed) ==
    /\ phase[e] = "new"
    /\ ~gatewayDraining
    /\ entry' = [entry EXCEPT ![e] =
                   [lane |-> l, priority |-> priority,
                    sequence |-> nextQueueSequence, timed |-> timed]]
    /\ nextQueueSequence' = nextQueueSequence + 1
    /\ UNCHANGED <<gatewayDraining, maxConcurrent, generation, waiterVars>>
    /\ DrainLanes({l},
                  [queue EXCEPT ![l] =
                     EnqueueLaneEntry(@, e, priority, nextQueueSequence)],
                  activeTaskIds,
                  [phase EXCEPT ![e] = "queued"])

EnqueueRefused(e) ==
    /\ phase[e] = "new"
    /\ gatewayDraining
    /\ phase' = [phase EXCEPT ![e] = "refused"]
    /\ UNCHANGED <<gatewayDraining, laneVars, nextQueueSequence, entry,
                   taskGeneration, executing, waiterVars>>

MarkGatewayDraining ==
    /\ gatewayDraining' = TRUE
    /\ UNCHANGED <<laneVars, entryVars, waiterVars>>

\* (mutant) A resumed lane is not drained.
SetCommandLaneConcurrencyUndrained(l, n) ==
    /\ n >= 0
    /\ maxConcurrent' = [maxConcurrent EXCEPT ![l] = n]
    /\ UNCHANGED <<gatewayDraining, queue, activeTaskIds, generation, entryVars,
                   waiterVars>>

\* setCommandLaneConcurrency, which also meets negative arguments.
SetCommandLaneConcurrency(l, n) ==
    LET minConcurrent == IF l \in ProbeLanes THEN 1 ELSE 0
        slots == IF n < minConcurrent THEN minConcurrent ELSE n
    IN  /\ maxConcurrent' = [maxConcurrent EXCEPT ![l] = slots]
        /\ UNCHANGED <<gatewayDraining, generation, nextQueueSequence, entry,
                       waiterVars>>
        /\ DrainLanes(IF slots > 0 THEN {l} ELSE {},
                      queue, activeTaskIds, phase)

\* The rejected entries never held a slot, so no waiter is notified.
ClearCommandLane(l) ==
    /\ queue[l] # <<>>
    /\ queue' = [queue EXCEPT ![l] = <<>>]
    /\ phase' = [e \in Entries |-> IF e \in ToSet(queue[l]) THEN "cleared"
                                                          ELSE phase[e]]
    /\ UNCHANGED <<gatewayDraining, activeTaskIds, maxConcurrent, generation,
                   nextQueueSequence, entry, taskGeneration, executing,
                   waiterVars>>

NextGeneration(lanes) ==
    [l \in Lanes |-> IF l \in lanes THEN generation[l] + 1 ELSE generation[l]]

SlotsAfterReset(lanes) ==
    [l \in Lanes |-> IF l \in lanes THEN {} ELSE activeTaskIds[l]]

\* (mutants) The old tasks keep their slots; waiters are not notified.
ResetLanesKeepingSlots(lanes) ==
    /\ generation' = NextGeneration(lanes)
    /\ UNCHANGED <<maxConcurrent, nextQueueSequence, entry, awaited>>
    /\ DrainLanes(lanes, queue, activeTaskIds, phase)
    /\ NotifyActiveTaskWaiters

ResetLanesSilently(lanes) ==
    /\ generation' = NextGeneration(lanes)
    /\ UNCHANGED <<maxConcurrent, nextQueueSequence, entry, waiterVars>>
    /\ DrainLanes(lanes, queue, SlotsAfterReset(lanes), phase)

\* The generation moves on, every slot is free, and what waited is pumped.
ResetLanes(lanes) ==
    /\ generation' = NextGeneration(lanes)
    /\ UNCHANGED <<maxConcurrent, nextQueueSequence, entry, awaited>>
    /\ DrainLanes(lanes, queue, SlotsAfterReset(lanes), phase)
    /\ NotifyActiveTaskWaiters

ResetCommandLane(l) ==
    /\ generation[l] < GenerationCap
    /\ UNCHANGED gatewayDraining
    /\ ResetLanes({l})

ResetAllLanes ==
    /\ \A l \in Lanes : generation[l] < GenerationCap
    /\ gatewayDraining' = FALSE
    /\ ResetLanes(Lanes)

-----------------------------------------------------------------------------
(***************************************************************************)
(* A started task.                                                         *)
(***************************************************************************)

\* task() resolves or rejects.  After its lane timeout nobody listens.
TaskSettles(e) ==
    /\ e \in executing
    /\ executing' = executing \ {e}
    /\ phase' = [phase EXCEPT ![e] = IF @ = "running" THEN "settled" ELSE @]
    /\ UNCHANGED <<gatewayDraining, laneVars, nextQueueSequence, entry,
                   taskGeneration, waiterVars>>

\* armTimeout finds no progress for taskTimeoutMs.
TaskTimesOut(e) ==
    /\ phase[e] = "running"
    /\ entry[e].timed
    /\ phase' = [phase EXCEPT ![e] = "timedOut"]
    /\ UNCHANGED <<gatewayDraining, laneVars, nextQueueSequence, entry,
                   taskGeneration, executing, waiterVars>>

\* (mutant) Only the success path pumps the lane again.
CompleteTaskPumpingOnSuccess(e) ==
    /\ phase[e] \in {"settled", "timedOut"}
    /\ UNCHANGED <<gatewayDraining, maxConcurrent, generation,
                   nextQueueSequence, entry, awaited>>
    /\ LET l == entry[e].lane
       IN  /\ DrainLanes(IF phase[e] = "settled" THEN {l} ELSE {}, queue,
                         [activeTaskIds EXCEPT ![l] = @ \ {e}],
                         [phase EXCEPT ![e] = "done"])
           /\ NotifyActiveTaskWaiters

\* The continuation of runQueueEntryTask in pump().  A task of an earlier
\* generation gives nothing back: its slot went with the reset.
CompleteTask(e) ==
    /\ phase[e] \in {"settled", "timedOut"}
    /\ UNCHANGED <<gatewayDraining, maxConcurrent, generation,
                   nextQueueSequence, entry, awaited>>
    /\ LET l == entry[e].lane
           completed == [phase EXCEPT ![e] = "done"]
       IN  \/ /\ taskGeneration[e] = generation[l]
              /\ DrainLanes({l}, queue, [activeTaskIds EXCEPT ![l] = @ \ {e}],
                            completed)
              /\ NotifyActiveTaskWaiters
           \/ /\ taskGeneration[e] # generation[l]
              /\ phase' = completed
              /\ UNCHANGED <<queue, activeTaskIds, taskGeneration, executing,
                             waiter>>

-----------------------------------------------------------------------------
(***************************************************************************)
(* waitForActiveTasks, called with no timeout, with one, and with one that *)
(* is not positive.                                                        *)
(***************************************************************************)

WaitForActiveTasks(w, timeout) ==
    LET activeAtStart == UNION { activeTaskIds[l] : l \in Lanes }
    IN  /\ waiter[w] = "idle"
        /\ awaited' = [awaited EXCEPT ![w] = activeAtStart]
        /\ waiter' = [waiter EXCEPT ![w] =
                        IF activeAtStart = {} THEN "drained"
                        ELSE CASE timeout = "none" -> "waiting"
                               [] timeout = "zero" -> "notDrained"
                               [] timeout = "positive" -> "waitingUntil"]
        /\ UNCHANGED <<gatewayDraining, laneVars, entryVars>>

WaiterTimesOut(w) ==
    /\ waiter[w] = "waitingUntil"
    /\ waiter' = [waiter EXCEPT ![w] = "notDrained"]
    /\ UNCHANGED <<gatewayDraining, laneVars, entryVars, awaited>>

-----------------------------------------------------------------------------

Next ==
    \/ \E e \in Entries :
          \/ \E l \in Lanes, priority \in Priorities, timed \in LaneTimeouts :
                Enqueue(e, l, priority, timed)
          \/ EnqueueRefused(e)
          \/ TaskSettles(e)
          \/ TaskTimesOut(e)
          \/ CompleteTask(e)
    \/ \E l \in Lanes :
          \/ \E n \in -1 .. ConcurrencyCap : SetCommandLaneConcurrency(l, n)
          \/ ClearCommandLane(l)
          \/ ResetCommandLane(l)
    \/ MarkGatewayDraining
    \/ ResetAllLanes
    \/ \E w \in Waiters :
          \/ \E timeout \in {"none", "zero", "positive"} :
                WaitForActiveTasks(w, timeout)
          \/ WaiterTimesOut(w)

Spec == Init /\ [][Next]_vars

-----------------------------------------------------------------------------
(***************************************************************************)
(* Properties.                                                             *)
(***************************************************************************)

TypeOK ==
    /\ gatewayDraining \in BOOLEAN
    /\ queue \in [Lanes -> Seq(Entries)]
    /\ activeTaskIds \in [Lanes -> SUBSET Entries]
    /\ maxConcurrent \in [Lanes -> Nat]
    /\ generation \in [Lanes -> Nat]
    /\ nextQueueSequence \in Nat
    /\ entry \in [Entries -> EntryOptions \cup {NoEntry}]
    /\ taskGeneration \in [Entries -> Nat]
    /\ phase \in [Entries -> Phases]
    /\ executing \subseteq Entries
    /\ waiter \in [Waiters -> WaiterStates]
    /\ awaited \in [Waiters -> SUBSET Entries]

\* Every queue is in dequeue order, so pump() may take the head: no entry sits
\* behind one that is less urgent, or as urgent and younger.
QueueInDequeueOrder ==
    \A l \in Lanes : \A i, j \in 1 .. Len(queue[l]) :
        i < j => Precedes(queue[l][i], queue[l][j])

\* An entry whose promise is pending is where the code will find it again: a
\* queued one in the queue of its lane, and nowhere twice, a started one
\* holding a slot of its lane for as long as the lane is not reset.
SlotHeldUntilCompletionOrReset ==
    \A e \in Entries, l \in Lanes :
        e \in activeTaskIds[l] <=>
            /\ phase[e] \in Started
            /\ entry[e].lane = l
            /\ taskGeneration[e] = generation[l]

QueuedEntriesAreInTheirLane ==
    /\ \A e \in Entries, l \in Lanes :
          e \in ToSet(queue[l]) <=> phase[e] = "queued" /\ entry[e].lane = l
    /\ \A l \in Lanes : IsInjective(queue[l])

\* Work never waits beside a free slot, whichever of enqueueing, completion,
\* timeout, resume and reset freed it: nothing would pump the lane later.
LanesNeverStall ==
    \A l \in Lanes :
        queue[l] # <<>> => Cardinality(activeTaskIds[l]) >= maxConcurrent[l]

\* A call of waitForActiveTasks is left pending only while a task it awaits
\* holds a slot; every operation that frees the last one wakes it.
NoMissedWakeup ==
    \A w \in Waiters :
        waiter[w] \in Pending =>
            \E l \in Lanes : awaited[w] \cap activeTaskIds[l] # {}

\* It reports { drained: true } only once none of the tasks it awaits holds a
\* slot, and stays right: a task never gets its slot back.
DrainedVerdictSound ==
    \A w \in Waiters :
        waiter[w] = "drained" =>
            \A l \in Lanes : awaited[w] \cap activeTaskIds[l] = {}

\* The scheduler keeps the promise stated in LaneContract.
Stage(e) ==
    CASE phase[e] = "new" -> "new"
      [] phase[e] \in {"refused", "cleared"} -> "dropped"
      [] phase[e] = "queued" -> "waiting"
      [] OTHER -> IF e \in activeTaskIds[entry[e].lane] THEN "holding"
                                                       ELSE "released"

Contract == INSTANCE LaneContract
              WITH stage <- [e \in Entries |-> Stage(e)],
                   ticket <- entry,
                   slots <- maxConcurrent

ImplementsContract == Contract!Spec
=============================================================================
