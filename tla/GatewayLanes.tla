----------------------------- MODULE GatewayLanes -----------------------------
(***************************************************************************)
(* How the gateway uses the command queue.  An agent run takes a slot of   *)
(* its session's lane and, from inside that task, one of a global lane, so *)
(* a session has one run at a time and the gateway as many as configured   *)
(* (src/agents/pi-embedded-runner/run.ts, lanes.ts).  A manual cron run    *)
(* holds a slot of the cron lane around all of that                        *)
(* (src/cron/service/ops.ts).  A run that meets an exhausted quota pauses  *)
(* its global lane until a timer resumes it                                *)
(* (src/agents/session-suspension.ts), a reload of the configuration sets  *)
(* the slots of the global lanes (src/gateway/server-lanes.ts), and an     *)
(* in-process restart drains and resets all lanes                          *)
(* (src/cli/gateway-cli/run-loop.ts).                                      *)
(*                                                                         *)
(* The queue itself is CommandQueue, whose actions are taken as they are.  *)
(* Entry <<r, i>> is the i-th call of enqueueCommandInLane of run r.       *)
(***************************************************************************)
EXTENDS CommandQueue

CONSTANTS Runs,       \* agent runs
          RunMixes,   \* what the runs may be: functions from Runs to RunKinds
          SessionLane,\* per run, the lane of its session
          Suspenders, \* those runs that may meet an exhausted quota
          Configs     \* a sequence: the configurations, as they are written

\* "none" is a run that is never called.
RunKinds == {"reply", "subagent", "cron", "none"}

GlobalLanes == {"main", "subagent", "cron", "cron-nested"}

ASSUME GlobalLanesAssumption ==
    GlobalLanes \subseteq Lanes /\ ProbeLanes \cap GlobalLanes = {}

ASSUME RunsAssumption ==
    /\ RunMixes \subseteq [Runs -> RunKinds]
    /\ SessionLane \in [Runs -> Lanes \ GlobalLanes]
    /\ Suspenders \subseteq Runs
    /\ {1, 0, -1} \subseteq Priorities
    /\ LaneTimeouts = BOOLEAN
    /\ Entries = Runs \X (1 .. 3)

\* agent-limits.ts and cron-limits.ts raise every limit to at least one.
ASSUME ConfigsAssumption ==
    /\ Configs # <<>>
    /\ Configs \in Seq([main : 1 .. ConcurrencyCap,
                        subagent : 1 .. ConcurrencyCap,
                        cron : 1 .. ConcurrencyCap])

VARIABLES
    runKind,      \* per run, what it is; one of RunMixes, never changed
    config,       \* the configuration in force, an index of Configs
    runConfig,    \* the configuration each of Suspenders was called with
    suspension,   \* per run, how far its call of suspendSession has come
    resumeTimer,  \* per lane, what its timer will set; 0: there is none
    lifecycle     \* of the gateway

gatewayVars == <<runKind, config, runConfig, suspension, resumeTimer, lifecycle>>
allVars == <<vars, gatewayVars>>

-----------------------------------------------------------------------------
(***************************************************************************)
(* The lanes of a run.                                                     *)
(***************************************************************************)

\* (mutant) The lane the caller names, also when that is the cron lane.
GlobalLaneAsNamed(lane) == lane

\* resolveGlobalLane and resolveCronAgentLane: work inside a cron job never
\* asks for a second slot of the lane the job holds.
ResolveGlobalLane(lane) == IF lane = "cron" THEN "cron-nested" ELSE lane

LanePath(r) ==
    CASE runKind[r] = "none" -> <<SessionLane[r]>>
      [] runKind[r] = "reply" ->
            <<SessionLane[r], ResolveGlobalLane("main")>>
      [] runKind[r] = "subagent" ->
            <<SessionLane[r], ResolveGlobalLane("subagent")>>
      [] runKind[r] = "cron" ->
            <<"cron", SessionLane[r], ResolveGlobalLane("cron")>>

Depth(r) == Len(LanePath(r))

Outermost(r) == <<r, 1>>
Innermost(r) == <<r, Depth(r)>>

Answered == {"refused", "cleared", "done"}

ConfiguredSlots(c, l) ==
    CASE l = "main" -> Configs[c].main
      [] l = "subagent" -> Configs[c].subagent
      [] l \in {"cron", "cron-nested"} -> Configs[c].cron

\* resolveLaneResumeConcurrency
LaneResumeConcurrency(c, l) ==
    IF l \in GlobalLanes THEN ConfiguredSlots(c, l) ELSE 1

-----------------------------------------------------------------------------
(***************************************************************************)
(* Runs.                                                                   *)
(***************************************************************************)

\* resolveEmbeddedRunSessionQueuePriority: the user's own before the rest.
EntryPriority(r, i) ==
    CASE runKind[r] = "reply" -> 1
      [] runKind[r] = "cron" /\ i > 1 -> -1
      [] OTHER -> 0

\* The i-th enqueueCommandInLane of a run.  Only the innermost has a timeout,
\* the run's own and some grace.
EnqueueOf(r, i) ==
    \/ EnqueueRefused(<<r, i>>)
    \/ Enqueue(<<r, i>>, LanePath(r)[i], EntryPriority(r, i), i = Depth(r))

\* runEmbeddedPiAgent, or enqueueRun of the cron service, is called.
StartRun(r) ==
    /\ runKind[r] # "none"
    /\ EnqueueOf(r, 1)
    /\ runConfig' = IF r \in Suspenders
                    THEN [runConfig EXCEPT ![r] = config] ELSE runConfig
    /\ UNCHANGED <<runKind, config, suspension, resumeTimer, lifecycle>>

\* A task that holds a slot of an outer lane enqueues the next one.
EnqueueInner(r, i) ==
    /\ i < Depth(r)
    /\ <<r, i>> \in executing
    /\ EnqueueOf(r, i + 1)
    /\ UNCHANGED gatewayVars

\* (mutant) enqueueGlobal is called but not returned.
OuterSettlesAtOnce(r, i) ==
    /\ i < Depth(r)
    /\ phase[<<r, i + 1>>] # "new"
    /\ TaskSettles(<<r, i>>)
    /\ UNCHANGED gatewayVars

\* The outer task follows the inner promise.
OuterSettles(r, i) ==
    /\ i < Depth(r)
    /\ phase[<<r, i + 1>>] \in Answered
    /\ TaskSettles(<<r, i>>)
    /\ UNCHANGED gatewayVars

\* It ends at once when the run was aborted before it went further.
OuterAborts(r, i) ==
    /\ i < Depth(r)
    /\ phase[<<r, i + 1>>] = "new"
    /\ TaskSettles(<<r, i>>)
    /\ UNCHANGED gatewayVars

\* executeJobCoreWithTimeout: the job's time is up, whatever its run does.
JobTimesOut(r) ==
    /\ runKind[r] = "cron"
    /\ TaskSettles(Outermost(r))
    /\ UNCHANGED gatewayVars

RunSettles(r) ==
    /\ TaskSettles(Innermost(r))
    /\ UNCHANGED gatewayVars

RunTimesOut(r) ==
    /\ TaskTimesOut(Innermost(r))
    /\ UNCHANGED gatewayVars

SlotIsFreed(e) ==
    /\ CompleteTask(e)
    /\ UNCHANGED gatewayVars

\* A message that interrupts clears its session's lane
\* (auto-reply/reply/get-reply-run.ts); the recovery of a stuck session resets
\* it (logging/diagnostic-stuck-session-recovery.runtime.ts).
ClearSessionLane(r) ==
    /\ ClearCommandLane(SessionLane[r])
    /\ UNCHANGED gatewayVars

ResetSessionLane(r) ==
    /\ lifecycle = "serving"
    /\ ResetCommandLane(SessionLane[r])
    /\ UNCHANGED gatewayVars

-----------------------------------------------------------------------------
(***************************************************************************)
(* Suspension and configuration.                                           *)
(***************************************************************************)

\* suspendSession is called, not awaited, by a run that failed over; it starts
\* to write the session store.
SuspendSession(r) ==
    /\ r \in Suspenders
    /\ Innermost(r) \in executing
    /\ suspension[r] = "none"
    /\ suspension' = [suspension EXCEPT ![r] = "persisting"]
    /\ UNCHANGED <<vars, runKind, config, runConfig, resumeTimer, lifecycle>>

\* (mutant) A lane that has a timer keeps the old one, also while it fires.
SuspensionPersistedKeepingTimer(r) ==
    LET l == LanePath(r)[Depth(r)]
    IN  /\ suspension[r] = "persisting"
        /\ suspension' = [suspension EXCEPT ![r] = "done"]
        /\ SetCommandLaneConcurrency(l, 0)
        /\ UNCHANGED <<runKind, config, runConfig, resumeTimer, lifecycle>>

\* The rest of suspendSession: the lane is paused and its timer armed anew.
SuspensionPersisted(r) ==
    LET l == LanePath(r)[Depth(r)]
    IN  /\ suspension[r] = "persisting"
        /\ suspension' = [suspension EXCEPT ![r] = "done"]
        /\ SetCommandLaneConcurrency(l, 0)
        /\ resumeTimer' = [resumeTimer EXCEPT ![l] =
                             LaneResumeConcurrency(runConfig[r], l)]
        /\ UNCHANGED <<runKind, config, runConfig, lifecycle>>

\* The store could not be written: the lane is not throttled.
SuspensionNotPersisted(r) ==
    /\ suspension[r] = "persisting"
    /\ suspension' = [suspension EXCEPT ![r] = "done"]
    /\ UNCHANGED <<vars, runKind, config, runConfig, resumeTimer, lifecycle>>

\* scheduleLaneAutoResume's timer.
LaneAutoResumes(l) ==
    /\ resumeTimer[l] > 0
    /\ SetCommandLaneConcurrency(l, resumeTimer[l])
    /\ resumeTimer' = [resumeTimer EXCEPT ![l] = 0]
    /\ UNCHANGED <<runKind, config, runConfig, suspension, lifecycle>>

\* applyGatewayLaneConcurrency, which leaves resume timers alone.
ApplyGatewayLaneConcurrency(c) ==
    /\ config' = c
    /\ maxConcurrent' = [l \in Lanes |-> IF l \in GlobalLanes
                                         THEN ConfiguredSlots(c, l)
                                         ELSE maxConcurrent[l]]
    /\ UNCHANGED <<gatewayDraining, generation, nextQueueSequence, entry,
                   waiterVars, runKind, runConfig, suspension, resumeTimer>>
    /\ DrainLanes(GlobalLanes, queue, activeTaskIds, phase)

ConfigReloads ==
    /\ lifecycle = "serving"
    /\ config < Len(Configs)
    /\ ApplyGatewayLaneConcurrency(config + 1)
    /\ UNCHANGED lifecycle

-----------------------------------------------------------------------------
(***************************************************************************)
(* An in-process restart.                                                  *)
(***************************************************************************)

RestartBegins ==
    /\ lifecycle = "serving"
    /\ \A l \in Lanes : generation[l] < GenerationCap
    /\ MarkGatewayDraining
    /\ lifecycle' = "draining"
    /\ UNCHANGED <<runKind, config, runConfig, suspension, resumeTimer>>

\* The restart waits for the tasks that are active, without a limit.
RestartWaits(w) ==
    /\ lifecycle = "draining"
    /\ WaitForActiveTasks(w, "none")
    /\ lifecycle' = "waiting"
    /\ UNCHANGED <<runKind, config, runConfig, suspension, resumeTimer>>

\* The next iteration of the loop.  A restart that is forced, or whose limit
\* ran out, comes here with tasks under way.
LanesAreReset ==
    /\ \/ lifecycle = "draining"
       \/ /\ lifecycle = "waiting"
          /\ \A w \in Waiters : waiter[w] \notin Pending
    /\ ResetAllLanes
    /\ lifecycle' = "starting"
    /\ UNCHANGED <<runKind, config, runConfig, suspension, resumeTimer>>

GatewayStarts ==
    /\ lifecycle = "starting"
    /\ \E c \in config .. Len(Configs) : ApplyGatewayLaneConcurrency(c)
    /\ lifecycle' = "serving"

-----------------------------------------------------------------------------

\* The process has just begun; its first server start sets the lanes.
GatewayInit ==
    /\ Init
    /\ runKind \in RunMixes
    /\ config = 1
    /\ runConfig = [r \in Runs |-> 1]
    /\ suspension = [r \in Runs |-> "none"]
    /\ resumeTimer = [l \in Lanes |-> 0]
    /\ lifecycle = "starting"

GatewayNext ==
    \/ \E r \in Runs :
          \/ StartRun(r)
          \/ \E i \in 1 .. 3 :
                \/ EnqueueInner(r, i)
                \/ OuterSettles(r, i)
                \/ OuterAborts(r, i)
          \/ JobTimesOut(r)
          \/ RunSettles(r)
          \/ RunTimesOut(r)
          \/ ClearSessionLane(r)
          \/ ResetSessionLane(r)
          \/ SuspendSession(r)
          \/ SuspensionPersisted(r)
          \/ SuspensionNotPersisted(r)
    \/ \E e \in Entries : SlotIsFreed(e)
    \/ \E l \in Lanes : LaneAutoResumes(l)
    \/ ConfigReloads
    \/ GatewayStarts
    \/ RestartBegins
    \/ \E w \in Waiters : RestartWaits(w)
    \/ LanesAreReset

\* Of a run's innermost task it is required that it ends or stops making
\* progress while somebody listens, of nothing else that it happens: neither
\* aborts nor the timeout of a job, nor that a task that was given up on ends.
RunProgresses(r) ==
    \/ \E i \in 1 .. 3 :
          \/ EnqueueInner(r, i)
          \/ OuterSettles(r, i)
          \/ SlotIsFreed(<<r, i>>)
    \/ phase[Innermost(r)] = "running" /\ (RunSettles(r) \/ RunTimesOut(r))

\* Continuations and timers are run by the event loop, the store's write ends
\* one way or the other, and the restart goes on once it has begun.
GatewayProgresses ==
    \/ \E r \in Runs : \/ RunProgresses(r)
                       \/ SuspensionPersisted(r)
                       \/ SuspensionNotPersisted(r)
    \/ \E l \in GlobalLanes : LaneAutoResumes(l)
    \/ LanesAreReset
    \/ GatewayStarts

\* Each of these steps is taken once by a run, a suspension or a restart, so
\* fairness to all of them together is fairness to each.
GatewaySpec ==
    GatewayInit /\ [][GatewayNext]_allVars /\ WF_allVars(GatewayProgresses)

-----------------------------------------------------------------------------
(***************************************************************************)
(* Properties.                                                             *)
(***************************************************************************)

\* Only lanes the configuration knows are paused, with a timer for as many
\* slots as some configuration gave them.
GatewayTypeOK ==
    /\ TypeOK
    /\ runKind \in RunMixes
    /\ config \in DOMAIN Configs
    /\ runConfig \in [Runs -> DOMAIN Configs]
    /\ suspension \in [Runs -> {"none", "persisting", "done"}]
    /\ resumeTimer \in [Lanes -> 0 .. ConcurrencyCap]
    /\ lifecycle \in {"serving", "draining", "waiting", "starting"}
    /\ \A l \in Lanes : l \notin GlobalLanes => resumeTimer[l] = 0

\* A run that waits for a global lane or works in it, with a task of its
\* session's lane listening, unless that lane was reset behind its back.
AtWork(r) ==
    LET i == Depth(r)
    IN  /\ phase[<<r, i>>] \in {"queued", "running", "settled", "timedOut"}
        /\ taskGeneration[<<r, i - 1>>] = generation[SessionLane[r]]

\* Whatever is configured, suspended or reloaded, a session has one run in the
\* global lanes: the task that holds the session's slot keeps it until the
\* task inside it is answered, and the slots of a session are never raised.
OneRunPerSession ==
    \A r, s \in Runs :
        r # s /\ SessionLane[r] = SessionLane[s] /\ AtWork(r) => ~AtWork(s)

\* No lane is left paused: as long as it has no slots, a timer is armed that
\* will give it at least one, however suspensions, reloads, restarts and
\* timers follow each other.
PausedLaneResumes ==
    \A l \in Lanes : maxConcurrent[l] = 0 => resumeTimer[l] > 0

\* Every run is answered: its promise is resolved or rejected in spite of the
\* slots it has to take one inside the other, of suspended lanes, resets and
\* restarts.  No run waits for a slot that only its own end would free.
RunIsAnswered ==
    \A r \in Runs : phase[Outermost(r)] # "new" ~>
                        phase[Outermost(r)] \in Answered

\* A restart comes through, also when it waits without a limit for tasks that
\* wait themselves in a suspended lane.
RestartComesThrough == lifecycle # "serving" ~> lifecycle = "serving"
=============================================================================
