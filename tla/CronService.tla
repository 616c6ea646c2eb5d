----------------------------- MODULE CronService -----------------------------
(***************************************************************************)
(* The scheduler of cron jobs (src/cron/service/: ops.ts, timer.ts,        *)
(* jobs.ts, store.ts, locked.ts), one service over one pair of files.      *)
(*                                                                         *)
(* Every operation on the jobs is a section under the service's lock, and  *)
(* one action here: it works on the copy in memory, or on the files it     *)
(* reloads, and saves both files before the next section begins.  Jobs are *)
(* executed outside the lock.  A job that is to run is marked in the files *)
(* first, so the timer, the catch-up of a start and callers who run it by  *)
(* hand do not run it twice.  The process may crash: the files stay.       *)
(*                                                                         *)
(* Time passes in ticks from 1.  A timer that is armed may fire at any     *)
(* time, as it does at least once a minute to find nothing due.  Cron      *)
(* expressions, staggering and the statuses "skipped" and "permanent       *)
(* error" are left out, and so is the removal of markers after two hours.  *)
(***************************************************************************)
EXTENDS Integers, FiniteSets

CONSTANTS
    Recurring,    \* jobs of schedule kind "every"
    OneShots,     \* jobs of schedule kind "at"
    Added,        \* jobs of which the files know at the beginning
    AgentTurns,   \* the jobs whose payload is an agent turn
    Period,       \* everyMs
    Backoff,      \* errorBackoffMs
    Delay,        \* of agent turns that were missed, after a start
    MaxAttempts,  \* retries of a one-shot
    Concurrency,  \* maxConcurrentRuns
    Horizon,      \* bounds the time
    EditCap,      \* bounds the jobs that are edited
    ManualCap,    \* bounds the calls of run
    CrashCap      \* bounds the crashes

Jobs == Recurring \cup OneShots

ASSUME JobsAssumption ==
    Recurring \cap OneShots = {} /\ AgentTurns \cup Added \subseteq Jobs

ASSUME NumbersAssumption ==
    /\ {Period, Backoff, Delay, Concurrency, Horizon} \subseteq Nat \ {0}
    /\ {MaxAttempts, EditCap, ManualCap, CrashCap} \subseteq Nat

None == -1

\* Who executes jobs: onTimer, the catch-up of a start, callers of run.
Origins == {"timer", "startup", "manual"}

VARIABLES
    store,       \* per job, its copy in memory
    config,      \* per job, what jobs.json says of it
    states,      \* per job, what jobs-state.json says of it
    saving,      \* the second of the files is yet to be written
    timer,       \* whether it is armed
    tick,        \* where onTimer is; "idle": not running
    startup,     \* where start() is; "down": there is no process
    skipped,     \* the runs this start has found interrupted
    deferred,    \* the jobs this start's catch-up puts off
    run,         \* per origin and job, the execution under way
    now,
    disposable,  \* the one-shots with deleteAfterRun
    unborn,      \* the jobs that are yet to be added
    edited,      \* the jobs that were edited, once each
    manuals,     \* how often run was called
    crashes,
    disturbed,   \* history: jobs that were not enabled during a run of theirs,
                 \* or whose end as one-shots was cut short
    successes    \* history: per job, its runs since the last edit that ended
                 \* well, those by force not counted

files == <<config, states, saving>>
process == <<timer, tick, startup, skipped, deferred>>
bounds == <<now, disposable, unborn, edited, manuals, crashes>>
history == <<disturbed, successes>>
vars == <<store, files, process, run, bounds, history>>

NoJob == [enabled |-> FALSE, schedule |-> None, runningAt |-> None,
          next |-> None, lastRun |-> None, lastStatus |-> "none",
          errors |-> 0]

NoConfig == [enabled |-> FALSE, schedule |-> None]

NoState == [runningAt |-> None, next |-> None, lastRun |-> None,
            lastStatus |-> "none", errors |-> 0, scheduleIdentity |-> NoConfig]

NoRun == [stage |-> "none", startedAt |-> None, endedAt |-> None,
          ok |-> FALSE, forced |-> FALSE]

Exists(job) == job.schedule # None

\* runningAt: the marker; schedule: the time of a one-shot, the anchor of the
\* others.
JobIn(c, s) ==
    [enabled |-> c.enabled, schedule |-> c.schedule,
     runningAt |-> s.runningAt,
     next |-> IF s.scheduleIdentity = c THEN s.next ELSE None,
     lastRun |-> s.lastRun, lastStatus |-> s.lastStatus, errors |-> s.errors]

ConfigOf(job) == [enabled |-> job.enabled, schedule |-> job.schedule]

StateOf(job) ==
    [runningAt |-> job.runningAt, next |-> job.next, lastRun |-> job.lastRun,
     lastStatus |-> job.lastStatus, errors |-> job.errors,
     scheduleIdentity |-> ConfigOf(job)]

Later(a, b) == IF a > b THEN a ELSE b

-----------------------------------------------------------------------------
(***************************************************************************)
(* When a job runs next.                                                   *)
(***************************************************************************)

\* computeNextRunAtMs: the first time of the grid that is not over.
OnGrid(anchor, t) ==
    IF t < anchor THEN anchor
    ELSE anchor + Later(1, (t - anchor + Period - 1) \div Period) * Period

\* (mutant) A one-shot is due until it is disabled.
ComputeNextForAll(j, job, t) ==
    IF ~job.enabled THEN None
    ELSE IF j \in OneShots THEN job.schedule
    ELSE IF job.lastRun # None /\ job.lastRun + Period > t
         THEN job.lastRun + Period ELSE OnGrid(job.schedule, t)

ComputeNext(j, job, t) ==
    CASE ~job.enabled -> None
      [] job.enabled /\ j \in OneShots ->
            IF job.lastStatus = "ok" /\ job.schedule =< job.lastRun
            THEN None ELSE job.schedule
      [] job.enabled /\ j \in Recurring ->
            IF job.lastRun # None /\ job.lastRun + Period > t
            THEN job.lastRun + Period ELSE OnGrid(job.schedule, t)

\* recomputeJobNextRunAtMs
RecomputeNext(j, job, t) ==
    LET n == ComputeNext(j, job, t)
    IN  [job EXCEPT !.next =
           IF n # None /\ j \in Recurring /\ job.lastStatus = "error"
           THEN Later(n, job.lastRun + Backoff) ELSE n]

HasPassed(job, t) == job.next # None /\ job.next =< t

\* normalizeJobTickState: a disabled job has neither a next run nor a marker.
Normalized(job) ==
    IF job.enabled THEN job
    ELSE [job EXCEPT !.next = None, !.runningAt = None]

\* (mutant) Every time that has passed is replaced, as recomputeNextRuns does.
MaintainedInFull(j, job, expired) ==
    IF job.enabled /\ (job.next = None \/ HasPassed(job, now))
    THEN RecomputeNext(j, job, now) ELSE Normalized(job)

\* recomputeNextRunsForMaintenance: times that have passed are kept, unless
\* the job has run since.
Maintained(j, job, expired) ==
    IF /\ job.enabled
       /\ \/ job.next = None
          \/ /\ expired
             /\ HasPassed(job, now)
             /\ job.runningAt = None
             /\ job.lastRun >= job.next
    THEN RecomputeNext(j, job, now) ELSE Normalized(job)

Maintain(s, expired) ==
    [j \in Jobs |->
        IF Exists(s[j]) THEN Maintained(j, s[j], expired) ELSE NoJob]

\* recomputeNextRuns
RecomputeNextRuns(s) ==
    [j \in Jobs |->
        IF ~Exists(s[j]) THEN NoJob
        ELSE IF s[j].enabled /\ (s[j].next = None \/ HasPassed(s[j], now))
             THEN RecomputeNext(j, s[j], now) ELSE Normalized(s[j])]

IsRunnable(job) ==
    job.enabled /\ job.runningAt = None /\ HasPassed(job, now)

-----------------------------------------------------------------------------
(***************************************************************************)
(* What a run leaves behind.                                               *)
(***************************************************************************)

\* applyJobResult, also its decision to delete the job.
AfterResult(j, job, r) ==
    LET ran == [job EXCEPT !.runningAt = None,
                           !.lastRun = r.startedAt,
                           !.lastStatus = IF r.ok THEN "ok" ELSE "error",
                           !.errors = IF r.ok THEN 0 ELSE job.errors + 1]
        retries == ~r.ok /\ ran.errors =< MaxAttempts
        \* A run by force does not move the grid.
        natural == ComputeNext(j, IF r.forced
                                  THEN [ran EXCEPT !.lastRun = job.lastRun]
                                  ELSE ran, r.endedAt)
    IN  CASE j \in OneShots /\ r.ok /\ j \in disposable -> NoJob
          [] j \in OneShots /\ ~retries /\ ~(r.ok /\ j \in disposable) ->
                [ran EXCEPT !.enabled = FALSE, !.next = None]
          [] j \in OneShots /\ retries ->
                [ran EXCEPT !.next = r.endedAt + Backoff]
          [] j \in Recurring /\ ~job.enabled -> [ran EXCEPT !.next = None]
          [] j \in Recurring /\ job.enabled ->
                [ran EXCEPT !.next = IF r.ok THEN natural
                                     ELSE Later(natural, r.endedAt + Backoff)]

Done(o) == { j \in Jobs : run[o][j].stage = "done" }

\* applyOutcomeToStoredJob for all of a batch; the result of a job that was
\* removed is discarded.
WithOutcomes(s, o) ==
    [j \in Jobs |-> IF j \in Done(o) /\ Exists(s[j])
                    THEN AfterResult(j, s[j], run[o][j]) ELSE s[j]]

-----------------------------------------------------------------------------
(***************************************************************************)
(* The files.                                                              *)
(***************************************************************************)

\* ensureLoaded with forceReload.
Loaded ==
    [j \in Jobs |-> IF config[j] = NoConfig THEN NoJob
                                            ELSE JobIn(config[j], states[j])]

\* A section under the lock.
Section == startup # "down" /\ ~saving

\* persist: the states are written first, the configuration if it changed.
Persist(s) ==
    /\ store' = s
    /\ states' = [j \in Jobs |-> StateOf(s[j])]
    /\ saving' = (\E j \in Jobs : ConfigOf(s[j]) # config[j])
    /\ UNCHANGED config

ConfigIsWritten ==
    /\ saving
    /\ config' = [j \in Jobs |-> ConfigOf(store[j])]
    /\ saving' = FALSE
    /\ UNCHANGED <<store, states, process, run, bounds, history>>

\* armTimer: for the next run, or to look again after a minute.
ArmTimer(s) == timer' = (\E j \in Jobs : s[j].enabled)

-----------------------------------------------------------------------------
(***************************************************************************)
(* The execution of jobs.                                                  *)
(***************************************************************************)

RunBegins(o, j) ==
    /\ run[o][j].stage = "waiting"
    /\ Cardinality({ k \in Jobs : run[o][k].stage = "running" })
         < IF o = "timer" THEN Concurrency ELSE 1
    /\ run' = [run EXCEPT ![o][j].stage = "running",
                          ![o][j].startedAt = now]
    /\ UNCHANGED <<store, files, process, bounds, history>>

\* Executions end, well or with an error that may be retried.
RunEnds(o, j) ==
    /\ run[o][j].stage = "running"
    /\ \E ok \in BOOLEAN :
          /\ run' = [run EXCEPT ![o][j].stage = "done",
                                ![o][j].endedAt = now,
                                ![o][j].ok = ok]
          /\ successes' = IF ok /\ ~run[o][j].forced
                          THEN [successes EXCEPT ![j] = @ + 1] ELSE successes
    /\ UNCHANGED <<store, files, process, bounds, disturbed>>

\* The runs of an origin have been marked, and wait.
Batch(jobs) ==
    [j \in Jobs |-> IF j \in jobs THEN [NoRun EXCEPT !.stage = "waiting"]
                                  ELSE NoRun]

NoBatch == [j \in Jobs |-> NoRun]

\* The lock is first come, first served: a caller of run that has found no
\* marker comes before the end of the batch that has set it since.
BatchIsOver(o) ==
    /\ \A j \in Jobs : run[o][j].stage \in {"none", "done"}
    /\ \A j \in Done(o) : run["manual"][j].stage = "checked"
                          => store[j].runningAt = None

Marked(s, jobs) ==
    [j \in Jobs |-> IF j \in jobs THEN [s[j] EXCEPT !.runningAt = now]
                                  ELSE s[j]]

-----------------------------------------------------------------------------
(***************************************************************************)
(* onTimer.                                                                *)
(***************************************************************************)

\* The timer fires and its first section runs.  While the call is at work
\* another timer only arms itself anew.
TickCollects ==
    /\ timer
    /\ tick = "idle"
    /\ Section
    /\ LET due == { j \in Jobs : IsRunnable(Loaded[j]) }
       IN  IF due = {}
           THEN /\ Persist(Maintain(Loaded, TRUE))
                /\ ArmTimer(Maintain(Loaded, TRUE))
                /\ UNCHANGED <<tick, run>>
           ELSE /\ Persist(Marked(Loaded, due))
                /\ tick' = "executing"
                /\ run' = [run EXCEPT !["timer"] = Batch(due)]
                /\ UNCHANGED timer
    /\ UNCHANGED <<startup, skipped, deferred, bounds, history>>

\* Its end arms the timer.
TickApplies ==
    LET applied == Maintain(WithOutcomes(Loaded, "timer"), FALSE)
    IN  /\ tick = "executing"
        /\ BatchIsOver("timer")
        /\ Section
        /\ Persist(applied)
        /\ ArmTimer(applied)
        /\ run' = [run EXCEPT !["timer"] = NoBatch]
        /\ tick' = "idle"
        /\ UNCHANGED <<startup, skipped, deferred, bounds, history>>

-----------------------------------------------------------------------------
(***************************************************************************)
(* start, beside which all else may go on.                                 *)
(***************************************************************************)

\* (mutant) The marker is left to those who know whose it is.
InterruptedKeepingMarker(j, job) ==
    [job EXCEPT !.lastStatus = "error", !.errors = job.errors + 1]

\* markInterruptedStartupRun
Interrupted(j, job) ==
    [job EXCEPT !.runningAt = None,
                !.lastRun = job.runningAt,
                !.lastStatus = "error",
                !.errors = job.errors + 1,
                !.next = None,
                !.enabled = job.enabled /\ j \notin OneShots]

Start ==
    /\ startup = "down"
    /\ skipped' = { j \in Jobs : Loaded[j].runningAt # None }
    /\ Persist([j \in Jobs |-> IF j \in skipped'
                               THEN Interrupted(j, Loaded[j]) ELSE Loaded[j]])
    /\ startup' = "planning"
    /\ UNCHANGED <<timer, tick, deferred, run, bounds, history>>

\* isRunnableJob with skipAtIfAlreadyRan: of the one-shots that have run only
\* those that wait for a retry.
IsMissed(j, job) ==
    /\ j \notin skipped
    /\ IsRunnable(job)
    /\ j \in OneShots /\ job.lastStatus # "none"
       => job.lastStatus = "error" /\ job.next > job.lastRun

PlanStartupCatchup ==
    /\ startup = "planning"
    /\ Section
    /\ LET missed == { j \in Jobs : IsMissed(j, store[j]) }
       IN  IF missed = {}
           THEN /\ startup' = "ending"
                /\ UNCHANGED <<store, files, run, deferred>>
           ELSE /\ Persist(Marked(store, missed \ AgentTurns))
                /\ run' = [run EXCEPT !["startup"] = Batch(missed \ AgentTurns)]
                /\ deferred' = missed \cap AgentTurns
                /\ startup' = "executing"
    /\ UNCHANGED <<timer, tick, skipped, bounds, history>>

ApplyStartupCatchup ==
    /\ startup = "executing"
    /\ BatchIsOver("startup")
    /\ Section
    /\ LET applied == WithOutcomes(store, "startup")
       IN  Persist(Maintain([j \in Jobs |->
                                IF j \in deferred /\ applied[j].enabled
                                THEN [applied[j] EXCEPT !.next = now + Delay]
                                ELSE applied[j]], FALSE))
    /\ run' = [run EXCEPT !["startup"] = NoBatch]
    /\ startup' = "ending"
    /\ UNCHANGED <<timer, tick, skipped, deferred, bounds, history>>

StartupEnds ==
    /\ startup = "ending"
    /\ Section
    /\ Persist(Maintain(store, TRUE))
    /\ ArmTimer(Maintain(store, TRUE))
    /\ startup' = "up"
    /\ skipped' = {}
    /\ deferred' = {}
    /\ UNCHANGED <<tick, run, bounds, history>>

-----------------------------------------------------------------------------
(***************************************************************************)
(* Operations.                                                             *)
(***************************************************************************)

\* add, which recomputes all next runs.
Add(j) ==
    /\ Section
    /\ j \in unborn
    /\ \E t \in (IF j \in OneShots THEN {now, now + 1} ELSE {now}) :
          LET new == RecomputeNext(j, [NoJob EXCEPT !.enabled = TRUE,
                                                    !.schedule = t], now)
          IN  /\ Persist(RecomputeNextRuns([store EXCEPT ![j] = new]))
              /\ ArmTimer(RecomputeNextRuns([store EXCEPT ![j] = new]))
    /\ unborn' = unborn \ {j}
    /\ UNCHANGED <<tick, startup, skipped, deferred, run, now, disposable,
                   edited, manuals, crashes, history>>

\* Runs of a job under way; runs that have been asked for; those whose result
\* is yet to be applied.
Executing(j) == { o \in Origins : run[o][j].stage \in {"waiting", "running"} }

UnderWay(j) ==
    Executing(j) \cup { o \in Origins : run[o][j].stage = "checked" }

Busy(j) == \E o \in Origins : run[o][j].stage \in {"waiting", "running", "done"}

\* One edit of a job.
IsEdited(j) ==
    /\ j \notin edited
    /\ Cardinality(edited) < EditCap
    /\ edited' = edited \cup {j}

\* update: a new schedule, or enabled given, decides the next run anew.
Update(j, job) ==
    LET updated == IF job.enabled
                   THEN [job EXCEPT !.next = ComputeNext(j, job, now)]
                   ELSE [job EXCEPT !.next = None, !.runningAt = None]
    IN  /\ Section
        /\ Exists(store[j])
        /\ IsEdited(j)
        /\ Persist([store EXCEPT ![j] = updated])
        /\ ArmTimer([store EXCEPT ![j] = updated])
        /\ disturbed' = IF Busy(j) /\ ~job.enabled
                        THEN disturbed \cup {j} ELSE disturbed
        /\ successes' = [successes EXCEPT ![j] = -Cardinality(UnderWay(j))]
        /\ UNCHANGED <<tick, startup, skipped, deferred, run, now, disposable,
                       unborn, manuals, crashes>>

SetEnabled(j) ==
    \E enabled \in BOOLEAN :
        Update(j, [store[j] EXCEPT !.enabled = enabled])

Reschedule(j) ==
    Update(j, [store[j] EXCEPT !.schedule =
                 IF j \in OneShots THEN now + 1 ELSE now])

Remove(j) ==
    /\ Section
    /\ Exists(store[j])
    /\ IsEdited(j)
    /\ Persist([store EXCEPT ![j] = NoJob])
    /\ ArmTimer([store EXCEPT ![j] = NoJob])
    /\ successes' = [successes EXCEPT ![j] = -Cardinality(UnderWay(j))]
    /\ UNCHANGED <<tick, startup, skipped, deferred, run, now, disposable,
                   unborn, manuals, crashes, disturbed>>

\* list, status and their like save what ensureLoadedForRead has repaired.
List ==
    /\ Section
    /\ Maintain(store, FALSE) # store
    /\ Persist(Maintain(store, FALSE))
    /\ UNCHANGED <<process, run, bounds, history>>

\* inspectManualRunPreflight, which does not save what it repairs.
ManualRunIsChecked(j) ==
    LET s == Maintain(store, FALSE)
    IN  /\ Section
        /\ Exists(store[j])
        /\ run["manual"][j].stage = "none"
        /\ manuals < ManualCap
        /\ manuals' = manuals + 1
        /\ store' = s
        /\ \E forced \in BOOLEAN :
              /\ s[j].runningAt = None
              /\ forced \/ IsRunnable(s[j])
              /\ run' = [run EXCEPT !["manual"][j] =
                           [NoRun EXCEPT !.stage = "checked",
                                         !.startedAt = now,
                                         !.forced = forced]]
        /\ UNCHANGED <<files, process, now, disposable, unborn, edited, crashes,
                       history>>

\* The same for a job that is unknown, marked or not due.
ManualRunIsRejected ==
    /\ Section
    /\ store' = Maintain(store, FALSE)
    /\ UNCHANGED <<files, process, run, bounds, history>>

\* (mutant) What the check has found is relied upon.
ReserveUnchecked(j) ==
    /\ Section
    /\ run["manual"][j].stage = "checked"
    /\ IF ~Exists(store[j])
       THEN /\ run' = [run EXCEPT !["manual"][j] = NoRun]
            /\ UNCHANGED <<store, files, history>>
       ELSE /\ Persist([store EXCEPT ![j].runningAt =
                          run["manual"][j].startedAt])
            /\ run' = [run EXCEPT !["manual"][j].stage = "running"]
            /\ disturbed' = IF store[j].enabled THEN disturbed
                            ELSE disturbed \cup {j}
            /\ successes' = IF run["manual"][j].forced
                            THEN [successes EXCEPT ![j] = 0] ELSE successes
    /\ UNCHANGED <<process, bounds>>

\* The second section of prepareManualRun.
ManualRunIsReserved(j) ==
    /\ Section
    /\ run["manual"][j].stage = "checked"
    /\ IF ~Exists(store[j]) \/ store[j].runningAt # None
       THEN /\ run' = [run EXCEPT !["manual"][j] = NoRun]
            /\ UNCHANGED <<store, files, history>>
       ELSE /\ Persist([store EXCEPT ![j].runningAt =
                          run["manual"][j].startedAt])
            /\ run' = [run EXCEPT !["manual"][j].stage = "running"]
            /\ disturbed' = IF store[j].enabled THEN disturbed
                            ELSE disturbed \cup {j}
            /\ successes' = IF run["manual"][j].forced
                            THEN [successes EXCEPT ![j] = 0] ELSE successes
    /\ UNCHANGED <<process, bounds>>

\* finishPreparedManualRun: the result is worked out on the copy in memory and
\* put over what the files say.
ManualRunIsFinished(j) ==
    LET result == AfterResult(j, store[j], run["manual"][j])
        merged == [Loaded EXCEPT ![j] =
                     IF Exists(result) /\ Exists(@)
                     THEN [result EXCEPT !.schedule = Loaded[j].schedule]
                     ELSE NoJob]
    IN  /\ Section
        /\ run["manual"][j].stage = "done"
        /\ run' = [run EXCEPT !["manual"][j] = NoRun]
        /\ IF Exists(store[j])
           THEN /\ Persist(Maintain(merged, TRUE))
                /\ ArmTimer(Maintain(merged, TRUE))
           ELSE UNCHANGED <<store, files, timer>>
        /\ UNCHANGED <<tick, startup, skipped, deferred, bounds, history>>

-----------------------------------------------------------------------------

TimePasses ==
    /\ now < Horizon
    /\ now' = now + 1
    /\ UNCHANGED <<store, files, process, run, disposable, unborn, edited,
                   manuals, crashes, history>>

\* The end of a one-shot is only half saved: of one that is deleted after its
\* run, that a start has found interrupted, or that ran before its time.
IsCutShort(j) ==
    /\ saving
    /\ config[j].enabled
    /\ ~store[j].enabled
    /\ \/ j \in disposable /\ ~Exists(store[j])
       \/ j \in skipped
       \/ store[j].lastStatus = "ok" /\ store[j].lastRun < store[j].schedule

Crash ==
    /\ startup # "down"
    /\ crashes < CrashCap
    /\ crashes' = crashes + 1
    /\ store' = [j \in Jobs |-> NoJob]
    /\ saving' = FALSE
    /\ timer' = FALSE
    /\ tick' = "idle"
    /\ startup' = "down"
    /\ skipped' = {}
    /\ deferred' = {}
    /\ run' = [o \in Origins |-> NoBatch]
    /\ disturbed' = disturbed \cup { j \in OneShots : IsCutShort(j) }
    /\ UNCHANGED <<config, states, now, disposable, unborn, edited, manuals,
                   successes>>

\* The jobs that were added are due; they have never run.
Init ==
    /\ store = [j \in Jobs |-> NoJob]
    /\ config = [j \in Jobs |->
                   IF j \in Added THEN [enabled |-> TRUE, schedule |-> 1]
                                  ELSE NoConfig]
    /\ states = [j \in Jobs |->
                   IF j \in Added
                   THEN StateOf([NoJob EXCEPT !.enabled = TRUE,
                                              !.schedule = 1, !.next = 1])
                   ELSE NoState]
    /\ saving = FALSE
    /\ timer = FALSE
    /\ tick = "idle"
    /\ startup = "down"
    /\ skipped = {}
    /\ deferred = {}
    /\ run = [o \in Origins |-> NoBatch]
    /\ now = 1
    /\ disposable \in SUBSET OneShots
    /\ unborn = Jobs \ Added
    /\ edited = {}
    /\ manuals = 0
    /\ crashes = 0
    /\ disturbed = {}
    /\ successes = [j \in Jobs |-> 0]

Next ==
    \/ Start \/ PlanStartupCatchup \/ ApplyStartupCatchup \/ StartupEnds
    \/ TickCollects \/ TickApplies
    \/ ConfigIsWritten
    \/ \E j \in Jobs :
          \/ \E o \in Origins : RunBegins(o, j) \/ RunEnds(o, j)
          \/ Add(j)
          \/ SetEnabled(j)
          \/ Reschedule(j)
          \/ Remove(j)
          \/ ManualRunIsChecked(j)
          \/ ManualRunIsReserved(j)
          \/ ManualRunIsFinished(j)
    \/ ManualRunIsRejected
    \/ List
    \/ TimePasses
    \/ Crash

Spec == Init /\ [][Next]_vars

-----------------------------------------------------------------------------
(***************************************************************************)
(* Properties.                                                             *)
(***************************************************************************)

\* A job is not executed twice at once, whoever executes it, across restarts
\* and edits, unless it was disabled while it ran: its marker is then gone.
OneRunAtATime ==
    \A j \in Jobs \ disturbed : Cardinality(Executing(j)) =< 1

\* A run that is due is not taken away: what the files say of the next run of
\* a job moves past it only when they also say that the job has run since.  A
\* job that was marked when the process died counts as run, whether or not its
\* run had begun (ops.ts:74).  Exceptions: the job or another is edited; a
\* start puts the job off; a job is added, which recomputes the next runs of
\* all and skips those that are due (ops.ts:374); and a job that was disabled
\* during a run of its own, as it may be due again before that run ends.
NoSlotIsSkipped ==
    [][\A j \in Jobs :
          /\ IsRunnable(Loaded[j])
          /\ Exists(store'[j])
          /\ states'[j].next # states[j].next
          => \/ states'[j].lastRun >= states[j].next
             \/ edited' # edited
             \/ j \in deferred \cup disturbed
             \/ unborn' # unborn]_vars

\* No job is stranded: a marker, which keeps its job from running, belongs to
\* a run that will be applied, and where a job is enabled the timer is armed,
\* whatever ends a run or cuts a start short.
NoJobIsStranded ==
    /\ \A j \in Jobs : store[j].runningAt # None => Busy(j)
    /\ startup = "up" /\ (\E j \in Jobs : store[j].enabled) => timer

\* A one-shot that went well is not executed again unless it is edited or run
\* by force, wherever the process crashes, except between the two writes of an
\* end that IsCutShort names.
OneShotsSucceedOnce ==
    \A j \in OneShots \ disturbed : successes[j] =< 1
=============================================================================
