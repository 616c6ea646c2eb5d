-------------------------- MODULE CronServiceProofs --------------------------
(***************************************************************************)
(* Proofs about the cron service (CronService.tla).                        *)
(*                                                                         *)
(* A section works on a copy of the jobs, of the memory or of the files,   *)
(* and saves another.  The invariant is therefore about copies: SoundJob   *)
(* says of one copy of one job how it agrees with the runs of that job.    *)
(* The copy in memory is sound, and so is what the files say, except while *)
(* the second of them is being written.                                    *)
(***************************************************************************)
EXTENDS CronService, FiniteSetTheorems, TLAPS

-----------------------------------------------------------------------------
(***************************************************************************)
(* The inductive invariant.                                                *)
(***************************************************************************)

Statuses == {"none", "ok", "error"}

JobType == [enabled : BOOLEAN, schedule : Int, runningAt : Int, next : Int,
            lastRun : Int, lastStatus : Statuses, errors : Nat]

ConfigType == [enabled : BOOLEAN, schedule : Int]

StateType == [runningAt : Int, next : Int, lastRun : Int,
              lastStatus : Statuses, errors : Nat,
              scheduleIdentity : ConfigType]

RunType == [stage : {"none", "checked", "waiting", "running", "done"},
            startedAt : Int, endedAt : Int, ok : BOOLEAN, forced : BOOLEAN]

FilesAreTyped ==
    /\ store \in [Jobs -> JobType]
    /\ config \in [Jobs -> ConfigType]
    /\ states \in [Jobs -> StateType]
    /\ saving \in BOOLEAN

ProcessIsTyped ==
    /\ timer \in BOOLEAN
    /\ tick \in {"idle", "executing"}
    /\ startup \in {"down", "planning", "executing", "ending", "up"}
    /\ skipped \subseteq Jobs /\ deferred \subseteq Jobs
    /\ run \in [Origins -> [Jobs -> RunType]]

OthersAreTyped ==
    /\ now \in Nat
    /\ unborn \subseteq Jobs
    /\ successes \in [Jobs -> Int]

TypeInv == FilesAreTyped /\ ProcessIsTyped /\ OthersAreTyped

IsUp == startup # "down"

\* By the runs r, this origin is to apply a result to j.
IsBusy(r, o, j) == r[o][j].stage \in {"waiting", "running", "done"}

Executes(r, o, j) == r[o][j].stage \in {"waiting", "running"}

\* The run may add to the successes of j, or end so that j runs again.
IsOpen(r, o, j) ==
    \/ Executes(r, o, j)
    \/ r[o][j].stage = "done" /\ ~r[o][j].ok

\* The jobs somebody has found due and will run, or have run, later: a caller
\* of run, and a start that puts them off.
Promised ==
    { j \in Jobs : /\ run["manual"][j].stage = "checked"
                   /\ ~run["manual"][j].forced }
    \cup (IF startup = "executing" THEN deferred ELSE {})

\* One of these jobs, q, and nobody was faster.
IsPromised(q, j, job) ==
    /\ j \in q
    /\ job.enabled
    /\ job.runningAt = None

\* What is said of the job lets it run, now or when its next run is computed.
MayRun(job) ==
    /\ job.enabled
    /\ job.runningAt = None
    /\ job.next = None => ~(job.lastStatus = "ok"
                            /\ job.schedule =< job.lastRun)

\* A copy of j beside the runs r, the disturbed jobs d, the successes n and the
\* promises q: a marker belongs to a run, an undisturbed job that is run is
\* marked, and a one-shot that may run has not gone well.
SoundJob(j, job, r, d, n, q) ==
    /\ job \in JobType
    /\ ~Exists(job) => job = NoJob
    /\ job.runningAt # None => \E o \in Origins : IsBusy(r, o, j)
    /\ j \notin d /\ Exists(job) /\ (\E o \in Origins : IsBusy(r, o, j))
       => job.enabled /\ job.runningAt # None
    /\ j \in OneShots \ d /\ (MayRun(job) \/ IsPromised(q, j, job))
       => n[j] =< 0

\* Before and after a step.
SoundNow(j, job) ==
    SoundJob(j, job, run, disturbed, successes, Promised)

SoundThen(j, job) ==
    SoundJob(j, job, run', disturbed', successes', Promised')

\* The runs of an undisturbed job: one at a time, and one that goes well.
SoundRuns(j, r, d, n) ==
    j \notin d =>
        /\ \A o, p \in Origins : IsBusy(r, o, j) /\ IsBusy(r, p, j) => o = p
        /\ j \in OneShots => n[j] =< 1
        /\ j \in OneShots /\ (\E o \in Origins : IsOpen(r, o, j))
           => n[j] =< 0

\* After a crash the files may let a one-shot run only when it has not gone
\* well, and will not have when its run ends.
FilesAreSound(j) ==
    j \in OneShots \ disturbed /\ MayRun(Loaded[j]) /\ ~IsCutShort(j) =>
        /\ successes[j] =< 0
        /\ (\E o \in Origins : Executes(run, o, j)) => successes[j] =< -1

\* A job that is not in the files is blank, one that is yet to be added is
\* nowhere.
GoneIsGone ==
    \A j \in Jobs :
        /\ ~Exists(config[j]) => config[j] = NoConfig
        /\ j \in unborn => /\ config[j] = NoConfig
                           /\ store[j] = NoJob
                           /\ \A o \in Origins : run[o][j].stage = "none"
                           /\ successes[j] =< 0

CopiesAreSound ==
    \A j \in Jobs :
        /\ FilesAreSound(j)
        /\ IsUp => SoundNow(j, store[j])
        /\ IsUp /\ ~saving => SoundNow(j, Loaded[j])
        /\ IsUp /\ ~saving => config[j] = ConfigOf(store[j])
        /\ saving => states[j] = StateOf(store[j])

\* Batches are of the calls that are at work, and of nobody when the process
\* is down; what a call of run has checked, it marks with a time.
RunsHaveOwners ==
    \A j \in Jobs :
        /\ tick = "idle" => run["timer"][j].stage = "none"
        /\ startup # "executing" => run["startup"][j].stage = "none"
        /\ run["timer"][j].stage # "checked"
        /\ run["startup"][j].stage # "checked"
        /\ run["manual"][j].stage = "checked"
           => run["manual"][j].startedAt # None
        /\ ~IsUp => run["manual"][j].stage = "none"

DownIsIdle ==
    ~IsUp => ~saving /\ tick = "idle" /\ \A j \in Jobs : store[j] = NoJob

RunsAreSound == \A j \in Jobs : SoundRuns(j, run, disturbed, successes)

TimerIsArmed ==
    startup = "up" /\ (\E j \in Jobs : store[j].enabled) => timer

IInv ==
    /\ TypeInv
    /\ GoneIsGone
    /\ CopiesAreSound
    /\ RunsHaveOwners
    /\ DownIsIdle
    /\ RunsAreSound
    /\ TimerIsArmed

-----------------------------------------------------------------------------
(***************************************************************************)
(* Next runs and maintenance.                                              *)
(***************************************************************************)

\* A next run that is computed is a time, or none; of a one-shot that ran well
\* at its time there is none.
LEMMA NextRunsAreTimes ==
    ASSUME NEW j \in Jobs, NEW job \in JobType, NEW t \in Int
    PROVE  /\ ComputeNext(j, job, t) \in Int
           /\ j \in OneShots /\ job.lastStatus = "ok"
              /\ job.schedule =< job.lastRun
              => ComputeNext(j, job, t) = None
<1>. USE NumbersAssumption
<1>1. Period \in Nat \ {0}
    OBVIOUS
<1>2. \A a, b \in Int : Later(a, b) \in Int
    BY DEF Later
<1>3. OnGrid(job.schedule, t) \in Int
  <2>. DEFINE q == (t - job.schedule + Period - 1) \div Period
  <2>1. job.schedule \in Int
      BY DEF JobType
  <2>2. q \in Int
      BY <1>1, <2>1
  <2>3. Later(1, q) \in Int
      BY <1>2, <2>2
  <2>. HIDE DEF q
  <2>4. job.schedule + Later(1, q) * Period \in Int
      BY <1>1, <2>1, <2>3
  <2>. QED
      BY <2>1, <2>4 DEF OnGrid, q
<1>4. CASE ~job.enabled
    BY <1>4 DEF ComputeNext, None
<1>5. CASE job.enabled /\ j \in OneShots
  <2>1. j \notin Recurring
      BY <1>5, JobsAssumption
  <2>. QED
      BY <1>5, <2>1 DEF ComputeNext, None, JobType
<1>6. CASE job.enabled /\ j \in Recurring
  <2>1. j \notin OneShots
      BY <1>6, JobsAssumption
  <2>. QED
      BY <1>1, <1>3, <1>6, <2>1 DEF ComputeNext, None, JobType
<1>. QED
    BY <1>4, <1>5, <1>6 DEF Jobs

\* Computing the next run changes nothing else, and does not bring back a
\* one-shot that has gone well.
LEMMA RecomputingIsHarmless ==
    ASSUME TypeInv, NEW j \in Jobs, NEW job \in JobType
    PROVE  LET after == RecomputeNext(j, job, now)
           IN  /\ after \in JobType
               /\ after = [job EXCEPT !.next = after.next]
               /\ j \in OneShots /\ job.next = None /\ MayRun(after)
                  => MayRun(job)
<1>. DEFINE n == ComputeNext(j, job, now)
            m == IF n # None /\ j \in Recurring /\ job.lastStatus = "error"
                 THEN Later(n, job.lastRun + Backoff) ELSE n
<1>1. n \in Int
    BY NextRunsAreTimes DEF TypeInv, OthersAreTyped
<1>2. m \in Int
    BY <1>1, NumbersAssumption DEF Later, JobType
<1>3. RecomputeNext(j, job, now) = [job EXCEPT !.next = m]
    BY DEF RecomputeNext
<1>4. j \in OneShots /\ job.lastStatus = "ok" /\ job.schedule =< job.lastRun
      => m = None
    BY NextRunsAreTimes, JobsAssumption DEF TypeInv, OthersAreTyped
<1>. HIDE DEF m
<1>. QED
    BY <1>2, <1>3, <1>4 DEF JobType, MayRun

\* What maintenance may do to a copy of a job.
IsRepair(j, job, after) ==
    /\ after \in JobType
    /\ after.enabled = job.enabled
    /\ after.schedule = job.schedule
    /\ after.lastRun = job.lastRun
    /\ after.lastStatus = job.lastStatus
    /\ after.runningAt # job.runningAt => ~job.enabled /\ after.runningAt = None
    /\ j \in OneShots /\ MayRun(after) => MayRun(job)

LEMMA NormalizingRepairs ==
    ASSUME NEW j \in Jobs, NEW job \in JobType
    PROVE  IsRepair(j, job, Normalized(job))
<1>1. CASE job.enabled
    BY <1>1 DEF IsRepair, Normalized
<1>2. CASE ~job.enabled
  <2>. DEFINE same(a) == /\ a \in JobType
                         /\ a.enabled = job.enabled
                         /\ a.schedule = job.schedule
                         /\ a.lastRun = job.lastRun
                         /\ a.lastStatus = job.lastStatus
              first == [job EXCEPT !.next = None]
              after == [first EXCEPT !.runningAt = None]
  <2>1. same(first)
      BY DEF JobType, None
  <2>. HIDE DEF first
  <2>2. same(after) /\ after.runningAt = None
      BY <2>1 DEF JobType, None
  <2>3. Normalized(job) = after
      BY <1>2 DEF Normalized, first
  <2>. HIDE DEF after
  <2>. QED
      BY <1>2, <2>2, <2>3 DEF IsRepair, MayRun
<1>. QED
    BY <1>1, <1>2 DEF JobType

LEMMA MaintenanceRepairs ==
    ASSUME TypeInv, NEW j \in Jobs, NEW job \in JobType, NEW e \in BOOLEAN
    PROVE  IsRepair(j, job, Maintained(j, job, e))
<1>1. CASE Maintained(j, job, e) = Normalized(job)
    BY <1>1, NormalizingRepairs
<1>2. CASE /\ Maintained(j, job, e) = RecomputeNext(j, job, now)
           /\ job.enabled
           /\ job.next = None \/ job.runningAt = None
  <2>. DEFINE after == RecomputeNext(j, job, now)
  <2>1. /\ after \in JobType
        /\ after = [job EXCEPT !.next = after.next]
        /\ j \in OneShots /\ job.next = None /\ MayRun(after) => MayRun(job)
      BY RecomputingIsHarmless
  <2>. HIDE DEF after
  <2>. QED
      BY <1>2, <2>1 DEF IsRepair, JobType, MayRun, after
<1>. QED
    BY <1>1, <1>2 DEF Maintained

\* Repairs leave a sound copy sound.
LEMMA RepairsAreSound ==
    ASSUME NEW j \in Jobs, NEW job, NEW after, NEW r, NEW d, NEW n, NEW q,
           SoundJob(j, job, r, d, n, q), IsRepair(j, job, after), Exists(job)
    PROVE  SoundJob(j, after, r, d, n, q) /\ ConfigOf(after) = ConfigOf(job)
BY DEF SoundJob, IsRepair, JobType, Exists, IsPromised, ConfigOf, None

\* A copy that is sound stays so when promises are kept or taken back.
LEMMA FewerPromisesAreSound ==
    ASSUME NEW j \in Jobs, NEW job, NEW r, NEW d, NEW n, NEW q,
           SoundJob(j, job, r, d, n, q), NEW p \in SUBSET q
    PROVE  SoundJob(j, job, r, d, n, p)
BY DEF SoundJob, IsPromised

-----------------------------------------------------------------------------
(***************************************************************************)
(* Results.                                                                *)
(***************************************************************************)

\* What a run leaves of its job: nothing, where a one-shot is to be deleted,
\* or a job without a marker, which is over if it is a one-shot and went well.
IsResult(j, job, r, after) ==
    \/ /\ after = NoJob
       /\ j \in OneShots \cap disposable /\ r.ok
    \/ /\ after \in JobType
       /\ after.schedule = job.schedule
       /\ after.runningAt = None
       /\ after.lastRun = r.startedAt
       /\ after.lastStatus = IF r.ok THEN "ok" ELSE "error"
       /\ after.enabled => job.enabled
       /\ after.enabled /\ j \in OneShots => ~r.ok
       /\ j \in Recurring => after.enabled = job.enabled

LEMMA ResultsAreJobs ==
    ASSUME NEW j \in Jobs, NEW job \in JobType, NEW r \in RunType
    PROVE  IsResult(j, job, r, AfterResult(j, job, r))
<1>. DEFINE ran == [job EXCEPT !.runningAt = None,
                               !.lastRun = r.startedAt,
                               !.lastStatus = IF r.ok THEN "ok" ELSE "error",
                               !.errors = IF r.ok THEN 0 ELSE job.errors + 1]
            retries == ~r.ok /\ ran.errors =< MaxAttempts
            basis == IF r.forced THEN [ran EXCEPT !.lastRun = job.lastRun]
                                 ELSE ran
            natural == ComputeNext(j, basis, r.endedAt)
            Like(a) == /\ a \in JobType
                       /\ a.schedule = job.schedule
                       /\ a.runningAt = None
                       /\ a.lastRun = r.startedAt
                       /\ a.lastStatus = IF r.ok THEN "ok" ELSE "error"
<1>. USE DEF Statuses
<1>1. Like(ran) /\ ran.enabled = job.enabled
  <2>. DEFINE first == [job EXCEPT !.runningAt = None]
              second == [first EXCEPT !.lastRun = r.startedAt]
              third == [second EXCEPT !.lastStatus = IF r.ok THEN "ok"
                                                     ELSE "error"]
              fourth == [third EXCEPT !.errors = IF r.ok THEN 0
                                                 ELSE job.errors + 1]
  <2>1. /\ first \in JobType /\ first.runningAt = None
        /\ first.schedule = job.schedule /\ first.enabled = job.enabled
      BY DEF JobType, None
  <2>. HIDE DEF first
  <2>2. /\ second \in JobType /\ second.runningAt = None
        /\ second.lastRun = r.startedAt
        /\ second.schedule = job.schedule /\ second.enabled = job.enabled
      BY <2>1 DEF JobType, RunType
  <2>. HIDE DEF second
  <2>3. Like(third) /\ third.enabled = job.enabled
      BY <2>2 DEF JobType
  <2>. HIDE DEF third
  <2>4. Like(fourth) /\ fourth.enabled = job.enabled
      BY <2>3 DEF JobType
  <2>5. ran = fourth
      BY DEF first, second, third
  <2>. QED
      BY <2>4, <2>5
<1>2. basis \in JobType
    BY <1>1 DEF JobType
<1>3. natural \in Int /\ r.endedAt + Backoff \in Int
    BY <1>2, NextRunsAreTimes, NumbersAssumption DEF RunType
<1>4. Later(natural, r.endedAt + Backoff) \in Int
    BY <1>3 DEF Later
<1>5. AfterResult(j, job, r) =
      CASE j \in OneShots /\ r.ok /\ j \in disposable -> NoJob
        [] j \in OneShots /\ ~retries /\ ~(r.ok /\ j \in disposable) ->
              [ran EXCEPT !.enabled = FALSE, !.next = None]
        [] j \in OneShots /\ retries ->
              [ran EXCEPT !.next = r.endedAt + Backoff]
        [] j \in Recurring /\ ~job.enabled -> [ran EXCEPT !.next = None]
        [] j \in Recurring /\ job.enabled ->
              [ran EXCEPT !.next = IF r.ok THEN natural
                                   ELSE Later(natural, r.endedAt + Backoff)]
    BY DEF AfterResult
<1>6. \A n \in Int : /\ Like([ran EXCEPT !.next = n])
                     /\ [ran EXCEPT !.next = n].enabled = job.enabled
  <2>. HIDE DEF ran
  <2>. QED
      BY <1>1 DEF JobType
<1>7. /\ Like([ran EXCEPT !.enabled = FALSE, !.next = None])
      /\ ~[ran EXCEPT !.enabled = FALSE, !.next = None].enabled
  <2>. DEFINE first == [ran EXCEPT !.enabled = FALSE]
  <2>. HIDE DEF ran
  <2>1. Like(first) /\ ~first.enabled
      BY <1>1 DEF JobType
  <2>. HIDE DEF first
  <2>2. Like([first EXCEPT !.next = None])
        /\ ~[first EXCEPT !.next = None].enabled
      BY <2>1 DEF JobType, None
  <2>. QED
      BY <2>2 DEF first
<1>8. retries \in BOOLEAN /\ (retries => ~r.ok) /\ r.ok \in BOOLEAN
    BY DEF RunType
<1>. HIDE DEF ran, retries, natural, basis
<1>9. CASE j \in OneShots
  <2>1. j \notin Recurring
      BY <1>9, JobsAssumption
  <2>2. CASE r.ok /\ j \in disposable
    <3>1. AfterResult(j, job, r) = NoJob
        BY <1>5, <1>8, <1>9, <2>1, <2>2
    <3>. QED
        BY <1>9, <2>2, <3>1 DEF IsResult
  <2>3. CASE ~retries /\ ~(r.ok /\ j \in disposable)
    <3>1. AfterResult(j, job, r) =
              [ran EXCEPT !.enabled = FALSE, !.next = None]
        BY <1>5, <1>9, <2>1, <2>3
    <3>. QED
        BY <1>7, <2>1, <3>1 DEF IsResult
  <2>4. CASE retries
    <3>1. AfterResult(j, job, r) = [ran EXCEPT !.next = r.endedAt + Backoff]
        BY <1>5, <1>8, <1>9, <2>1, <2>4
    <3>. QED
        BY <1>3, <1>6, <1>8, <2>1, <2>4, <3>1 DEF IsResult
  <2>. QED
      BY <1>8, <2>2, <2>3, <2>4
<1>10. CASE j \notin OneShots
  <2>1. j \in Recurring
      BY <1>10 DEF Jobs
  <2>2. PICK n \in Int : AfterResult(j, job, r) = [ran EXCEPT !.next = n]
    <3>1. CASE job.enabled
        BY <1>3, <1>4, <1>5, <1>10, <2>1, <3>1
    <3>2. CASE ~job.enabled
      <4>1. AfterResult(j, job, r) = [ran EXCEPT !.next = None]
          BY <1>5, <1>10, <2>1, <3>2
      <4>. QED
          BY <4>1 DEF None
    <3>. QED
        BY <3>1, <3>2
  <2>. QED
      BY <1>6, <1>10, <2>2 DEF IsResult
<1>. QED
    BY <1>9, <1>10

\* A one-shot whose result is only half saved may run again, when it did not
\* go well or when this is a save that can be cut short.
MayBeCutShort(j, job) ==
    /\ ~job.enabled
    /\ \/ j \in disposable /\ ~Exists(job)
       \/ job.lastStatus = "ok" /\ job.lastRun < job.schedule

\* The runs r are without that of j for o.
RunIsOver(o, j, r) ==
    /\ r[o][j].stage = "none"
    /\ \A p \in Origins : p # o => r[p][j] = run[p][j]

\* What a job is after its result was applied, beside the runs r: where the
\* configuration has changed it is idle, and saving it can be cut short if
\* the half that is saved first lets it run though it went well.
IsOutcome(j, job, r, after) ==
    /\ ~Exists(job) => after = NoJob
    /\ ConfigOf(after) # ConfigOf(job)
       => /\ ~after.enabled
          /\ after.runningAt = None
          /\ j \notin disturbed => \A p \in Origins : ~IsBusy(r, p, j)
    /\ /\ j \in OneShots \ disturbed
       /\ MayRun(JobIn(ConfigOf(job), StateOf(after)))
       /\ ConfigOf(after) # ConfigOf(job)
       => successes[j] =< 0 \/ MayBeCutShort(j, after)

\* Applying the result of its only run leaves a job sound beside the runs
\* that are left.
LEMMA ResultsAreSound ==
    ASSUME NEW j \in Jobs, NEW o \in Origins, NEW job, Exists(job),
           SoundNow(j, job),
           SoundRuns(j, run, disturbed, successes),
           run[o][j] \in RunType, run[o][j].stage = "done",
           successes[j] \in Int,
           NEW r, RunIsOver(o, j, r),
           NEW after, IsResult(j, job, run[o][j], after)
    PROVE  /\ SoundJob(j, after, r, disturbed, successes, Promised)
           /\ IsOutcome(j, job, r, after)
<1>1. /\ NoJob \in JobType /\ ~NoJob.enabled /\ NoJob.runningAt = None
      /\ job \in JobType
    BY DEF NoJob, JobType, None, Statuses, SoundNow, SoundJob
<1>2. j \notin disturbed => \A p \in Origins : ~IsBusy(r, p, j)
    BY DEF SoundRuns, IsBusy, RunIsOver
<1>3. after.runningAt = None /\ after \in JobType
    BY <1>1 DEF IsResult
<1>4. ~Exists(after) => after = NoJob
    BY <1>1 DEF IsResult, Exists
<1>5. ASSUME j \in OneShots \ disturbed, after.enabled
      PROVE  successes[j] =< 0
  <2>1. ~run[o][j].ok
      BY <1>1, <1>5 DEF IsResult
  <2>. QED
      BY <1>5, <2>1 DEF SoundRuns, IsOpen
<1>6. SoundJob(j, after, r, disturbed, successes, Promised)
    BY <1>2, <1>3, <1>4, <1>5 DEF SoundJob, MayRun, IsPromised, RunIsOver
<1>7. ASSUME j \in OneShots \ disturbed,
             MayRun(JobIn(ConfigOf(job), StateOf(after))),
             ConfigOf(after) # ConfigOf(job),
             ~(successes[j] =< 0)
      PROVE  MayBeCutShort(j, after)
  <2>1. run[o][j].ok
      BY <1>7 DEF SoundRuns, IsOpen
  <2>2. CASE after = NoJob /\ j \in disposable
      BY <1>1, <2>2 DEF MayBeCutShort, Exists, NoJob
  <2>3. CASE /\ after.schedule = job.schedule
             /\ after.lastStatus = "ok"
             /\ after.enabled => ~run[o][j].ok
    <3>1. JobIn(ConfigOf(job), StateOf(after)).next = None
        BY <1>7 DEF JobIn, StateOf
    <3>2. /\ JobIn(ConfigOf(job), StateOf(after)).lastStatus = "ok"
          /\ JobIn(ConfigOf(job), StateOf(after)).lastRun = after.lastRun
          /\ JobIn(ConfigOf(job), StateOf(after)).schedule = after.schedule
        BY <2>3 DEF JobIn, StateOf, ConfigOf
    <3>3. ~(after.schedule =< after.lastRun)
        BY <1>7, <3>1, <3>2 DEF MayRun
    <3>. QED
        BY <1>3, <2>1, <2>3, <3>3 DEF MayBeCutShort, JobType
  <2>. QED
      BY <1>7, <2>1, <2>2, <2>3 DEF IsResult
<1>8. ConfigOf(after) # ConfigOf(job) => ~after.enabled
  <2>1. CASE after = NoJob
      BY <1>1, <2>1
  <2>2. CASE /\ after.schedule = job.schedule
             /\ after.enabled => job.enabled
      BY <1>1, <1>3, <2>2 DEF ConfigOf, JobType
  <2>. QED
      BY <2>1, <2>2 DEF IsResult
<1>. QED
    BY <1>2, <1>3, <1>6, <1>7, <1>8 DEF IsOutcome

-----------------------------------------------------------------------------
(***************************************************************************)
(* Saving.                                                                 *)
(***************************************************************************)

\* What is saved of a job is read again.
LEMMA SavedJobsAreReadAgain ==
    ASSUME NEW job \in JobType, ~Exists(job) => job = NoJob
    PROVE  (IF ConfigOf(job) = NoConfig
            THEN NoJob ELSE JobIn(ConfigOf(job), StateOf(job))) = job
<1>1. CASE ConfigOf(job) = NoConfig
    BY <1>1 DEF ConfigOf, NoConfig, Exists
<1>2. CASE ConfigOf(job) # NoConfig
    BY <1>2 DEF JobIn, StateOf, ConfigOf, JobType
<1>. QED
    BY <1>1, <1>2

\* A copy that may be cut short is.
LEMMA CutsShort ==
    ASSUME NEW j \in Jobs, NEW s, Persist(s), config[j].enabled,
           disposable' = disposable, MayBeCutShort(j, s[j])
    PROVE  IsCutShort(j)'
<1>1. store'[j] = s[j] /\ config'[j] = config[j]
    BY DEF Persist
<1>2. saving'
    BY DEF Persist, MayBeCutShort, ConfigOf
<1>. QED
    BY <1>1, <1>2 DEF IsCutShort, MayBeCutShort, Exists

\* A section that saves sound jobs, and lets no one-shot be cut short in
\* silence, keeps the invariant.
LEMMA SavesKeepIInv ==
    ASSUME IInv, NEW s, Persist(s), DOMAIN s = Jobs, s = [j \in Jobs |-> s[j]],
           ProcessIsTyped', OthersAreTyped', IsUp',
           \A j \in Jobs : SoundThen(j, s[j]),
           RunsAreSound', RunsHaveOwners', TimerIsArmed',
           unborn' \subseteq unborn,
           \A j \in unborn' : /\ s[j] = NoJob
                              /\ \A o \in Origins : run'[o][j].stage = "none"
                              /\ successes'[j] =< 0,
           \A j \in OneShots \ disturbed' :
              /\ MayRun(JobIn(config[j], StateOf(s[j])))
              /\ config[j] # ConfigOf(s[j])
              => \/ IsCutShort(j)'
                 \/ /\ successes'[j] =< 0
                    /\ (\E o \in Origins : Executes(run', o, j))
                       => successes'[j] =< -1
    PROVE  IInv'
<1>1. /\ store' = s /\ config' = config
      /\ \A j \in Jobs : states'[j] = StateOf(s[j])
      /\ states' = [j \in Jobs |-> StateOf(s[j])]
      /\ saving' \in BOOLEAN
      /\ ~saving' => \A j \in Jobs : config[j] = ConfigOf(s[j])
    BY DEF Persist
<1>2. \A j \in Jobs : /\ s[j] \in JobType
                      /\ ~Exists(s[j]) => s[j] = NoJob
                      /\ StateOf(s[j]) \in StateType
    BY DEF SoundThen, SoundJob, StateOf, JobType, StateType, ConfigOf,
           ConfigType
<1>3. TypeInv'
  <2>1. store' \in [Jobs -> JobType] /\ states' \in [Jobs -> StateType]
      BY <1>1, <1>2
  <2>. QED
      BY <1>1, <2>1 DEF TypeInv, FilesAreTyped, IInv
<1>4. \A j \in Jobs : config[j] = ConfigOf(s[j]) => Loaded'[j] = s[j]
    BY <1>1, <1>2, SavedJobsAreReadAgain DEF Loaded
<1>5. \A j \in Jobs : config[j] = NoConfig => Loaded'[j] = NoJob
    BY <1>1 DEF Loaded
<1>6. \A j \in Jobs : config[j] # NoConfig
                      => Loaded'[j] = JobIn(config[j], StateOf(s[j]))
    BY <1>1 DEF Loaded
<1>7. GoneIsGone'
    BY <1>1 DEF GoneIsGone, IInv
<1>8. ASSUME NEW j \in Jobs
      PROVE  FilesAreSound(j)'
  <2>. SUFFICES ASSUME j \in OneShots \ disturbed', MayRun(Loaded'[j]),
                       ~IsCutShort(j)'
                PROVE  /\ successes'[j] =< 0
                       /\ (\E o \in Origins : Executes(run', o, j))
                          => successes'[j] =< -1
      BY DEF FilesAreSound
  <2>1. Loaded'[j].enabled /\ Loaded'[j].runningAt = None
      BY DEF MayRun
  <2>2. CASE config[j] = ConfigOf(s[j])
    <3>1. Loaded'[j] = s[j]
        BY <1>4, <2>2
    <3>2. Exists(s[j])
        BY <1>2, <2>1, <3>1 DEF NoJob
    <3>3. \A o \in Origins : ~Executes(run', o, j)
        BY <2>1, <3>1, <3>2 DEF SoundNow, SoundThen, SoundJob, Executes, IsBusy
    <3>. QED
        BY <3>1, <3>3 DEF SoundNow, SoundThen, SoundJob
  <2>3. CASE config[j] # ConfigOf(s[j])
    <3>1. config[j] # NoConfig
        BY <1>5, <2>1 DEF NoJob
    <3>. QED
        BY <1>6, <2>3, <3>1
  <2>. QED
      BY <2>2, <2>3
<1>9. CopiesAreSound'
  <2>. SUFFICES ASSUME NEW j \in Jobs
                PROVE  /\ FilesAreSound(j)'
                       /\ SoundThen(j, store'[j])
                       /\ ~saving' => SoundThen(j, Loaded'[j])
                       /\ ~saving' => config'[j] = ConfigOf(store'[j])
                       /\ states'[j] = StateOf(store'[j])
      BY DEF CopiesAreSound, SoundNow, SoundThen
  <2>. QED
      BY <1>1, <1>4, <1>8
<1>. QED
    BY <1>3, <1>7, <1>9 DEF IInv, DownIsIdle, IsUp

-----------------------------------------------------------------------------
(***************************************************************************)
(* Sections.                                                               *)
(***************************************************************************)

\* At the beginning of a section both copies are sound and agree on what the
\* configuration is.
LEMMA SectionsBeginSoundly ==
    ASSUME IInv, Section
    PROVE  /\ IsUp /\ ~saving
           /\ \A j \in Jobs :
                 /\ SoundNow(j, store[j])
                 /\ SoundNow(j, Loaded[j])
                 /\ SoundRuns(j, run, disturbed, successes)
                 /\ store[j] \in JobType /\ Loaded[j] \in JobType
                 /\ config[j] = ConfigOf(store[j])
                 /\ config[j] = ConfigOf(Loaded[j])
                 /\ store[j].enabled = Loaded[j].enabled
                 /\ store[j].schedule = Loaded[j].schedule
                 /\ Exists(Loaded[j]) <=> Exists(store[j])
<1>1. IsUp /\ ~saving
    BY DEF Section, IsUp
<1>2. ASSUME NEW j \in Jobs
      PROVE  /\ SoundNow(j, store[j])
             /\ SoundNow(j, Loaded[j])
             /\ SoundRuns(j, run, disturbed, successes)
             /\ config[j] = ConfigOf(store[j])
    BY <1>1 DEF IInv, CopiesAreSound, RunsAreSound
<1>3. ASSUME NEW j \in Jobs
      PROVE  config[j] = ConfigOf(Loaded[j])
  <2>1. config[j] \in ConfigType
      BY DEF IInv, TypeInv, FilesAreTyped
  <2>2. CASE config[j] = NoConfig
      BY <2>2 DEF Loaded, NoJob, ConfigOf, NoConfig
  <2>3. CASE config[j] # NoConfig
      BY <2>1, <2>3 DEF Loaded, JobIn, ConfigOf, ConfigType
  <2>. QED
      BY <2>2, <2>3
<1>4. ASSUME NEW j \in Jobs
      PROVE  /\ store[j] \in JobType /\ Loaded[j] \in JobType
             /\ store[j].enabled = Loaded[j].enabled
             /\ store[j].schedule = Loaded[j].schedule
             /\ Exists(Loaded[j]) <=> Exists(store[j])
  <2>1. ConfigOf(store[j]) = ConfigOf(Loaded[j])
      BY <1>2, <1>3
  <2>2. /\ store[j].enabled = Loaded[j].enabled
        /\ store[j].schedule = Loaded[j].schedule
      BY <2>1 DEF ConfigOf
  <2>. QED
      BY <1>2, <2>2 DEF SoundNow, SoundThen, SoundJob, Exists
<1>. QED
    BY <1>1, <1>2, <1>3, <1>4

\* Maintenance of a sound copy.
LEMMA MaintainedCopiesAreSound ==
    ASSUME TypeInv, NEW s, NEW e \in BOOLEAN, NEW r, NEW d, NEW n, NEW q,
           NEW j \in Jobs, SoundJob(j, s[j], r, d, n, q)
    PROVE  /\ SoundJob(j, Maintain(s, e)[j], r, d, n, q)
           /\ ConfigOf(Maintain(s, e)[j]) = ConfigOf(s[j])
           /\ Maintain(s, e)[j].enabled = s[j].enabled
           /\ Maintain(s, e)[j].lastRun = s[j].lastRun
           /\ Maintain(s, e)[j].lastStatus = s[j].lastStatus
           /\ ~Exists(s[j]) => Maintain(s, e)[j] = NoJob
           /\ Exists(s[j]) => IsRepair(j, s[j], Maintain(s, e)[j])
<1>1. s[j] \in JobType /\ (~Exists(s[j]) => s[j] = NoJob)
    BY DEF SoundNow, SoundThen, SoundJob
<1>2. CASE Exists(s[j])
  <2>1. Maintain(s, e)[j] = Maintained(j, s[j], e)
      BY <1>2 DEF Maintain
  <2>2. IsRepair(j, s[j], Maintain(s, e)[j])
      BY <1>1, <2>1, MaintenanceRepairs
  <2>. QED
      BY <1>2, <2>2, RepairsAreSound DEF IsRepair
<1>3. CASE ~Exists(s[j])
    BY <1>1, <1>3 DEF Maintain
<1>. QED
    BY <1>2, <1>3

LEMMA MaintainIsOfJobs ==
    ASSUME NEW s, NEW e
    PROVE  /\ DOMAIN Maintain(s, e) = Jobs
           /\ Maintain(s, e) = [j \in Jobs |-> Maintain(s, e)[j]]
BY DEF Maintain

\* A section that leaves the runs and the configuration alone.
LEMMA QuietSavesKeepIInv ==
    ASSUME IInv, Section, NEW s, Persist(s),
           DOMAIN s = Jobs, s = [j \in Jobs |-> s[j]],
           ProcessIsTyped', RunsHaveOwners', TimerIsArmed', IsUp',
           UNCHANGED <<run, disturbed, successes, unborn, now>>,
           Promised' \subseteq Promised,
           \A j \in Jobs : /\ SoundNow(j, s[j])
                           /\ ConfigOf(s[j]) = config[j]
    PROVE  IInv'
<1>1. OthersAreTyped' /\ RunsAreSound'
    BY DEF IInv, TypeInv, OthersAreTyped, RunsAreSound
<1>2. \A j \in unborn' : /\ s[j] = NoJob
                         /\ \A o \in Origins : run'[o][j].stage = "none"
                         /\ successes'[j] =< 0
  <2>. SUFFICES ASSUME NEW j \in unborn
                PROVE  /\ s[j] = NoJob
                       /\ \A o \in Origins : run[o][j].stage = "none"
                       /\ successes[j] =< 0
      OBVIOUS
  <2>1. j \in Jobs
      BY DEF IInv, TypeInv, OthersAreTyped
  <2>2. config[j] = NoConfig
      BY <2>1 DEF IInv, GoneIsGone
  <2>3. ConfigOf(s[j]) = NoConfig
      BY <2>1, <2>2
  <2>4. s[j].schedule = None
      BY <2>3 DEF ConfigOf, NoConfig
  <2>. QED
      BY <2>1, <2>4 DEF SoundNow, SoundThen, SoundJob, Exists, IInv, GoneIsGone
<1>3. ASSUME NEW j \in Jobs
      PROVE  SoundThen(j, s[j])
  <2>1. SoundJob(j, s[j], run, disturbed, successes, Promised)
      BY DEF SoundNow
  <2>2. SoundJob(j, s[j], run, disturbed, successes, Promised')
      BY <2>1, FewerPromisesAreSound
  <2>. QED
      BY <2>2 DEF SoundThen
<1>4. \A j \in OneShots \ disturbed' : config[j] = ConfigOf(s[j])
    BY DEF Jobs
<1>. QED
    BY <1>1, <1>2, <1>3, <1>4, SavesKeepIInv

LEMMA ListKeepsIInv ==
    ASSUME IInv, List
    PROVE  IInv'
<1>. DEFINE s == Maintain(store, FALSE)
<1>1. Section /\ Persist(s) /\ UNCHANGED <<process, run, bounds, history>>
    BY DEF List
<1>2. TypeInv
    BY DEF IInv
<1>3. \A j \in Jobs : /\ SoundNow(j, s[j])
                      /\ ConfigOf(s[j]) = config[j]
                      /\ s[j].enabled = store[j].enabled
  <2>1. \A j \in Jobs : /\ SoundNow(j, store[j])
                        /\ config[j] = ConfigOf(store[j])
      BY <1>1, SectionsBeginSoundly
  <2>2. ASSUME NEW j \in Jobs
        PROVE  /\ SoundNow(j, Maintain(store, FALSE)[j])
               /\ ConfigOf(Maintain(store, FALSE)[j]) = ConfigOf(store[j])
               /\ Maintain(store, FALSE)[j].enabled = store[j].enabled
    <3>1. SoundJob(j, store[j], run, disturbed, successes, Promised)
        BY <2>1 DEF SoundNow
    <3>. QED
        BY <1>2, <3>1, MaintainedCopiesAreSound DEF SoundNow
  <2>. QED
      BY <2>1, <2>2
<1>4. TimerIsArmed'
    BY <1>1, <1>3 DEF TimerIsArmed, IInv, process, Persist
<1>5. ProcessIsTyped' /\ RunsHaveOwners' /\ IsUp' /\ Promised' = Promised
    BY <1>1, SectionsBeginSoundly
       DEF IInv, TypeInv, ProcessIsTyped, RunsHaveOwners, IsUp, process,
           Promised
<1>6. DOMAIN s = Jobs /\ s = [j \in Jobs |-> s[j]]
    BY MaintainIsOfJobs
<1>. HIDE DEF s
<1>. QED
    BY <1>1, <1>3, <1>4, <1>5, <1>6, QuietSavesKeepIInv DEF bounds, history

LEMMA StartupEndsKeepsIInv ==
    ASSUME IInv, StartupEnds
    PROVE  IInv'
<1>. DEFINE s == Maintain(store, TRUE)
<1>1. /\ Section /\ Persist(s) /\ ArmTimer(s)
      /\ startup = "ending" /\ startup' = "up" /\ skipped' = {}
      /\ deferred' = {}
      /\ UNCHANGED <<tick, run, bounds, history>>
    BY DEF StartupEnds
<1>2. TypeInv
    BY DEF IInv
<1>3. \A j \in Jobs : /\ SoundNow(j, s[j])
                      /\ ConfigOf(s[j]) = config[j]
  <2>1. \A j \in Jobs : /\ SoundNow(j, store[j])
                        /\ config[j] = ConfigOf(store[j])
      BY <1>1, SectionsBeginSoundly
  <2>2. ASSUME NEW j \in Jobs
        PROVE  /\ SoundNow(j, Maintain(store, TRUE)[j])
               /\ ConfigOf(Maintain(store, TRUE)[j]) = ConfigOf(store[j])
               /\ Maintain(store, TRUE)[j].enabled = store[j].enabled
    <3>1. SoundJob(j, store[j], run, disturbed, successes, Promised)
        BY <2>1 DEF SoundNow
    <3>. QED
        BY <1>2, <3>1, MaintainedCopiesAreSound DEF SoundNow
  <2>. QED
      BY <2>1, <2>2
<1>4. TimerIsArmed' /\ timer' \in BOOLEAN
    BY <1>1 DEF TimerIsArmed, Persist, ArmTimer
<1>5. ProcessIsTyped' /\ RunsHaveOwners' /\ IsUp'
    BY <1>1, <1>4 DEF IInv, TypeInv, ProcessIsTyped, RunsHaveOwners, IsUp
<1>7. Promised' \subseteq Promised
    BY <1>1 DEF Promised
<1>6. DOMAIN s = Jobs /\ s = [j \in Jobs |-> s[j]]
    BY MaintainIsOfJobs
<1>. HIDE DEF s
<1>. QED
    BY <1>1, <1>3, <1>4, <1>5, <1>6, <1>7, QuietSavesKeepIInv
       DEF bounds, history

-----------------------------------------------------------------------------
(***************************************************************************)
(* Executions, time and crashes.                                           *)
(***************************************************************************)

\* What changes when the execution of j for o begins or ends.
OneRunMoves(o, j) ==
    /\ run' \in [Origins -> [Jobs -> RunType]]
    /\ \A p \in Origins, k \in Jobs :
          p # o \/ k # j => run'[p][k] = run[p][k]
    /\ Executes(run, o, j)
    /\ IsBusy(run', o, j)
    /\ UNCHANGED <<store, files, process, bounds, disturbed>>

\* It leaves the files alone, and the jobs with their runs.
LEMMA MovingRunsKeepIInv ==
    ASSUME IInv, NEW o \in Origins, NEW j \in Jobs, OneRunMoves(o, j),
           successes' \in [Jobs -> Int],
           \A k \in Jobs : k # j => successes'[k] = successes[k],
           j \in OneShots \ disturbed =>
              /\ successes'[j] =< 1
              /\ IsOpen(run', o, j) => successes'[j] =< 0
              /\ MayRun(Loaded[j]) /\ ~IsCutShort(j)
                 => /\ successes'[j] =< 0
                    /\ Executes(run', o, j) => successes'[j] =< -1
    PROVE  IInv'
<1>1. /\ UNCHANGED <<store, config, states, saving, timer, tick, startup,
                     skipped, deferred, now, disposable, unborn, disturbed>>
      /\ run' \in [Origins -> [Jobs -> RunType]]
    BY DEF OneRunMoves, files, process, bounds
<1>2. \A p \in Origins, k \in Jobs :
          /\ p # o \/ k # j => run'[p][k] = run[p][k]
          /\ IsBusy(run', p, k) <=> IsBusy(run, p, k)
    BY DEF OneRunMoves, IsBusy, Executes
<1>3. IsBusy(run, o, j) /\ IsBusy(run', o, j)
    BY DEF OneRunMoves, IsBusy, Executes
<1>4. TypeInv'
    BY <1>1 DEF IInv, TypeInv, FilesAreTyped, ProcessIsTyped, OthersAreTyped
<1>5. j \notin unborn
    BY <1>3 DEF IsBusy, IInv, GoneIsGone
<1>6. GoneIsGone'
    BY <1>1, <1>2, <1>5 DEF IInv, GoneIsGone
<1>7. RunsHaveOwners' /\ DownIsIdle'
    BY <1>1, <1>2, <1>3 DEF IInv, RunsHaveOwners, DownIsIdle, IsUp, IsBusy,
                            Origins
<1>8. RunsAreSound'
  <2>1. ASSUME NEW k \in Jobs \ disturbed
        PROVE  \A p, q \in Origins :
                  IsBusy(run', p, k) /\ IsBusy(run', q, k) => p = q
      BY <1>2, <2>1 DEF IInv, RunsAreSound, SoundRuns
  <2>2. ASSUME j \in OneShots \ disturbed, NEW p \in Origins, IsOpen(run', p, j)
        PROVE  successes'[j] =< 0
    <3>1. IsBusy(run', p, j)
        BY <2>2 DEF IsOpen, IsBusy, Executes
    <3>2. p = o
        BY <1>3, <2>1, <2>2, <3>1
    <3>. QED
        BY <2>2, <3>2
  <2>3. ASSUME NEW k \in OneShots \ disturbed, k # j
        PROVE  /\ successes'[k] =< 1
               /\ (\E p \in Origins : IsOpen(run', p, k)) => successes'[k] =< 0
    <3>1. k \in Jobs
        BY <2>3 DEF Jobs
    <3>2. \A p \in Origins : IsOpen(run', p, k) <=> IsOpen(run, p, k)
        BY <1>2, <2>3, <3>1 DEF IsOpen, Executes
    <3>. QED
        BY <2>3, <3>1, <3>2 DEF IInv, RunsAreSound, SoundRuns
  <2>. SUFFICES ASSUME NEW k \in Jobs
                PROVE  SoundRuns(k, run', disturbed, successes')
      BY <1>1 DEF RunsAreSound
  <2>. QED
      BY <2>1, <2>2, <2>3 DEF SoundRuns
<1>9. Promised' = Promised
  <2>1. ASSUME NEW k \in Jobs
        PROVE  (/\ run'["manual"][k].stage = "checked"
                /\ ~run'["manual"][k].forced)
               <=> (/\ run["manual"][k].stage = "checked"
                    /\ ~run["manual"][k].forced)
    <3>1. CASE o = "manual" /\ k = j
        BY <1>3, <3>1 DEF IsBusy
    <3>2. CASE ~(o = "manual" /\ k = j)
      <4>1. run'["manual"][k] = run["manual"][k]
          BY <1>2, <3>2 DEF Origins
      <4>. QED
          BY <4>1
    <3>. QED
        BY <3>1, <3>2
  <2>2. { k \in Jobs : /\ run'["manual"][k].stage = "checked"
                       /\ ~run'["manual"][k].forced }
        = { k \in Jobs : /\ run["manual"][k].stage = "checked"
                         /\ ~run["manual"][k].forced }
      BY <2>1
  <2>. QED
      BY <1>1, <2>2 DEF Promised
<1>10. ASSUME NEW k \in Jobs, NEW job, IsUp,
             SoundNow(k, job)
      PROVE  SoundThen(k, job)
  <2>1. (\E p \in Origins : IsBusy(run', p, k))
        <=> (\E p \in Origins : IsBusy(run, p, k))
      BY <1>2, <1>10
  <2>2. CASE k # j
    <3>. QED
        BY <1>1, <1>10, <1>9, <2>1, <2>2 DEF SoundNow, SoundThen, SoundJob
  <2>3. CASE k = j
    <3>1. j \in OneShots \ disturbed
          => ~MayRun(job) /\ ~IsPromised(Promised, j, job)
      <4>1. j \notin disturbed => ~job.enabled \/ job.runningAt # None
          BY <1>3, <1>10, <2>3 DEF SoundNow, SoundThen, SoundJob, NoJob
      <4>. QED
          BY <4>1 DEF MayRun, IsPromised
    <3>. QED
        BY <1>1, <1>10, <1>9, <2>1, <2>3, <3>1
           DEF SoundNow, SoundThen, SoundJob
  <2>. QED
      BY <2>2, <2>3
<1>11. \A k \in Jobs : /\ Loaded'[k] = Loaded[k]
                       /\ IsCutShort(k)' <=> IsCutShort(k)
    BY <1>1 DEF Loaded, IsCutShort
<1>12. ASSUME NEW k \in Jobs
       PROVE  FilesAreSound(k)'
  <2>1. CASE k # j
    <3>1. \A p \in Origins : Executes(run', p, k) <=> Executes(run, p, k)
        BY <1>2, <1>12, <2>1 DEF Executes
    <3>2. FilesAreSound(k)
        BY DEF IInv, CopiesAreSound
    <3>. QED
        BY <1>1, <1>11, <2>1, <3>1, <3>2 DEF FilesAreSound
  <2>2. CASE k = j
    <3>1. j \notin disturbed => \A p \in Origins : Executes(run', p, j) => p = o
        BY <1>2, <1>3 DEF IInv, RunsAreSound, SoundRuns, Executes, IsBusy
    <3>. QED
        BY <1>1, <1>11, <2>2, <3>1 DEF FilesAreSound
  <2>. QED
      BY <2>1, <2>2
<1>13. CopiesAreSound'
  <2>. SUFFICES ASSUME NEW k \in Jobs
                PROVE  /\ FilesAreSound(k)'
                       /\ IsUp => SoundThen(k, store[k])
                       /\ IsUp /\ ~saving => SoundThen(k, Loaded[k])
                       /\ IsUp /\ ~saving => config[k] = ConfigOf(store[k])
                       /\ saving => states[k] = StateOf(store[k])
      BY <1>1, <1>11 DEF CopiesAreSound, IsUp, SoundNow, SoundThen
  <2>. QED
      BY <1>10, <1>12 DEF IInv, CopiesAreSound
<1>14. TimerIsArmed'
    BY <1>1 DEF IInv, TimerIsArmed
<1>. QED
    BY <1>4, <1>6, <1>7, <1>8, <1>13, <1>14 DEF IInv

LEMMA RunBeginsKeepsIInv ==
    ASSUME IInv, NEW o \in Origins, NEW j \in Jobs, RunBegins(o, j)
    PROVE  IInv'
<1>1. run[o] \in [Jobs -> RunType] /\ run[o][j] \in RunType /\ now \in Int
    BY DEF IInv, TypeInv, ProcessIsTyped, OthersAreTyped
<1>2. OneRunMoves(o, j) /\ Executes(run', o, j)
    BY <1>1 DEF RunBegins, OneRunMoves, IInv, TypeInv, ProcessIsTyped,
                RunType, IsBusy, Executes, history
<1>3. Executes(run, o, j) /\ successes' = successes
    BY DEF RunBegins, Executes, history
<1>4. j \in OneShots \ disturbed => successes[j] =< 0
    BY <1>3 DEF IInv, RunsAreSound, SoundRuns, IsOpen
<1>5. j \in OneShots \ disturbed /\ MayRun(Loaded[j]) /\ ~IsCutShort(j)
      => successes[j] =< -1
    BY <1>3 DEF IInv, CopiesAreSound, FilesAreSound
<1>6. successes \in [Jobs -> Int]
    BY DEF IInv, TypeInv, OthersAreTyped
<1>. QED
    BY <1>2, <1>3, <1>4, <1>5, <1>6, MovingRunsKeepIInv

LEMMA RunEndsKeepsIInv ==
    ASSUME IInv, NEW o \in Origins, NEW j \in Jobs, RunEnds(o, j)
    PROVE  IInv'
<1>1. run[o] \in [Jobs -> RunType] /\ run[o][j] \in RunType /\ now \in Int
    BY DEF IInv, TypeInv, ProcessIsTyped, OthersAreTyped
<1>2. PICK ok \in BOOLEAN :
          /\ run' = [run EXCEPT ![o][j].stage = "done",
                                ![o][j].endedAt = now,
                                ![o][j].ok = ok]
          /\ successes' = IF ok /\ ~run[o][j].forced
                          THEN [successes EXCEPT ![j] = @ + 1] ELSE successes
    BY DEF RunEnds
<1>3. /\ run[o][j].stage = "running"
      /\ UNCHANGED <<store, files, process, bounds, disturbed>>
    BY DEF RunEnds
<1>4. /\ run' \in [Origins -> [Jobs -> RunType]]
      /\ \A p \in Origins, k \in Jobs :
            p # o \/ k # j => run'[p][k] = run[p][k]
      /\ run'[o][j].stage = "done" /\ run'[o][j].ok = ok
    BY <1>1, <1>2 DEF IInv, TypeInv, ProcessIsTyped, RunType
<1>5. OneRunMoves(o, j) /\ ~Executes(run', o, j) /\ Executes(run, o, j)
    BY <1>3, <1>4 DEF OneRunMoves, IsBusy, Executes
<1>6. j \in OneShots \ disturbed => successes[j] =< 0
    BY <1>5 DEF IInv, RunsAreSound, SoundRuns, IsOpen
<1>7. j \in OneShots \ disturbed /\ MayRun(Loaded[j]) /\ ~IsCutShort(j)
      => successes[j] =< -1
    BY <1>5 DEF IInv, CopiesAreSound, FilesAreSound
<1>8. successes \in [Jobs -> Int]
    BY DEF IInv, TypeInv, OthersAreTyped
<1>9. /\ successes' \in [Jobs -> Int]
      /\ \A k \in Jobs : k # j => successes'[k] = successes[k]
      /\ successes'[j] =< successes[j] + 1
      /\ ~ok => successes'[j] = successes[j]
    BY <1>2, <1>8
<1>10. IsOpen(run', o, j) => ~ok
    BY <1>4, <1>5 DEF IsOpen
<1>. QED
    BY <1>5, <1>6, <1>7, <1>8, <1>9, <1>10, MovingRunsKeepIInv

\* The second file makes the files say what the copy in memory says.
LEMMA ConfigIsWrittenKeepsIInv ==
    ASSUME IInv, ConfigIsWritten
    PROVE  IInv'
<1>1. /\ saving /\ saving' = FALSE
      /\ config' = [j \in Jobs |-> ConfigOf(store[j])]
      /\ UNCHANGED <<store, states, timer, tick, startup, skipped, deferred,
                     run, now, disposable, unborn, disturbed, successes>>
      /\ UNCHANGED Promised
    BY DEF ConfigIsWritten, process, bounds, history, Promised
<1>2. IsUp
    BY <1>1 DEF IInv, DownIsIdle
<1>3. \A j \in Jobs : /\ SoundNow(j, store[j])
                      /\ store[j] \in JobType
                      /\ ~Exists(store[j]) => store[j] = NoJob
                      /\ states[j] = StateOf(store[j])
    BY <1>1, <1>2 DEF IInv, CopiesAreSound, SoundNow, SoundThen, SoundJob
<1>4. \A j \in Jobs : Loaded'[j] = store[j]
  <2>1. \A j \in Jobs : Loaded'[j] = IF ConfigOf(store[j]) = NoConfig THEN NoJob
                                     ELSE JobIn(ConfigOf(store[j]),
                                                StateOf(store[j]))
      BY <1>1, <1>3 DEF Loaded
  <2>. QED
      BY <1>3, <2>1, SavedJobsAreReadAgain
<1>5. TypeInv'
  <2>1. config' \in [Jobs -> ConfigType]
      BY <1>1, <1>3 DEF ConfigOf, ConfigType, JobType
  <2>. QED
      BY <1>1, <2>1
         DEF IInv, TypeInv, FilesAreTyped, ProcessIsTyped, OthersAreTyped
<1>6. GoneIsGone'
  <2>1. \A j \in Jobs : /\ config'[j] = ConfigOf(store[j])
                        /\ Exists(config'[j]) <=> Exists(store[j])
      BY <1>1 DEF Exists, ConfigOf
  <2>2. ConfigOf(NoJob) = NoConfig
      BY DEF ConfigOf, NoJob, NoConfig
  <2>3. \A j \in Jobs : /\ ~Exists(config'[j]) => config'[j] = NoConfig
                        /\ store[j] = NoJob => config'[j] = NoConfig
      BY <1>3, <2>1, <2>2
  <2>. QED
      BY <1>1, <2>3 DEF IInv, GoneIsGone
<1>7. ASSUME NEW j \in Jobs
      PROVE  FilesAreSound(j)'
  <2>. SUFFICES ASSUME j \in OneShots \ disturbed, MayRun(store[j])
                PROVE  /\ successes[j] =< 0
                       /\ \A o \in Origins : ~Executes(run, o, j)
      BY <1>1, <1>4 DEF FilesAreSound
  <2>1. Exists(store[j])
      BY <1>3 DEF MayRun, NoJob
  <2>. QED
      BY <1>3, <2>1 DEF SoundNow, SoundThen, SoundJob, MayRun, Executes, IsBusy
<1>8. CopiesAreSound'
  <2>. SUFFICES ASSUME NEW j \in Jobs
                PROVE  /\ FilesAreSound(j)'
                       /\ SoundNow(j, store[j])
                       /\ SoundNow(j, Loaded'[j])
                       /\ config'[j] = ConfigOf(store[j])
      BY <1>1 DEF CopiesAreSound, SoundNow
  <2>. QED
      BY <1>1, <1>3, <1>4, <1>7
<1>9. RunsHaveOwners' /\ DownIsIdle' /\ TimerIsArmed' /\ RunsAreSound'
    BY <1>1 DEF IInv, RunsHaveOwners, DownIsIdle, TimerIsArmed, RunsAreSound,
                IsUp
<1>. QED
    BY <1>5, <1>6, <1>8, <1>9 DEF IInv

\* Steps of which the invariant does not speak.
LEMMA UnseenStepsKeepIInv ==
    ASSUME IInv, now' \in Nat,
           UNCHANGED <<store, config, states, saving, timer, tick, startup,
                       skipped, deferred, run, disposable, unborn, disturbed,
                       successes>>
    PROVE  IInv'
<1>1. Loaded' = Loaded /\ \A j \in Jobs : IsCutShort(j)' <=> IsCutShort(j)
    BY DEF Loaded, IsCutShort
<1>2. CopiesAreSound'
    BY <1>1 DEF IInv, CopiesAreSound, FilesAreSound, IsUp, SoundNow, Promised
<1>3. TypeInv' /\ GoneIsGone'
    BY DEF IInv, TypeInv, FilesAreTyped, ProcessIsTyped, OthersAreTyped,
           GoneIsGone
<1>4. RunsHaveOwners' /\ DownIsIdle' /\ TimerIsArmed' /\ RunsAreSound'
    BY DEF IInv, RunsHaveOwners, DownIsIdle, TimerIsArmed, RunsAreSound, IsUp
<1>. QED
    BY <1>2, <1>3, <1>4 DEF IInv

LEMMA BlankRunsAreIdle ==
    /\ NoRun \in RunType
    /\ NoRun.stage = "none"
    /\ \A j \in Jobs : NoBatch[j] = NoRun
    /\ NoBatch \in [Jobs -> RunType]
    /\ NoJob \in JobType
BY DEF NoRun, RunType, NoBatch, None, NoJob, JobType, Statuses

LEMMA CrashKeepsIInv ==
    ASSUME IInv, Crash
    PROVE  IInv'
<1>1. /\ store' = [j \in Jobs |-> NoJob] /\ saving' = FALSE /\ timer' = FALSE
      /\ tick' = "idle" /\ startup' = "down" /\ skipped' = {}
      /\ deferred' = {}
      /\ run' = [o \in Origins |-> NoBatch]
      /\ disturbed' = disturbed \cup { j \in OneShots : IsCutShort(j) }
      /\ UNCHANGED <<config, states, now, disposable, unborn, successes>>
    BY DEF Crash
<1>2. \A o \in Origins, j \in Jobs : run'[o][j].stage = "none"
    BY <1>1, BlankRunsAreIdle
<1>3. TypeInv'
    BY <1>1, BlankRunsAreIdle
       DEF IInv, TypeInv, FilesAreTyped, ProcessIsTyped, OthersAreTyped
<1>4. GoneIsGone'
    BY <1>1, <1>2 DEF IInv, GoneIsGone
<1>5. Loaded' = Loaded
    BY <1>1 DEF Loaded
<1>6. ASSUME NEW j \in Jobs
      PROVE  FilesAreSound(j)'
  <2>. SUFFICES ASSUME j \in OneShots \ disturbed', MayRun(Loaded[j])
                PROVE  successes[j] =< 0
      BY <1>1, <1>2, <1>5 DEF FilesAreSound, Executes
  <2>1. j \notin disturbed /\ ~IsCutShort(j)
      BY <1>1
  <2>. QED
      BY <2>1 DEF IInv, CopiesAreSound, FilesAreSound
<1>7. CopiesAreSound'
    BY <1>1, <1>6 DEF CopiesAreSound, IsUp
<1>8. RunsAreSound'
  <2>. SUFFICES ASSUME NEW j \in Jobs, j \notin disturbed
                PROVE  SoundRuns(j, run', disturbed', successes)
      BY <1>1 DEF RunsAreSound, SoundRuns
  <2>1. \A o \in Origins : ~IsBusy(run', o, j) /\ ~IsOpen(run', o, j)
      BY <1>2 DEF IsBusy, IsOpen, Executes
  <2>. QED
      BY <2>1 DEF IInv, RunsAreSound, SoundRuns
<1>9. RunsHaveOwners' /\ DownIsIdle' /\ TimerIsArmed'
    BY <1>1, <1>2 DEF RunsHaveOwners, DownIsIdle, TimerIsArmed, Origins
<1>. QED
    BY <1>3, <1>4, <1>7, <1>8, <1>9 DEF IInv

\* A start takes the markers away, and with them the one-shots.
LEMMA InterruptedJobsAreSound ==
    ASSUME NEW j \in Jobs, NEW job \in JobType
    PROVE  LET after == Interrupted(j, job)
           IN  /\ after \in JobType
               /\ after.runningAt = None
               /\ after.schedule = job.schedule
               /\ after.enabled <=> job.enabled /\ j \notin OneShots
<1>. DEFINE first == [job EXCEPT !.runningAt = None]
            second == [first EXCEPT !.lastRun = job.runningAt]
            third == [second EXCEPT !.lastStatus = "error"]
            fourth == [third EXCEPT !.errors = job.errors + 1]
            fifth == [fourth EXCEPT !.next = None]
            last == [fifth EXCEPT !.enabled = job.enabled /\ j \notin OneShots]
            Like(a) == /\ a \in JobType
                       /\ a.runningAt = None
                       /\ a.schedule = job.schedule
<1>. USE DEF Statuses
<1>1. Like(first)
    BY DEF JobType, None
<1>. HIDE DEF first
<1>2. Like(second)
    BY <1>1 DEF JobType
<1>. HIDE DEF second
<1>3. Like(third)
    BY <1>2 DEF JobType
<1>. HIDE DEF third
<1>4. Like(fourth)
    BY <1>3 DEF JobType
<1>. HIDE DEF fourth
<1>5. Like(fifth)
    BY <1>4 DEF JobType, None
<1>. HIDE DEF fifth
<1>6. (job.enabled /\ j \notin OneShots) \in BOOLEAN
    OBVIOUS
<1>7. Like(last) /\ last.enabled = (job.enabled /\ j \notin OneShots)
    BY <1>5, <1>6 DEF JobType
<1>8. Interrupted(j, job) = last
    BY DEF Interrupted, first, second, third, fourth, fifth
<1>. QED
    BY <1>7, <1>8

\* What the files say of a job is a job, or blank.
LEMMA LoadedJobsAreTyped ==
    ASSUME TypeInv, GoneIsGone, NEW j \in Jobs
    PROVE  /\ Loaded[j] \in JobType
           /\ ConfigOf(Loaded[j]) = config[j]
           /\ ~Exists(Loaded[j]) => Loaded[j] = NoJob
<1>1. config[j] \in ConfigType /\ states[j] \in StateType
    BY DEF TypeInv, FilesAreTyped
<1>2. CASE config[j] = NoConfig
    BY <1>2, BlankRunsAreIdle DEF Loaded, NoJob, ConfigOf, NoConfig
<1>3. CASE config[j] # NoConfig
  <2>1. Loaded[j] = JobIn(config[j], states[j])
      BY <1>3 DEF Loaded
  <2>2. Exists(config[j])
      BY <1>3 DEF GoneIsGone
  <2>. QED
      BY <1>1, <2>1, <2>2
         DEF JobIn, ConfigOf, ConfigType, StateType, JobType, Exists, None
<1>. QED
    BY <1>2, <1>3

LEMMA StartKeepsIInv ==
    ASSUME IInv, Start
    PROVE  IInv'
<1>. DEFINE found == { j \in Jobs : Loaded[j].runningAt # None }
            s == [j \in Jobs |-> IF j \in found THEN Interrupted(j, Loaded[j])
                                                ELSE Loaded[j]]
<1>1. /\ startup = "down" /\ startup' = "planning" /\ skipped' = found
      /\ UNCHANGED <<timer, tick, deferred, run, now, disposable, unborn,
                     disturbed, successes>>
    BY DEF Start, bounds, history
<1>2. Persist(s)
  <2>1. skipped' = found
      BY <1>1
  <2>2. Persist([j \in Jobs |-> IF j \in skipped'
                                THEN Interrupted(j, Loaded[j]) ELSE Loaded[j]])
      BY DEF Start
  <2>. QED
      BY <2>1, <2>2
<1>3. /\ ~saving
      /\ \A o \in Origins, j \in Jobs : run[o][j].stage = "none"
    BY <1>1 DEF IInv, DownIsIdle, RunsHaveOwners, IsUp, Origins
<1>4. \A j \in Jobs : /\ Loaded[j] \in JobType
                      /\ ConfigOf(Loaded[j]) = config[j]
                      /\ ~Exists(Loaded[j]) => Loaded[j] = NoJob
    BY LoadedJobsAreTyped DEF IInv
<1>5. \A j \in found : /\ s[j] = Interrupted(j, Loaded[j])
                       /\ Exists(Loaded[j])
                       /\ s[j] \in JobType
                       /\ s[j].runningAt = None
                       /\ s[j].schedule = Loaded[j].schedule
                       /\ s[j].enabled
                          <=> Loaded[j].enabled /\ j \notin OneShots
    BY <1>4, InterruptedJobsAreSound DEF NoJob
<1>6. \A j \in Jobs \ found : s[j] = Loaded[j] /\ s[j].runningAt = None
    OBVIOUS
<1>7. \A j \in Jobs : /\ s[j] \in JobType /\ s[j].runningAt = None
                      /\ ~Exists(s[j]) => s[j] = NoJob
    BY <1>4, <1>5, <1>6 DEF Exists
<1>8. \A j \in Jobs : FilesAreSound(j) /\ ~IsCutShort(j)
    BY <1>3 DEF IInv, CopiesAreSound, IsCutShort
<1>9. DOMAIN s = Jobs /\ s = [j \in Jobs |-> s[j]] /\ found \subseteq Jobs
    OBVIOUS
<1>. HIDE DEF s
<1>10. ASSUME NEW j \in Jobs
       PROVE  SoundThen(j, s[j])
  <2>1. \A o \in Origins : ~IsBusy(run, o, j)
      BY <1>3 DEF IsBusy
  <2>2. ~IsPromised(Promised', j, s[j])
      BY <1>1, <1>3 DEF IsPromised, Promised, Origins
  <2>3. ASSUME j \in OneShots \ disturbed, MayRun(s[j])
        PROVE  successes[j] =< 0
    <3>1. j \notin found
        BY <1>5, <2>3 DEF MayRun
    <3>. QED
        BY <1>6, <1>8, <2>3, <3>1 DEF FilesAreSound
  <2>. QED
      BY <1>1, <1>7, <2>1, <2>2, <2>3 DEF SoundNow, SoundThen, SoundJob
<1>11. ASSUME NEW j \in OneShots \ disturbed',
              MayRun(JobIn(config[j], StateOf(s[j]))),
              config[j] # ConfigOf(s[j])
       PROVE  IsCutShort(j)'
  <2>1. j \in Jobs /\ j \in found
      BY <1>4, <1>6, <1>11 DEF Jobs
  <2>2. config[j].enabled
      BY <1>11 DEF MayRun, JobIn
  <2>3. ~s[j].enabled
      BY <1>5, <1>11, <2>1
  <2>4. saving' /\ store' = s /\ config' = config
      BY <1>2, <1>11, <2>1 DEF Persist
  <2>. QED
      BY <1>1, <2>1, <2>2, <2>3, <2>4 DEF IsCutShort
<1>12. ProcessIsTyped' /\ OthersAreTyped' /\ IsUp'
    BY <1>1 DEF IInv, TypeInv, ProcessIsTyped, OthersAreTyped, IsUp
<1>13. RunsAreSound' /\ RunsHaveOwners' /\ TimerIsArmed'
    BY <1>1, <1>3 DEF IInv, RunsAreSound, RunsHaveOwners, TimerIsArmed, IsUp,
                      Origins
<1>14. \A j \in unborn' : /\ s[j] = NoJob
                          /\ \A o \in Origins : run'[o][j].stage = "none"
                          /\ successes'[j] =< 0
  <2>1. \A j \in unborn : j \in Jobs /\ config[j] = NoConfig
      BY DEF IInv, TypeInv, OthersAreTyped, GoneIsGone
  <2>2. \A j \in unborn : Loaded[j] = NoJob
      BY <2>1 DEF Loaded
  <2>3. \A j \in unborn : j \notin found
      BY <2>2 DEF NoJob
  <2>. QED
      BY <1>1, <1>3, <1>6, <2>1, <2>2, <2>3 DEF IInv, GoneIsGone
<1>. HIDE DEF found
<1>. QED
    BY <1>1, <1>2, <1>9, <1>10, <1>11, <1>12, <1>13, <1>14, SavesKeepIInv

-----------------------------------------------------------------------------
(***************************************************************************)
(* Batches.                                                                *)
(***************************************************************************)

\* The timer or a start marks jobs that are runnable, of a sound copy, and
\* begins a batch of them.
BatchStarts(o, due) ==
    /\ run' = [run EXCEPT ![o] = Batch(due)]
    /\ UNCHANGED <<timer, skipped, now, unborn, disturbed, successes>>
    /\ o = "timer" => tick' = "executing" /\ startup' = startup
    /\ o = "startup" => startup' = "executing" /\ tick' = tick

LEMMA BatchesKeepIInv ==
    ASSUME IInv, Section, NEW s, NEW due \in SUBSET Jobs,
           NEW o \in {"timer", "startup"}, BatchStarts(o, due),
           \A j \in Jobs : /\ SoundNow(j, s[j])
                           /\ ConfigOf(s[j]) = config[j]
                           /\ run[o][j].stage = "none",
           \A j \in due : IsRunnable(s[j]),
           deferred' \subseteq Jobs,
           \A j \in Promised' \ Promised : IsRunnable(s[j]),
           Persist(Marked(s, due))
    PROVE  IInv'
<1>. DEFINE m == Marked(s, due)
<1>1. /\ now \in Nat
      /\ run \in [Origins -> [Jobs -> RunType]]
      /\ successes \in [Jobs -> Int]
      /\ \A j \in Jobs : SoundRuns(j, run, disturbed, successes)
    BY DEF IInv, TypeInv, ProcessIsTyped, OthersAreTyped, RunsAreSound
<1>2. o \in Origins
    BY DEF Origins
<1>3. \A j \in Jobs : s[j] \in JobType /\ (~Exists(s[j]) => s[j] = NoJob)
    BY DEF SoundNow, SoundThen, SoundJob
<1>4. \A j \in due : /\ s[j].enabled /\ s[j].runningAt = None
                     /\ MayRun(s[j]) /\ Exists(s[j])
    BY <1>3 DEF IsRunnable, HasPassed, MayRun, NoJob
<1>5. \A j \in Jobs : /\ j \in due => m[j] = [s[j] EXCEPT !.runningAt = now]
                      /\ j \notin due => m[j] = s[j]
    BY DEF Marked
<1>6. DOMAIN m = Jobs /\ m = [j \in Jobs |-> m[j]]
    BY DEF Marked
<1>7. \A j \in Jobs : /\ m[j] \in JobType
                      /\ m[j].enabled = s[j].enabled
                      /\ m[j].schedule = s[j].schedule
                      /\ j \in due => m[j].runningAt = now
  <2>1. ASSUME NEW j \in due
        PROVE  /\ m[j] \in JobType
               /\ m[j].enabled = s[j].enabled
               /\ m[j].schedule = s[j].schedule
               /\ m[j].runningAt = now
    <3>1. s[j] \in JobType /\ m[j] = [s[j] EXCEPT !.runningAt = now]
        BY <1>3, <1>5
    <3>. QED
        BY <1>1, <3>1 DEF JobType
  <2>. QED
      BY <1>3, <1>5, <2>1
<1>8. \A j \in Jobs : ConfigOf(m[j]) = config[j]
    BY <1>7 DEF ConfigOf
<1>. HIDE DEF m
<1>9. /\ run' \in [Origins -> [Jobs -> RunType]]
      /\ \A p \in Origins \ {o} : run'[p] = run[p]
      /\ \A j \in Jobs : /\ j \in due => run'[o][j].stage = "waiting"
                         /\ j \notin due => run'[o][j].stage = "none"
  <2>1. /\ Batch(due) \in [Jobs -> RunType]
        /\ \A j \in Jobs : /\ j \in due => Batch(due)[j].stage = "waiting"
                           /\ j \notin due => Batch(due)[j].stage = "none"
    <3>1. /\ [NoRun EXCEPT !.stage = "waiting"] \in RunType
          /\ [NoRun EXCEPT !.stage = "waiting"].stage = "waiting"
        BY BlankRunsAreIdle DEF RunType
    <3>. QED
        BY <3>1, BlankRunsAreIdle DEF Batch
  <2>. QED
      BY <1>1, <1>2, <2>1 DEF BatchStarts
\* A job that is runnable and undisturbed has no run.
<1>10. \A j \in due \ disturbed : \A p \in Origins : ~IsBusy(run, p, j)
    BY <1>4 DEF SoundNow, SoundThen, SoundJob
<1>11. ASSUME NEW j \in Jobs
       PROVE  SoundThen(j, m[j])
  <2>1. CASE j \in due
    <3>1. IsBusy(run', o, j)
        BY <1>9, <2>1 DEF IsBusy
    <3>2. m[j].runningAt # None /\ m[j].enabled /\ Exists(m[j])
        BY <1>1, <1>4, <1>7, <2>1 DEF None, Exists
    <3>. QED
        BY <1>2, <1>7, <2>1, <3>1, <3>2
           DEF SoundNow, SoundThen, SoundJob, MayRun, IsPromised
  <2>2. CASE j \notin due
    <3>1. m[j] = s[j]
        BY <1>5, <2>2
    <3>2. \A p \in Origins : IsBusy(run', p, j) <=> IsBusy(run, p, j)
        BY <1>2, <1>9, <2>2 DEF IsBusy
    <3>3. IsPromised(Promised', j, s[j])
          => MayRun(s[j]) \/ IsPromised(Promised, j, s[j])
        BY DEF IsPromised, IsRunnable, HasPassed, MayRun
    <3>4. SoundNow(j, s[j])
        OBVIOUS
    <3>5. disturbed' = disturbed /\ successes' = successes
        BY DEF BatchStarts
    <3>. QED
        BY <3>1, <3>2, <3>3, <3>4, <3>5 DEF SoundNow, SoundThen, SoundJob
  <2>. QED
      BY <2>1, <2>2
<1>12. RunsAreSound'
  <2>. SUFFICES ASSUME NEW j \in Jobs
                PROVE  SoundRuns(j, run', disturbed, successes)
      BY DEF RunsAreSound, BatchStarts
  <2>1. CASE j \in due
    <3>1. j \notin disturbed =>
            \A p \in Origins : IsBusy(run', p, j) => p = o
        BY <1>9, <1>10, <2>1 DEF IsBusy
    <3>2. j \in OneShots \ disturbed => successes[j] =< 0
        BY <1>4, <2>1 DEF SoundNow, SoundThen, SoundJob
    <3>. QED
        BY <1>1, <3>1, <3>2 DEF SoundRuns
  <2>2. CASE j \notin due
    <3>1. \A p \in Origins : /\ IsBusy(run', p, j) <=> IsBusy(run, p, j)
                             /\ IsOpen(run', p, j) <=> IsOpen(run, p, j)
        BY <1>2, <1>9, <2>2 DEF IsBusy, IsOpen, Executes
    <3>. QED
        BY <1>1, <3>1 DEF SoundRuns
  <2>. QED
      BY <2>1, <2>2
<1>13. ProcessIsTyped' /\ OthersAreTyped' /\ IsUp'
    BY <1>9 DEF IInv, TypeInv, ProcessIsTyped, OthersAreTyped, BatchStarts,
                IsUp, Section
<1>14. RunsHaveOwners'
    BY <1>9, <1>13 DEF IInv, RunsHaveOwners, BatchStarts, Origins
<1>15. TimerIsArmed'
  <2>1. store' = m
      BY DEF Persist, m
  <2>2. \A j \in Jobs : m[j].enabled = store[j].enabled
    <3>1. \A j \in Jobs : ConfigOf(m[j]) = ConfigOf(store[j])
        BY <1>8, SectionsBeginSoundly
    <3>. QED
        BY <3>1 DEF ConfigOf
  <2>. QED
      BY <2>1, <2>2 DEF IInv, TimerIsArmed, BatchStarts
<1>16. \A j \in unborn' : /\ m[j] = NoJob
                          /\ \A p \in Origins : run'[p][j].stage = "none"
                          /\ successes'[j] =< 0
  <2>. SUFFICES ASSUME NEW j \in unborn
                PROVE  /\ m[j] = NoJob
                       /\ \A p \in Origins : run'[p][j].stage = "none"
                       /\ successes[j] =< 0
      BY DEF BatchStarts
  <2>1. /\ j \in Jobs /\ config[j] = NoConfig /\ successes[j] =< 0
        /\ \A p \in Origins : run[p][j].stage = "none"
      BY DEF IInv, TypeInv, OthersAreTyped, GoneIsGone
  <2>2. ConfigOf(s[j]) = NoConfig
      BY <2>1
  <2>3. ~Exists(s[j])
      BY <2>2 DEF ConfigOf, NoConfig, Exists
  <2>4. j \notin due /\ s[j] = NoJob
      BY <1>3, <1>4, <2>1, <2>3
  <2>5. m[j] = NoJob
      BY <1>5, <2>1, <2>4
  <2>6. ASSUME NEW p \in Origins
        PROVE  run'[p][j].stage = "none"
      BY <1>9, <2>1, <2>4
  <2>. QED
      BY <2>1, <2>5, <2>6
<1>17. unborn' \subseteq unborn
    BY DEF BatchStarts
<1>18. \A j \in OneShots \ disturbed' : config[j] = ConfigOf(m[j])
    BY <1>8 DEF Jobs
<1>19. Persist(m)
    BY DEF m
<1>. QED
    BY <1>6, <1>11, <1>12, <1>13, <1>14, <1>15, <1>16, <1>17, <1>18, <1>19,
       SavesKeepIInv

LEMMA TickCollectsKeepsIInv ==
    ASSUME IInv, TickCollects
    PROVE  IInv'
<1>. DEFINE due == { j \in Jobs : IsRunnable(Loaded[j]) }
            s == Maintain(Loaded, TRUE)
<1>1. /\ Section /\ tick = "idle"
      /\ UNCHANGED <<startup, skipped, deferred, now, disposable, unborn,
                     disturbed, successes>>
    BY DEF TickCollects, bounds, history
<1>2. \A j \in Jobs : /\ SoundNow(j, Loaded[j])
                      /\ ConfigOf(Loaded[j]) = config[j]
                      /\ run["timer"][j].stage = "none"
    BY <1>1, SectionsBeginSoundly DEF IInv, RunsHaveOwners
<1>3. CASE due = {}
  <2>1. /\ Persist(s) /\ ArmTimer(s)
        /\ UNCHANGED <<tick, run>>
      BY <1>3 DEF TickCollects
  <2>2. ASSUME NEW j \in Jobs
        PROVE  /\ SoundNow(j, s[j])
               /\ ConfigOf(s[j]) = config[j]
    <3>1. SoundJob(j, Loaded[j], run, disturbed, successes, Promised)
        BY <1>2 DEF SoundNow
    <3>2. /\ SoundNow(j, Maintain(Loaded, TRUE)[j])
          /\ ConfigOf(Maintain(Loaded, TRUE)[j]) = ConfigOf(Loaded[j])
        BY <3>1, MaintainedCopiesAreSound DEF SoundNow, IInv
    <3>. QED
        BY <1>2, <3>2
  <2>3. TimerIsArmed' /\ timer' \in BOOLEAN
      BY <2>1 DEF TimerIsArmed, Persist, ArmTimer
  <2>4. ProcessIsTyped' /\ RunsHaveOwners' /\ IsUp'
      BY <1>1, <2>1, <2>3 DEF IInv, TypeInv, ProcessIsTyped, RunsHaveOwners,
                              IsUp, Section
  <2>5. DOMAIN s = Jobs /\ s = [j \in Jobs |-> s[j]]
      BY MaintainIsOfJobs
  <2>6. Promised' = Promised
      BY <1>1, <2>1 DEF Promised
  <2>. HIDE DEF s, due
  <2>. QED
      BY <1>1, <2>1, <2>2, <2>3, <2>4, <2>5, <2>6, QuietSavesKeepIInv
<1>4. CASE due # {}
  <2>1. /\ Persist(Marked(Loaded, due)) /\ tick' = "executing"
        /\ run' = [run EXCEPT !["timer"] = Batch(due)]
        /\ UNCHANGED timer
      BY <1>4 DEF TickCollects
  <2>2. BatchStarts("timer", due)
      BY <1>1, <2>1 DEF BatchStarts
  <2>3. due \in SUBSET Jobs /\ \A j \in due : IsRunnable(Loaded[j])
      OBVIOUS
  <2>. HIDE DEF due
  <2>4. run'["manual"] = run["manual"]
      BY <2>1 DEF IInv, TypeInv, ProcessIsTyped
  <2>5. Promised' = Promised
      BY <1>1, <2>4 DEF Promised
  <2>6. deferred' \subseteq Jobs
      BY <1>1 DEF IInv, TypeInv, ProcessIsTyped
  <2>. QED
      BY <1>1, <1>2, <2>1, <2>2, <2>3, <2>5, <2>6, BatchesKeepIInv
<1>. QED
    BY <1>3, <1>4

LEMMA PlanStartupCatchupKeepsIInv ==
    ASSUME IInv, PlanStartupCatchup
    PROVE  IInv'
<1>. DEFINE missed == { j \in Jobs : IsMissed(j, store[j]) }
            due == missed \ AgentTurns
<1>1. /\ Section /\ startup = "planning"
      /\ UNCHANGED <<timer, tick, skipped, now, disposable, unborn, disturbed,
                     successes>>
    BY DEF PlanStartupCatchup, bounds, history
<1>2. \A j \in Jobs : /\ SoundNow(j, store[j])
                      /\ ConfigOf(store[j]) = config[j]
                      /\ run["startup"][j].stage = "none"
    BY <1>1, SectionsBeginSoundly DEF IInv, RunsHaveOwners
<1>3. CASE missed = {}
  <2>1. /\ startup' = "ending"
        /\ UNCHANGED <<store, config, states, saving, run, deferred>>
      BY <1>3 DEF PlanStartupCatchup, files
  <2>2. Loaded' = Loaded /\ \A j \in Jobs : IsCutShort(j)' <=> IsCutShort(j)
      BY <1>1, <2>1 DEF Loaded, IsCutShort
  <2>3. IsUp /\ IsUp'
      BY <1>1, <2>1 DEF IsUp
  <2>4. Promised' = Promised
      BY <1>1, <2>1 DEF Promised
  <2>5. CopiesAreSound'
      BY <1>1, <2>1, <2>2, <2>3, <2>4
         DEF IInv, CopiesAreSound, FilesAreSound, SoundNow
  <2>6. TypeInv' /\ GoneIsGone'
      BY <1>1, <2>1
         DEF IInv, TypeInv, FilesAreTyped, ProcessIsTyped, OthersAreTyped,
             GoneIsGone
  <2>7. RunsHaveOwners' /\ DownIsIdle' /\ TimerIsArmed' /\ RunsAreSound'
      BY <1>1, <1>2, <2>1, <2>3
         DEF IInv, RunsHaveOwners, DownIsIdle, TimerIsArmed, RunsAreSound
  <2>. QED
      BY <2>5, <2>6, <2>7 DEF IInv
<1>4. CASE missed # {}
  <2>1. /\ Persist(Marked(store, due)) /\ startup' = "executing"
        /\ run' = [run EXCEPT !["startup"] = Batch(due)]
        /\ deferred' = missed \cap AgentTurns
      BY <1>4 DEF PlanStartupCatchup
  <2>2. BatchStarts("startup", due)
      BY <1>1, <2>1 DEF BatchStarts
  <2>3. /\ due \in SUBSET Jobs /\ missed \subseteq Jobs
        /\ \A j \in missed : IsRunnable(store[j])
      BY DEF IsMissed
  <2>4. \A j \in due : IsRunnable(store[j])
      BY <2>3
  <2>. HIDE DEF due, missed
  <2>5. run'["manual"] = run["manual"]
      BY <2>1 DEF IInv, TypeInv, ProcessIsTyped
  <2>6. Promised' \subseteq Promised \cup missed /\ deferred' \subseteq Jobs
      BY <1>1, <2>1, <2>3, <2>5 DEF Promised
  <2>. QED
      BY <1>1, <1>2, <2>1, <2>2, <2>3, <2>4, <2>6, BatchesKeepIInv
<1>. QED
    BY <1>3, <1>4

\* The batch of o ends.
BatchEnds(o) ==
    /\ run' = [run EXCEPT ![o] = NoBatch]
    /\ UNCHANGED <<skipped, now, unborn, disposable, disturbed, successes>>

LEMMA EndingBatchesKeepRuns ==
    ASSUME IInv, NEW o \in {"timer", "startup"}, BatchIsOver(o), BatchEnds(o)
    PROVE  /\ run' \in [Origins -> [Jobs -> RunType]]
           /\ \A p \in Origins \ {o} : run'[p] = run[p]
           /\ \A j \in Jobs : run'[o][j].stage = "none"
           /\ \A j \in Jobs : run[o][j].stage \in {"none", "done"}
           /\ RunsAreSound'
<1>1. /\ o \in Origins /\ run \in [Origins -> [Jobs -> RunType]]
      /\ \A j \in Jobs : SoundRuns(j, run, disturbed, successes)
    BY DEF Origins, IInv, TypeInv, ProcessIsTyped, RunsAreSound
<1>2. /\ run' \in [Origins -> [Jobs -> RunType]]
      /\ \A p \in Origins \ {o} : run'[p] = run[p]
      /\ \A j \in Jobs : run'[o][j].stage = "none"
    BY <1>1, BlankRunsAreIdle DEF BatchEnds
<1>3. \A j \in Jobs : run[o][j].stage \in {"none", "done"}
    BY DEF BatchIsOver
<1>4. ASSUME NEW j \in Jobs
      PROVE  SoundRuns(j, run', disturbed, successes)
  <2>1. \A p \in Origins : /\ IsBusy(run', p, j) => IsBusy(run, p, j)
                           /\ IsOpen(run', p, j) => IsOpen(run, p, j)
      BY <1>2 DEF IsBusy, IsOpen, Executes
  <2>. QED
      BY <1>1, <2>1 DEF SoundRuns
<1>. QED
    BY <1>2, <1>3, <1>4 DEF RunsAreSound, BatchEnds

\* What is left of a sound copy when the results of the batch are applied.
LEMMA OutcomesAreSound ==
    ASSUME IInv, NEW o \in {"timer", "startup"}, BatchIsOver(o), BatchEnds(o),
           NEW s, NEW j \in Jobs, SoundNow(j, s[j])
    PROVE  LET after == WithOutcomes(s, o)[j]
           IN  /\ SoundJob(j, after, run', disturbed, successes, Promised)
               /\ IsOutcome(j, s[j], run', after)
<1>. DEFINE after == WithOutcomes(s, o)[j]
<1>1. /\ run' \in [Origins -> [Jobs -> RunType]]
      /\ \A p \in Origins \ {o} : run'[p] = run[p]
      /\ run'[o][j].stage = "none"
      /\ run[o][j].stage \in {"none", "done"}
    BY EndingBatchesKeepRuns
<1>2. /\ o \in Origins /\ run[o][j] \in RunType
      /\ successes[j] \in Int
      /\ SoundRuns(j, run, disturbed, successes)
    BY DEF Origins, IInv, TypeInv, ProcessIsTyped, OthersAreTyped,
           RunsAreSound
<1>3. s[j] \in JobType /\ (~Exists(s[j]) => s[j] = NoJob)
    BY DEF SoundNow, SoundJob
<1>4. CASE j \in Done(o) /\ Exists(s[j])
  <2>1. after = AfterResult(j, s[j], run[o][j])
      BY <1>4 DEF WithOutcomes
  <2>2. IsResult(j, s[j], run[o][j], after)
      BY <1>2, <1>3, <2>1, ResultsAreJobs
  <2>3. run[o][j].stage = "done"
      BY <1>4 DEF Done
  <2>4. RunIsOver(o, j, run')
      BY <1>1 DEF RunIsOver
  <2>. HIDE DEF after
  <2>5. /\ SoundJob(j, after, run', disturbed, successes, Promised)
        /\ IsOutcome(j, s[j], run', after)
      BY <1>2, <1>4, <2>2, <2>3, <2>4, ResultsAreSound
  <2>. QED
      BY <2>5 DEF after
<1>5. CASE ~(j \in Done(o) /\ Exists(s[j]))
  <2>1. after = s[j]
      BY <1>5 DEF WithOutcomes
  <2>2. SoundJob(j, s[j], run', disturbed, successes, Promised)
    <3>1. CASE ~Exists(s[j])
        BY <1>3, <3>1 DEF SoundJob, NoJob, Exists, MayRun, IsPromised
    <3>2. CASE j \notin Done(o)
      <4>1. run[o][j].stage = "none"
          BY <1>1, <3>2 DEF Done
      <4>2. \A p \in Origins : IsBusy(run', p, j) <=> IsBusy(run, p, j)
          BY <1>1, <4>1 DEF IsBusy
      <4>. QED
          BY <4>2 DEF SoundNow, SoundJob
    <3>. QED
        BY <1>5, <3>1, <3>2
  <2>. HIDE DEF after
  <2>3. IsOutcome(j, s[j], run', after)
      BY <1>3, <2>1 DEF IsOutcome
  <2>. QED
      BY <2>1, <2>2, <2>3 DEF after
<1>. QED
    BY <1>4, <1>5

\* Maintenance of what was left of a job.
LEMMA MaintainedOutcomesAreSound ==
    ASSUME TypeInv, NEW t, NEW e \in BOOLEAN, NEW j \in Jobs, NEW job, NEW r,
           IsOutcome(j, job, r, t[j]),
           SoundJob(j, t[j], r, disturbed, successes, Promised)
    PROVE  /\ SoundJob(j, Maintain(t, e)[j], r, disturbed, successes, Promised)
           /\ IsOutcome(j, job, r, Maintain(t, e)[j])
<1>. DEFINE m == Maintain(t, e)[j]
<1>1. /\ SoundJob(j, m, r, disturbed, successes, Promised)
      /\ ConfigOf(m) = ConfigOf(t[j])
      /\ m.enabled = t[j].enabled
      /\ m.lastRun = t[j].lastRun
      /\ m.lastStatus = t[j].lastStatus
      /\ ~Exists(t[j]) => m = NoJob
      /\ Exists(t[j]) => IsRepair(j, t[j], m)
    BY MaintainedCopiesAreSound
<1>2. t[j] \in JobType /\ (~Exists(t[j]) => t[j] = NoJob)
    BY DEF SoundJob
<1>. HIDE DEF m
<1>3. m.schedule = t[j].schedule /\ (Exists(m) <=> Exists(t[j]))
    BY <1>1 DEF ConfigOf, Exists
<1>4. ~Exists(job) => m = NoJob
    BY <1>1 DEF IsOutcome, NoJob, Exists
<1>5. ASSUME ConfigOf(t[j]) # ConfigOf(job)
      PROVE  m.runningAt = None
    BY <1>1, <1>2, <1>5 DEF IsOutcome, IsRepair, NoJob
<1>6. ASSUME j \in OneShots \ disturbed,
             MayRun(JobIn(ConfigOf(job), StateOf(m))),
             ConfigOf(m) # ConfigOf(job)
      PROVE  successes[j] =< 0 \/ MayBeCutShort(j, m)
  <2>1. ConfigOf(t[j]) # ConfigOf(job)
      BY <1>1, <1>6
  <2>2. JobIn(ConfigOf(job), StateOf(t[j])) = JobIn(ConfigOf(job), StateOf(m))
        \/ MayRun(JobIn(ConfigOf(job), StateOf(t[j])))
    <3>1. t[j].runningAt = None /\ m.runningAt = None
        BY <1>5, <2>1 DEF IsOutcome
    <3>2. /\ JobIn(ConfigOf(job), StateOf(m)).next = None
          /\ JobIn(ConfigOf(job), StateOf(t[j])).next = None
        BY <1>6, <2>1 DEF JobIn, StateOf
    <3>. QED
        BY <1>1, <1>6, <3>1, <3>2 DEF MayRun, JobIn, StateOf
  <2>3. MayRun(JobIn(ConfigOf(job), StateOf(t[j])))
      BY <1>6, <2>2
  <2>4. successes[j] =< 0 \/ MayBeCutShort(j, t[j])
      BY <1>6, <2>1, <2>3 DEF IsOutcome
  <2>. QED
      BY <1>1, <1>3, <2>4 DEF MayBeCutShort
<1>. QED
    BY <1>1, <1>4, <1>5, <1>6 DEF IsOutcome, m

\* A section that saves, after maintenance, a copy t in which results were
\* applied.
LEMMA OutcomesKeepIInv ==
    ASSUME IInv, Section, NEW t, NEW e \in BOOLEAN, Persist(Maintain(t, e)),
           UNCHANGED <<now, disposable, unborn, disturbed, successes>>,
           Promised' \subseteq Promised,
           ProcessIsTyped', RunsHaveOwners', RunsAreSound', TimerIsArmed',
           IsUp',
           \A j \in unborn, o \in Origins :
              run[o][j].stage = "none" => run'[o][j].stage = "none",
           NEW copy,
           \A j \in Jobs :
              /\ ConfigOf(copy[j]) = config[j]
              /\ IsOutcome(j, copy[j], run', t[j])
              /\ SoundJob(j, t[j], run', disturbed, successes, Promised)
    PROVE  IInv'
<1>. DEFINE s == Maintain(t, e)
<1>1. ASSUME NEW j \in Jobs
      PROVE  /\ SoundJob(j, s[j], run', disturbed, successes, Promised)
             /\ IsOutcome(j, copy[j], run', s[j])
  <2>1. /\ IsOutcome(j, copy[j], run', t[j])
        /\ SoundJob(j, t[j], run', disturbed, successes, Promised)
      OBVIOUS
  <2>2. TypeInv
      BY DEF IInv
  <2>. QED
      BY <2>1, <2>2, MaintainedOutcomesAreSound
<1>2. DOMAIN s = Jobs /\ s = [j \in Jobs |-> s[j]]
    BY MaintainIsOfJobs
<1>. HIDE DEF s
<1>3. Persist(s)
    BY DEF s
<1>4. ASSUME NEW j \in Jobs
      PROVE  SoundThen(j, s[j])
  <2>1. SoundJob(j, s[j], run', disturbed, successes, Promised)
      BY <1>1
  <2>2. SoundJob(j, s[j], run', disturbed, successes, Promised')
      BY <2>1, FewerPromisesAreSound
  <2>. QED
      BY <2>2 DEF SoundThen
<1>5. OthersAreTyped'
    BY DEF IInv, TypeInv, OthersAreTyped
<1>6. ASSUME NEW j \in unborn'
      PROVE  /\ s[j] = NoJob
             /\ \A o \in Origins : run'[o][j].stage = "none"
             /\ successes'[j] =< 0
  <2>1. /\ j \in Jobs /\ j \in unborn /\ config[j] = NoConfig
        /\ successes[j] =< 0
        /\ \A o \in Origins : run[o][j].stage = "none"
      BY <1>6 DEF IInv, TypeInv, OthersAreTyped, GoneIsGone
  <2>2. ConfigOf(copy[j]) = NoConfig
      BY <2>1
  <2>3. ~Exists(copy[j])
      BY <2>2 DEF ConfigOf, NoConfig, Exists
  <2>4. s[j] = NoJob
      BY <1>1, <2>1, <2>3 DEF IsOutcome
  <2>. QED
      BY <2>1, <2>4
<1>7. ASSUME NEW j \in OneShots \ disturbed',
             MayRun(JobIn(config[j], StateOf(s[j]))),
             config[j] # ConfigOf(s[j])
      PROVE  \/ IsCutShort(j)'
             \/ /\ successes'[j] =< 0
                /\ (\E o \in Origins : Executes(run', o, j))
                   => successes'[j] =< -1
  <2>1. j \in Jobs /\ ConfigOf(copy[j]) = config[j]
        /\ IsOutcome(j, copy[j], run', s[j])
      BY <1>1 DEF Jobs
  <2>2. \A o \in Origins : ~Executes(run', o, j)
      BY <1>7, <2>1 DEF IsOutcome, Executes, IsBusy
  <2>3. successes[j] =< 0 \/ MayBeCutShort(j, s[j])
      BY <1>7, <2>1 DEF IsOutcome
  <2>4. config[j].enabled
      BY <1>7 DEF MayRun, JobIn
  <2>5. MayBeCutShort(j, s[j]) => IsCutShort(j)'
      BY <1>3, <2>1, <2>4, CutsShort
  <2>. QED
      BY <2>2, <2>3, <2>5
<1>. QED
    BY <1>2, <1>3, <1>4, <1>5, <1>6, <1>7, SavesKeepIInv

\* Fewer runs of a job are sound when more were.
LEMMA FewerRunsAreSound ==
    ASSUME NEW j \in Jobs, NEW r, NEW q, NEW d, NEW n, SoundRuns(j, r, d, n),
           \A o \in Origins : /\ IsBusy(q, o, j) => IsBusy(r, o, j)
                              /\ IsOpen(q, o, j) => IsOpen(r, o, j)
    PROVE  SoundRuns(j, q, d, n)
BY DEF SoundRuns

LEMMA TickAppliesKeepsIInv ==
    ASSUME IInv, TickApplies
    PROVE  IInv'
<1>. DEFINE t == WithOutcomes(Loaded, "timer")
<1>1. /\ Section /\ BatchIsOver("timer")
      /\ Persist(Maintain(t, FALSE)) /\ ArmTimer(Maintain(t, FALSE))
      /\ run' = [run EXCEPT !["timer"] = NoBatch] /\ tick' = "idle"
      /\ UNCHANGED <<startup, skipped, deferred, now, disposable, unborn,
                     disturbed, successes>>
    BY DEF TickApplies, bounds, history
<1>2. BatchEnds("timer")
    BY <1>1 DEF BatchEnds
<1>3. ASSUME NEW j \in Jobs
      PROVE  /\ ConfigOf(Loaded[j]) = config[j]
             /\ IsOutcome(j, Loaded[j], run', t[j])
             /\ SoundJob(j, t[j], run', disturbed, successes, Promised)
  <2>1. SoundNow(j, Loaded[j]) /\ ConfigOf(Loaded[j]) = config[j]
      BY <1>1, SectionsBeginSoundly
  <2>. QED
      BY <1>1, <1>2, <2>1, OutcomesAreSound
<1>. HIDE DEF t
<1>4. /\ run' \in [Origins -> [Jobs -> RunType]]
      /\ \A p \in Origins \ {"timer"} : run'[p] = run[p]
      /\ \A j \in Jobs : run'["timer"][j].stage = "none"
      /\ RunsAreSound'
    BY <1>1, <1>2, EndingBatchesKeepRuns
<1>5. Promised' = Promised
  <2>1. run'["manual"] = run["manual"]
      BY <1>4 DEF Origins
  <2>. QED
      BY <1>1, <2>1 DEF Promised
<1>6. TimerIsArmed' /\ timer' \in BOOLEAN
    BY <1>1 DEF TimerIsArmed, Persist, ArmTimer
<1>7. ProcessIsTyped' /\ IsUp'
    BY <1>1, <1>4, <1>6
       DEF IInv, TypeInv, ProcessIsTyped, IsUp, Section
<1>8. RunsHaveOwners'
    BY <1>1, <1>4, <1>7 DEF IInv, RunsHaveOwners, Origins
<1>9. \A j \in unborn, o \in Origins :
          run[o][j].stage = "none" => run'[o][j].stage = "none"
  <2>1. unborn \subseteq Jobs
      BY DEF IInv, TypeInv, OthersAreTyped
  <2>. QED
      BY <1>4, <2>1
<1>. QED
    BY <1>1, <1>3, <1>4, <1>5, <1>6, <1>7, <1>8, <1>9, OutcomesKeepIInv

\* A start that puts off a job keeps a promise: a one-shot it puts off has
\* not gone well, or was faster than the start.
LEMMA DeferringIsSound ==
    ASSUME IInv, startup = "executing", NEW j \in deferred, NEW job, NEW r,
           NEW old, job.enabled, NEW time \in Int,
           SoundJob(j, job, r, disturbed, successes, Promised),
           IsOutcome(j, old, r, job)
    PROVE  LET after == [job EXCEPT !.next = time]
           IN  /\ SoundJob(j, after, r, disturbed, successes, Promised)
               /\ IsOutcome(j, old, r, after)
<1>. DEFINE after == [job EXCEPT !.next = time]
<1>1. job \in JobType /\ j \in Promised
    BY DEF SoundJob, Promised, IInv, TypeInv, ProcessIsTyped
<1>2. Exists(job) /\ job # NoJob
    BY DEF SoundJob, NoJob
<1>3. /\ after \in JobType
      /\ after.enabled = job.enabled
      /\ after.schedule = job.schedule
      /\ after.runningAt = job.runningAt
    BY <1>1 DEF JobType
<1>. HIDE DEF after
<1>4. ConfigOf(after) = ConfigOf(job)
    BY <1>3 DEF ConfigOf
<1>5. SoundJob(j, after, r, disturbed, successes, Promised)
    BY <1>1, <1>2, <1>3 DEF SoundJob, Exists, MayRun, IsPromised
<1>6. IsOutcome(j, old, r, after)
    BY <1>2, <1>4 DEF IsOutcome
<1>. QED
    BY <1>5, <1>6 DEF after

LEMMA ApplyStartupCatchupKeepsIInv ==
    ASSUME IInv, ApplyStartupCatchup
    PROVE  IInv'
<1>. DEFINE applied == WithOutcomes(store, "startup")
            t == [j \in Jobs |-> IF j \in deferred /\ applied[j].enabled
                                 THEN [applied[j] EXCEPT !.next = now + Delay]
                                 ELSE applied[j]]
<1>1. /\ Section /\ BatchIsOver("startup")
      /\ Persist(Maintain(t, FALSE))
      /\ startup = "executing" /\ startup' = "ending"
      /\ run' = [run EXCEPT !["startup"] = NoBatch]
      /\ UNCHANGED <<timer, tick, skipped, deferred, now, disposable, unborn,
                     disturbed, successes>>
    BY DEF ApplyStartupCatchup, bounds, history
<1>2. BatchEnds("startup")
    BY <1>1 DEF BatchEnds
<1>3. ASSUME NEW j \in Jobs
      PROVE  /\ ConfigOf(store[j]) = config[j]
             /\ IsOutcome(j, store[j], run', applied[j])
             /\ SoundJob(j, applied[j], run', disturbed, successes, Promised)
  <2>1. SoundNow(j, store[j]) /\ ConfigOf(store[j]) = config[j]
      BY <1>1, SectionsBeginSoundly
  <2>. QED
      BY <1>1, <1>2, <2>1, OutcomesAreSound
<1>. HIDE DEF applied
<1>4. now + Delay \in Int
    BY NumbersAssumption DEF IInv, TypeInv, OthersAreTyped
<1>5. ASSUME NEW j \in Jobs
      PROVE  /\ IsOutcome(j, store[j], run', t[j])
             /\ SoundJob(j, t[j], run', disturbed, successes, Promised)
  <2>1. CASE j \in deferred /\ applied[j].enabled
    <3>1. t[j] = [applied[j] EXCEPT !.next = now + Delay]
        BY <2>1
    <3>2. /\ IsOutcome(j, store[j], run', applied[j])
          /\ SoundJob(j, applied[j], run', disturbed, successes, Promised)
        BY <1>3
    <3>. HIDE DEF t
    <3>. QED
        BY <1>1, <1>4, <2>1, <3>1, <3>2, DeferringIsSound
  <2>2. CASE ~(j \in deferred /\ applied[j].enabled)
    <3>1. t[j] = applied[j]
        BY <2>2
    <3>. QED
        BY <1>3, <3>1
  <2>. QED
      BY <2>1, <2>2
<1>. HIDE DEF t
<1>6. /\ run' \in [Origins -> [Jobs -> RunType]]
      /\ \A p \in Origins \ {"startup"} : run'[p] = run[p]
      /\ \A j \in Jobs : run'["startup"][j].stage = "none"
      /\ RunsAreSound'
    BY <1>1, <1>2, EndingBatchesKeepRuns
<1>7. Promised' \subseteq Promised
  <2>1. run'["manual"] = run["manual"]
      BY <1>6 DEF Origins
  <2>. QED
      BY <1>1, <2>1 DEF Promised
<1>8. ProcessIsTyped' /\ IsUp' /\ TimerIsArmed'
    BY <1>1, <1>6
       DEF IInv, TypeInv, ProcessIsTyped, IsUp, TimerIsArmed
<1>9. RunsHaveOwners'
    BY <1>1, <1>6, <1>8 DEF IInv, RunsHaveOwners, Origins
<1>10. \A j \in unborn, o \in Origins :
           run[o][j].stage = "none" => run'[o][j].stage = "none"
  <2>1. unborn \subseteq Jobs
      BY DEF IInv, TypeInv, OthersAreTyped
  <2>. QED
      BY <1>6, <2>1
<1>11. \A j \in Jobs :
          /\ ConfigOf(store[j]) = config[j]
          /\ IsOutcome(j, store[j], run', t[j])
          /\ SoundJob(j, t[j], run', disturbed, successes, Promised)
    BY <1>3, <1>5
<1>. QED
    BY <1>1, <1>6, <1>7, <1>8, <1>9, <1>10, <1>11, OutcomesKeepIInv

LEMMA ManualRunIsFinishedKeepsIInv ==
    ASSUME IInv, NEW j \in Jobs, ManualRunIsFinished(j), Exists(store[j])
    PROVE  IInv'
<1>. DEFINE r == run["manual"][j]
            result == AfterResult(j, store[j], r)
            t == [Loaded EXCEPT ![j] =
                     IF Exists(result) /\ Exists(@)
                     THEN [result EXCEPT !.schedule = Loaded[j].schedule]
                     ELSE NoJob]
<1>1. /\ Section /\ r.stage = "done"
      /\ run' = [run EXCEPT !["manual"][j] = NoRun]
      /\ Persist(Maintain(t, TRUE)) /\ ArmTimer(Maintain(t, TRUE))
      /\ UNCHANGED <<tick, startup, skipped, deferred, now, disposable,
                     unborn, disturbed, successes>>
    BY DEF ManualRunIsFinished, bounds, history
<1>2. /\ run \in [Origins -> [Jobs -> RunType]]
      /\ successes[j] \in Int
      /\ "manual" \in Origins
    BY DEF IInv, TypeInv, ProcessIsTyped, OthersAreTyped, Origins
<1>3. \A k \in Jobs :
          /\ SoundNow(k, store[k])
          /\ SoundNow(k, Loaded[k])
          /\ SoundRuns(k, run, disturbed, successes)
          /\ store[k] \in JobType /\ Loaded[k] \in JobType
          /\ config[k] = ConfigOf(store[k])
          /\ config[k] = ConfigOf(Loaded[k])
          /\ store[k].schedule = Loaded[k].schedule
          /\ Exists(Loaded[k]) <=> Exists(store[k])
    BY <1>1, SectionsBeginSoundly
<1>4. /\ run' \in [Origins -> [Jobs -> RunType]]
      /\ \A o \in Origins, k \in Jobs :
            o # "manual" \/ k # j => run'[o][k] = run[o][k]
      /\ run'["manual"][j].stage = "none"
    BY <1>1, <1>2, BlankRunsAreIdle
<1>5. IsResult(j, store[j], r, result)
    BY <1>2, <1>3, ResultsAreJobs
<1>6. t[j] = (IF Exists(result) /\ Exists(Loaded[j])
              THEN [result EXCEPT !.schedule = Loaded[j].schedule] ELSE NoJob)
      /\ \A k \in Jobs : k # j => t[k] = Loaded[k]
  <2>1. DOMAIN Loaded = Jobs
      BY DEF Loaded
  <2>. QED
      BY <2>1
<1>. HIDE DEF result, t
<1>7. RunIsOver("manual", j, run')
    BY <1>4 DEF RunIsOver
<1>8. /\ SoundJob(j, result, run', disturbed, successes, Promised)
      /\ IsOutcome(j, store[j], run', result)
    BY <1>1, <1>2, <1>3, <1>5, <1>7, ResultsAreSound
<1>9. t[j] = result
  <2>1. CASE Exists(result)
    <3>1. result \in JobType /\ result.schedule = Loaded[j].schedule
        BY <1>3, <1>5, <1>8, <2>1 DEF IsResult, SoundJob, NoJob, Exists
    <3>. QED
        BY <1>3, <1>6, <2>1, <3>1 DEF JobType
  <2>2. CASE ~Exists(result)
      BY <1>6, <1>8, <2>2 DEF SoundJob
  <2>. QED
      BY <2>1, <2>2
<1>10. \A k \in Jobs \ {j}, o \in Origins :
           /\ IsBusy(run', o, k) <=> IsBusy(run, o, k)
           /\ IsOpen(run', o, k) <=> IsOpen(run, o, k)
    BY <1>4 DEF IsBusy, IsOpen, Executes
<1>11. ASSUME NEW k \in Jobs
       PROVE  /\ ConfigOf(store[k]) = config[k]
              /\ IsOutcome(k, store[k], run', t[k])
              /\ SoundJob(k, t[k], run', disturbed, successes, Promised)
  <2>1. CASE k = j
      BY <1>3, <1>8, <1>9, <2>1
  <2>2. CASE k # j
    <3>1. t[k] = Loaded[k] /\ ConfigOf(t[k]) = ConfigOf(store[k])
        BY <1>3, <1>6, <2>2
    <3>2. SoundNow(k, Loaded[k]) /\ (~Exists(store[k]) => t[k] = NoJob)
        BY <1>3, <3>1 DEF SoundNow, SoundJob
    <3>3. SoundJob(k, Loaded[k], run', disturbed, successes, Promised)
        BY <1>10, <2>2, <3>2 DEF SoundNow, SoundJob
    <3>4. IsOutcome(k, store[k], run', t[k])
        BY <3>1, <3>2 DEF IsOutcome
    <3>. QED
        BY <1>3, <3>1, <3>3, <3>4
  <2>. QED
      BY <2>1, <2>2
<1>12. RunsAreSound'
  <2>. SUFFICES ASSUME NEW k \in Jobs
                PROVE  SoundRuns(k, run', disturbed, successes)
      BY <1>1 DEF RunsAreSound
  <2>1. \A o \in Origins : /\ IsBusy(run', o, k) => IsBusy(run, o, k)
                           /\ IsOpen(run', o, k) => IsOpen(run, o, k)
      BY <1>4 DEF IsBusy, IsOpen, Executes
  <2>. QED
      BY <1>3, <2>1, FewerRunsAreSound
<1>13. Promised' \subseteq Promised
  <2>1. \A k \in Jobs : run'["manual"][k].stage = "checked"
                        => run'["manual"][k] = run["manual"][k]
      BY <1>2, <1>4
  <2>. QED
      BY <1>1, <2>1 DEF Promised
<1>14. TimerIsArmed' /\ timer' \in BOOLEAN
    BY <1>1 DEF TimerIsArmed, Persist, ArmTimer
<1>15. ProcessIsTyped' /\ IsUp'
    BY <1>1, <1>4, <1>14
       DEF IInv, TypeInv, ProcessIsTyped, IsUp, Section
<1>16. RunsHaveOwners'
    BY <1>1, <1>4, <1>15 DEF IInv, RunsHaveOwners, Origins
<1>17. \A k \in unborn, o \in Origins :
           run[o][k].stage = "none" => run'[o][k].stage = "none"
  <2>1. unborn \subseteq Jobs
      BY DEF IInv, TypeInv, OthersAreTyped
  <2>. QED
      BY <1>4, <2>1
<1>18. \A k \in Jobs :
          /\ ConfigOf(store[k]) = config[k]
          /\ IsOutcome(k, store[k], run', t[k])
          /\ SoundJob(k, t[k], run', disturbed, successes, Promised)
    BY <1>11
<1>19. /\ Section /\ Persist(Maintain(t, TRUE)) /\ TRUE \in BOOLEAN
       /\ UNCHANGED <<now, disposable, unborn, disturbed, successes>>
    BY <1>1
<1>. QED
    BY <1>12, <1>13, <1>14, <1>15, <1>16, <1>17, <1>18, <1>19,
       OutcomesKeepIInv

\* A call of run is forgotten that is not to apply a result.
LEMMA ForgettingRunsKeepsIInv ==
    ASSUME IInv, Section, NEW j \in Jobs,
           run["manual"][j].stage = "checked" \/ ~Exists(store[j]),
           run' = [run EXCEPT !["manual"][j] = NoRun],
           UNCHANGED <<store, config, states, saving, timer, tick, startup,
                       skipped, deferred, now, disposable, unborn, disturbed,
                       successes>>
    PROVE  IInv'
<1>1. /\ run \in [Origins -> [Jobs -> RunType]]
      /\ "manual" \in Origins
    BY DEF IInv, TypeInv, ProcessIsTyped, Origins
<1>2. /\ run' \in [Origins -> [Jobs -> RunType]]
      /\ \A o \in Origins, k \in Jobs :
            o # "manual" \/ k # j => run'[o][k] = run[o][k]
      /\ run'["manual"][j].stage = "none"
    BY <1>1, BlankRunsAreIdle
<1>3. \A k \in Jobs : /\ SoundNow(k, store[k])
                      /\ SoundNow(k, Loaded[k])
                      /\ SoundRuns(k, run, disturbed, successes)
                      /\ config[k] = ConfigOf(store[k])
                      /\ Exists(Loaded[k]) <=> Exists(store[k])
                      /\ FilesAreSound(k)
      /\ IsUp /\ ~saving
    BY SectionsBeginSoundly DEF IInv, CopiesAreSound
<1>4. Promised' \subseteq Promised
  <2>1. \A k \in Jobs : run'["manual"][k].stage = "checked"
                        => run'["manual"][k] = run["manual"][k]
      BY <1>1, <1>2
  <2>. QED
      BY <2>1 DEF Promised
<1>5. ASSUME NEW k \in Jobs, NEW o \in Origins
      PROVE  /\ IsBusy(run', o, k) => IsBusy(run, o, k)
             /\ IsOpen(run', o, k) => IsOpen(run, o, k)
             /\ Executes(run', o, k) => Executes(run, o, k)
             /\ k # j => (IsBusy(run', o, k) <=> IsBusy(run, o, k))
             /\ Exists(store[k]) => (IsBusy(run', o, k) <=> IsBusy(run, o, k))
    BY <1>1, <1>2 DEF IsBusy, IsOpen, Executes
<1>6. ASSUME NEW k \in Jobs, NEW job, SoundNow(k, job),
             Exists(job) <=> Exists(store[k])
      PROVE  SoundThen(k, job)
  <2>1. SoundJob(k, job, run', disturbed, successes, Promised)
    <3>1. CASE Exists(job)
        BY <1>5, <1>6, <3>1 DEF SoundNow, SoundJob
    <3>2. CASE ~Exists(job)
        BY <1>6, <3>2 DEF SoundNow, SoundJob, NoJob, MayRun, IsPromised
    <3>. QED
        BY <3>1, <3>2
  <2>2. SoundJob(k, job, run', disturbed, successes, Promised')
      BY <1>4, <2>1, FewerPromisesAreSound
  <2>. QED
      BY <2>2 DEF SoundThen
<1>7. Loaded' = Loaded /\ \A k \in Jobs : IsCutShort(k)' <=> IsCutShort(k)
    BY DEF Loaded, IsCutShort
<1>8. CopiesAreSound'
  <2>. SUFFICES ASSUME NEW k \in Jobs
                PROVE  /\ FilesAreSound(k)'
                       /\ SoundThen(k, store[k])
                       /\ SoundThen(k, Loaded[k])
                       /\ config[k] = ConfigOf(store[k])
      BY <1>3, <1>7 DEF CopiesAreSound, SoundNow, SoundThen
  <2>1. FilesAreSound(k)'
      BY <1>3, <1>5, <1>7 DEF FilesAreSound
  <2>. QED
      BY <1>3, <1>6, <2>1
<1>9. RunsAreSound'
  <2>. SUFFICES ASSUME NEW k \in Jobs
                PROVE  SoundRuns(k, run', disturbed, successes)
      BY DEF RunsAreSound
  <2>. QED
      BY <1>3, <1>5, FewerRunsAreSound
<1>10. TypeInv'
    BY <1>2 DEF IInv, TypeInv, FilesAreTyped, ProcessIsTyped, OthersAreTyped
<1>11. GoneIsGone'
  <2>1. \A k \in Jobs, o \in Origins :
            run[o][k].stage = "none" => run'[o][k].stage = "none"
      BY <1>2
  <2>. QED
      BY <2>1 DEF IInv, GoneIsGone
<1>12. RunsHaveOwners' /\ DownIsIdle' /\ TimerIsArmed'
    BY <1>2, <1>3
       DEF IInv, RunsHaveOwners, DownIsIdle, TimerIsArmed, IsUp, Origins
<1>. QED
    BY <1>8, <1>9, <1>10, <1>11, <1>12 DEF IInv

-----------------------------------------------------------------------------
(***************************************************************************)
(* Operations.                                                             *)
(***************************************************************************)

\* What an edit makes of the copy of a job beside its runs: the marker stays
\* or goes, and goes only where the job counts as disturbed.
IsEdit(j, job, after) ==
    /\ after \in JobType
    /\ ~Exists(after) => after = NoJob
    /\ after.runningAt # None => after.runningAt = job.runningAt
    /\ j \notin disturbed' /\ Exists(after) /\ Busy(j)
       => after.enabled /\ after.runningAt = job.runningAt

LEMMA EditsKeepIInv ==
    ASSUME IInv, Section, NEW j \in Jobs, Exists(store[j]),
           NEW after, IsEdit(j, store[j], after),
           Persist([store EXCEPT ![j] = after]),
           ArmTimer([store EXCEPT ![j] = after]),
           disturbed' \in {disturbed, disturbed \cup {j}},
           successes' = [successes EXCEPT ![j] = -Cardinality(UnderWay(j))],
           UNCHANGED <<tick, startup, skipped, deferred, run, now, disposable,
                       unborn>>
    PROVE  IInv'
<1>. DEFINE s == [store EXCEPT ![j] = after]
<1>1. /\ store \in [Jobs -> JobType] /\ successes \in [Jobs -> Int]
      /\ run \in [Origins -> [Jobs -> RunType]]
      /\ unborn \subseteq Jobs
    BY DEF IInv, TypeInv, FilesAreTyped, ProcessIsTyped, OthersAreTyped
<1>2. \A k \in Jobs : /\ SoundNow(k, store[k])
                      /\ SoundRuns(k, run, disturbed, successes)
                      /\ config[k] = ConfigOf(store[k])
      /\ IsUp
    BY SectionsBeginSoundly
<1>3. /\ s[j] = after /\ \A k \in Jobs : k # j => s[k] = store[k]
      /\ DOMAIN s = Jobs /\ s = [k \in Jobs |-> s[k]]
    BY <1>1
<1>4. Persist(s) /\ ArmTimer(s)
    OBVIOUS
<1>. HIDE DEF s
<1>5. /\ -Cardinality(UnderWay(j)) \in Int
      /\ -Cardinality(UnderWay(j)) =< 0
      /\ (\E o \in Origins : Executes(run, o, j))
         => -Cardinality(UnderWay(j)) =< -1
  <2>1. UnderWay(j) \subseteq Origins
      BY DEF UnderWay, Executing
  <2>2. IsFiniteSet(Origins)
    <3>1. IsFiniteSet({"manual"}) /\ IsFiniteSet({"startup"} \cup {"manual"})
        BY FS_Singleton, FS_AddElement
    <3>2. Origins = ({"startup"} \cup {"manual"}) \cup {"timer"}
        BY DEF Origins
    <3>. QED
        BY <3>1, <3>2, FS_AddElement
  <2>3. IsFiniteSet(UnderWay(j)) /\ Cardinality(UnderWay(j)) \in Nat
      BY <2>1, <2>2, FS_Subset, FS_CardinalityType
  <2>4. ASSUME NEW o \in Origins, Executes(run, o, j)
        PROVE  Cardinality(UnderWay(j)) >= 1
    <3>1. o \in UnderWay(j)
        BY <2>4 DEF UnderWay, Executing, Executes
    <3>2. Cardinality(UnderWay(j)) # 0
        BY <2>3, <3>1, FS_EmptySet
    <3>. QED
        BY <2>3, <3>2
  <2>. QED
      BY <2>3, <2>4
<1>6. /\ successes' \in [Jobs -> Int]
      /\ successes'[j] =< 0
      /\ (\E o \in Origins : Executes(run, o, j)) => successes'[j] =< -1
      /\ \A k \in Jobs : k # j => successes'[k] = successes[k]
    BY <1>1, <1>5
<1>7. Promised' = Promised
    BY DEF Promised
<1>8. \A k \in Jobs : k # j => (k \in disturbed' <=> k \in disturbed)
      /\ (j \in disturbed => j \in disturbed')
    OBVIOUS
<1>9. ASSUME NEW k \in Jobs
      PROVE  SoundThen(k, s[k])
  <2>1. CASE k # j
    <3>1. SoundNow(k, store[k])
        BY <1>2
    <3>. QED
        BY <1>3, <1>6, <1>7, <1>8, <2>1, <3>1 DEF SoundNow, SoundThen, SoundJob
  <2>2. CASE k = j
    <3>1. SoundNow(j, store[j])
        BY <1>2
    <3>2. Busy(j) <=> \E o \in Origins : IsBusy(run, o, j)
        BY DEF Busy, IsBusy
    <3>3. after.runningAt # None => \E o \in Origins : IsBusy(run, o, j)
        BY <3>1 DEF IsEdit, SoundNow, SoundJob
    <3>4. j \notin disturbed' /\ Exists(after)
          /\ (\E o \in Origins : IsBusy(run, o, j))
          => after.enabled /\ after.runningAt # None
        BY <1>8, <3>1, <3>2 DEF IsEdit, SoundNow, SoundJob
    <3>. QED
        BY <1>3, <1>6, <2>2, <3>3, <3>4 DEF IsEdit, SoundThen, SoundJob
  <2>. QED
      BY <2>1, <2>2
<1>10. RunsAreSound'
  <2>. SUFFICES ASSUME NEW k \in Jobs
                PROVE  SoundRuns(k, run, disturbed', successes')
      BY DEF RunsAreSound
  <2>1. SoundRuns(k, run, disturbed, successes)
      BY <1>2
  <2>2. CASE k # j
      BY <1>6, <1>8, <2>1, <2>2 DEF SoundRuns
  <2>3. CASE k = j
      BY <1>1, <1>6, <1>8, <2>1, <2>3 DEF SoundRuns
  <2>. QED
      BY <2>2, <2>3
<1>11. OthersAreTyped'
    BY <1>1, <1>6 DEF IInv, TypeInv, OthersAreTyped
<1>12. TimerIsArmed' /\ timer' \in BOOLEAN
    BY <1>4 DEF TimerIsArmed, Persist, ArmTimer
<1>13. ProcessIsTyped' /\ IsUp' /\ RunsHaveOwners'
    BY <1>2, <1>12
       DEF IInv, TypeInv, ProcessIsTyped, IsUp, RunsHaveOwners
<1>14. ASSUME NEW k \in unborn'
       PROVE  /\ s[k] = NoJob
              /\ \A o \in Origins : run'[o][k].stage = "none"
              /\ successes'[k] =< 0
  <2>1. /\ k \in Jobs /\ store[k] = NoJob /\ successes[k] =< 0
        /\ \A o \in Origins : run[o][k].stage = "none"
      BY <1>1, <1>14 DEF IInv, GoneIsGone
  <2>2. k # j
      BY <2>1 DEF Exists, NoJob
  <2>. QED
      BY <1>3, <1>6, <2>1, <2>2
<1>15. ASSUME NEW k \in OneShots \ disturbed', config[k] # ConfigOf(s[k])
       PROVE  /\ successes'[k] =< 0
              /\ (\E o \in Origins : Executes(run', o, k))
                 => successes'[k] =< -1
  <2>1. k = j
      BY <1>2, <1>3, <1>15 DEF Jobs
  <2>. QED
      BY <1>6, <2>1
<1>. QED
    BY <1>3, <1>4, <1>9, <1>10, <1>11, <1>12, <1>13, <1>14, <1>15,
       SavesKeepIInv

LEMMA UpdateKeepsIInv ==
    ASSUME IInv, NEW j \in Jobs, NEW job \in JobType, Exists(job),
           job.runningAt = store[j].runningAt, Update(j, job)
    PROVE  IInv'
<1>. DEFINE updated == IF job.enabled
                       THEN [job EXCEPT !.next = ComputeNext(j, job, now)]
                       ELSE [job EXCEPT !.next = None, !.runningAt = None]
<1>1. /\ Section /\ Exists(store[j])
      /\ Persist([store EXCEPT ![j] = updated])
      /\ ArmTimer([store EXCEPT ![j] = updated])
      /\ disturbed' = IF Busy(j) /\ ~job.enabled
                      THEN disturbed \cup {j} ELSE disturbed
      /\ successes' = [successes EXCEPT ![j] = -Cardinality(UnderWay(j))]
      /\ UNCHANGED <<tick, startup, skipped, deferred, run, now, disposable,
                     unborn>>
    BY DEF Update
<1>2. job.enabled \in BOOLEAN
    BY DEF JobType
<1>3. CASE job.enabled
  <2>1. ComputeNext(j, job, now) \in Int
      BY NextRunsAreTimes DEF IInv, TypeInv, OthersAreTyped
  <2>2. updated = [job EXCEPT !.next = ComputeNext(j, job, now)]
      BY <1>3
  <2>. HIDE DEF updated
  <2>3. /\ updated \in JobType /\ updated.schedule = job.schedule
        /\ updated.runningAt = job.runningAt /\ updated.enabled
      BY <1>3, <2>1, <2>2 DEF JobType
  <2>4. IsEdit(j, store[j], updated)
      BY <2>3 DEF IsEdit, Exists
  <2>5. disturbed' \in {disturbed, disturbed \cup {j}}
      BY <1>1
  <2>. QED
      BY <1>1, <2>4, <2>5, EditsKeepIInv
<1>4. CASE ~job.enabled
  <2>. DEFINE first == [job EXCEPT !.next = None]
  <2>1. updated = [first EXCEPT !.runningAt = None]
      BY <1>4
  <2>2. first \in JobType /\ first.schedule = job.schedule
      BY DEF JobType, None
  <2>. HIDE DEF first, updated
  <2>3. /\ updated \in JobType /\ updated.schedule = job.schedule
        /\ updated.runningAt = None
      BY <2>1, <2>2 DEF JobType, None
  <2>4. IsEdit(j, store[j], updated)
      BY <1>1, <1>4, <2>3 DEF IsEdit, Exists
  <2>5. disturbed' \in {disturbed, disturbed \cup {j}}
      BY <1>1
  <2>. QED
      BY <1>1, <2>4, <2>5, EditsKeepIInv
<1>. QED
    BY <1>2, <1>3, <1>4

LEMMA EditingKeepsIInv ==
    ASSUME IInv, NEW j \in Jobs, SetEnabled(j) \/ Reschedule(j) \/ Remove(j)
    PROVE  IInv'
<1>1. store[j] \in JobType /\ now \in Nat
    BY DEF IInv, TypeInv, FilesAreTyped, OthersAreTyped
<1>2. CASE SetEnabled(j)
  <2>1. PICK enabled \in BOOLEAN :
            Update(j, [store[j] EXCEPT !.enabled = enabled])
      BY <1>2 DEF SetEnabled
  <2>. DEFINE job == [store[j] EXCEPT !.enabled = enabled]
  <2>2. /\ job \in JobType /\ job.runningAt = store[j].runningAt
        /\ job.schedule = store[j].schedule
      BY <1>1 DEF JobType
  <2>3. Exists(job)
      BY <2>1, <2>2 DEF Update, Exists
  <2>4. Update(j, job)
      BY <2>1
  <2>. HIDE DEF job
  <2>. QED
      BY <2>2, <2>3, <2>4, UpdateKeepsIInv
<1>3. CASE Reschedule(j)
  <2>. DEFINE time == IF j \in OneShots THEN now + 1 ELSE now
              job == [store[j] EXCEPT !.schedule = time]
  <2>1. Update(j, job)
      BY <1>3 DEF Reschedule
  <2>2. time \in Nat
      BY <1>1
  <2>. HIDE DEF time
  <2>3. /\ job \in JobType /\ job.runningAt = store[j].runningAt
        /\ Exists(job)
      BY <1>1, <2>2 DEF JobType, Exists, None
  <2>. HIDE DEF job
  <2>. QED
      BY <2>1, <2>3, UpdateKeepsIInv
<1>4. CASE Remove(j)
  <2>1. IsEdit(j, store[j], NoJob)
      BY BlankRunsAreIdle DEF IsEdit, NoJob, Exists
  <2>. QED
      BY <1>4, <2>1, EditsKeepIInv DEF Remove
<1>. QED
    BY <1>2, <1>3, <1>4

\* Recomputing is a repair.
LEMMA RecomputingRepairs ==
    ASSUME TypeInv, NEW j \in Jobs, NEW job \in JobType
    PROVE  IsRepair(j, job, RecomputeNext(j, job, now))
<1>. DEFINE after == RecomputeNext(j, job, now)
<1>1. /\ after \in JobType
      /\ after = [job EXCEPT !.next = after.next]
      /\ j \in OneShots /\ job.next = None /\ MayRun(after) => MayRun(job)
    BY RecomputingIsHarmless
<1>. HIDE DEF after
<1>2. /\ after.enabled = job.enabled /\ after.schedule = job.schedule
      /\ after.lastRun = job.lastRun /\ after.lastStatus = job.lastStatus
      /\ after.runningAt = job.runningAt
    BY <1>1 DEF JobType
<1>3. j \in OneShots /\ MayRun(after) => MayRun(job)
  <2>1. CASE job.next = None
      BY <1>1, <2>1
  <2>2. CASE job.next # None
      BY <1>2, <2>2 DEF MayRun
  <2>. QED
      BY <2>1, <2>2
<1>4. IsRepair(j, job, after)
    BY <1>1, <1>2, <1>3 DEF IsRepair
<1>. QED
    BY <1>4 DEF after

LEMMA RecomputedCopiesAreSound ==
    ASSUME TypeInv, NEW s, NEW r, NEW d, NEW n, NEW q,
           NEW j \in Jobs, SoundJob(j, s[j], r, d, n, q)
    PROVE  /\ SoundJob(j, RecomputeNextRuns(s)[j], r, d, n, q)
           /\ ConfigOf(RecomputeNextRuns(s)[j]) = ConfigOf(s[j])
           /\ ~Exists(s[j]) => RecomputeNextRuns(s)[j] = NoJob
<1>1. s[j] \in JobType /\ (~Exists(s[j]) => s[j] = NoJob)
    BY DEF SoundJob
<1>2. CASE Exists(s[j])
  <2>1. RecomputeNextRuns(s)[j] \in
            {RecomputeNext(j, s[j], now), Normalized(s[j])}
      BY <1>2 DEF RecomputeNextRuns
  <2>2. IsRepair(j, s[j], RecomputeNextRuns(s)[j])
      BY <1>1, <2>1, RecomputingRepairs, NormalizingRepairs
  <2>. QED
      BY <1>2, <2>2, RepairsAreSound
<1>3. CASE ~Exists(s[j])
    BY <1>1, <1>3 DEF RecomputeNextRuns
<1>. QED
    BY <1>2, <1>3

LEMMA AddKeepsIInv ==
    ASSUME IInv, NEW j \in Jobs, Add(j)
    PROVE  IInv'
<1>1. /\ Section /\ j \in unborn /\ unborn' = unborn \ {j}
      /\ UNCHANGED <<tick, startup, skipped, deferred, run, now, disposable,
                     disturbed, successes>>
    BY DEF Add, history
<1>2. /\ TypeInv /\ now \in Nat /\ unborn \subseteq Jobs
      /\ store \in [Jobs -> JobType]
    BY DEF IInv, TypeInv, FilesAreTyped, OthersAreTyped
<1>3. PICK t \in (IF j \in OneShots THEN {now, now + 1} ELSE {now}) :
          LET new == RecomputeNext(j, [NoJob EXCEPT !.enabled = TRUE,
                                                    !.schedule = t], now)
          IN  /\ Persist(RecomputeNextRuns([store EXCEPT ![j] = new]))
              /\ ArmTimer(RecomputeNextRuns([store EXCEPT ![j] = new]))
    BY DEF Add
<1>4. t \in Nat
    BY <1>2
<1>. DEFINE first == [NoJob EXCEPT !.enabled = TRUE]
            blank == [NoJob EXCEPT !.enabled = TRUE, !.schedule = t]
            new == RecomputeNext(j, blank, now)
            old == [store EXCEPT ![j] = new]
            s == RecomputeNextRuns(old)
<1>5. Persist(s) /\ ArmTimer(s)
    BY <1>3
<1>6. DOMAIN s = Jobs /\ s = [k \in Jobs |-> s[k]]
    BY DEF RecomputeNextRuns
<1>7. /\ blank \in JobType /\ blank.schedule = t /\ blank.runningAt = None
  <2>1. first \in JobType /\ first.runningAt = None
      BY BlankRunsAreIdle DEF NoJob, JobType
  <2>2. blank = [first EXCEPT !.schedule = t]
      OBVIOUS
  <2>. HIDE DEF first, blank
  <2>. QED
      BY <1>4, <2>1, <2>2 DEF JobType
<1>. HIDE DEF blank
<1>8. /\ new \in JobType /\ new.schedule = t /\ new.runningAt = None
  <2>1. IsRepair(j, blank, new)
      BY <1>2, <1>7, RecomputingRepairs
  <2>. QED
      BY <1>7, <2>1 DEF IsRepair
<1>. HIDE DEF new
<1>9. /\ old[j] = new
      /\ \A k \in Jobs : k # j => old[k] = store[k]
    BY <1>2
<1>10. \A k \in unborn : /\ config[k] = NoConfig /\ store[k] = NoJob
                        /\ successes[k] =< 0
                        /\ \A o \in Origins : run[o][k].stage = "none"
    BY <1>2 DEF IInv, GoneIsGone
<1>11. \A k \in Jobs : /\ SoundNow(k, store[k])
                       /\ config[k] = ConfigOf(store[k])
       /\ IsUp
    BY <1>1, SectionsBeginSoundly
<1>12. Exists(new)
    BY <1>8, <1>4 DEF Exists, None
<1>. HIDE DEF old, s
<1>13. SoundJob(j, old[j], run, disturbed, successes, Promised)
  <2>1. \A o \in Origins : ~IsBusy(run, o, j)
      BY <1>1, <1>10 DEF IsBusy
  <2>. QED
      BY <1>1, <1>8, <1>9, <1>10, <1>12, <2>1 DEF SoundJob
<1>14. Promised' = Promised
    BY <1>1 DEF Promised
<1>15. ASSUME NEW k \in Jobs
       PROVE  /\ SoundThen(k, s[k])
              /\ k # j => ConfigOf(s[k]) = config[k]
              /\ k # j /\ store[k] = NoJob => s[k] = NoJob
  <2>1. SoundJob(k, old[k], run, disturbed, successes, Promised)
      BY <1>9, <1>11, <1>13 DEF SoundNow
  <2>2. /\ SoundJob(k, s[k], run, disturbed, successes, Promised)
        /\ ConfigOf(s[k]) = ConfigOf(old[k])
        /\ ~Exists(old[k]) => s[k] = NoJob
      BY <1>2, <2>1, RecomputedCopiesAreSound DEF s
  <2>. QED
      BY <1>1, <1>9, <1>11, <1>14, <2>2 DEF SoundThen, Exists, NoJob
<1>16. OthersAreTyped' /\ RunsAreSound'
    BY <1>1 DEF IInv, TypeInv, OthersAreTyped, RunsAreSound
<1>17. TimerIsArmed' /\ timer' \in BOOLEAN
    BY <1>5 DEF TimerIsArmed, Persist, ArmTimer
<1>18. ProcessIsTyped' /\ IsUp' /\ RunsHaveOwners'
    BY <1>1, <1>11, <1>17
       DEF IInv, TypeInv, ProcessIsTyped, IsUp, RunsHaveOwners
<1>19. \A k \in unborn' : /\ s[k] = NoJob
                          /\ \A o \in Origins : run'[o][k].stage = "none"
                          /\ successes'[k] =< 0
    BY <1>1, <1>2, <1>10, <1>15
<1>20. ASSUME NEW k \in OneShots \ disturbed',
              MayRun(JobIn(config[k], StateOf(s[k])))
       PROVE  config[k] = ConfigOf(s[k])
  <2>1. CASE k = j
      BY <1>1, <1>10, <1>20, <2>1 DEF MayRun, JobIn, NoConfig
  <2>2. CASE k # j
      BY <1>15, <2>2 DEF Jobs
  <2>. QED
      BY <2>1, <2>2
<1>21. unborn' \subseteq unborn
    BY <1>1
<1>. QED
    BY <1>5, <1>6, <1>15, <1>16, <1>17, <1>18, <1>19, <1>20, <1>21,
       SavesKeepIInv

\* What a section finds and repairs in memory is as sound as before.
LEMMA RepairedMemoryIsSound ==
    ASSUME IInv, Section
    PROVE  \A k \in Jobs :
              /\ SoundNow(k, Maintain(store, FALSE)[k])
              /\ ConfigOf(Maintain(store, FALSE)[k]) = config[k]
              /\ Maintain(store, FALSE)[k].enabled = store[k].enabled
              /\ Maintain(store, FALSE)[k] \in JobType
              /\ store[k] = NoJob => Maintain(store, FALSE)[k] = NoJob
              /\ Exists(store[k]) =>
                    IsRepair(k, store[k], Maintain(store, FALSE)[k])
<1>. DEFINE s == Maintain(store, FALSE)
<1>1. ASSUME NEW k \in Jobs
      PROVE  /\ SoundJob(k, s[k], run, disturbed, successes, Promised)
             /\ ConfigOf(s[k]) = ConfigOf(store[k])
             /\ s[k].enabled = store[k].enabled
             /\ ~Exists(store[k]) => s[k] = NoJob
             /\ Exists(store[k]) => IsRepair(k, store[k], s[k])
  <2>1. SoundJob(k, store[k], run, disturbed, successes, Promised)
      BY SectionsBeginSoundly DEF SoundNow
  <2>2. TypeInv
      BY DEF IInv
  <2>3. SoundJob(k, Maintain(store, FALSE)[k], run, disturbed, successes,
                 Promised)
      BY <2>1, <2>2, MaintainedCopiesAreSound
  <2>4. ~Exists(store[k]) => Maintain(store, FALSE)[k] = NoJob
      BY DEF Maintain
  <2>5. Exists(store[k]) => IsRepair(k, store[k], Maintain(store, FALSE)[k])
      BY <2>1, <2>2, MaintainedCopiesAreSound
  <2>. HIDE DEF s
  <2>6. ~Exists(store[k]) => store[k] = NoJob
      BY <2>1 DEF SoundJob
  <2>7. /\ Exists(store[k]) => IsRepair(k, store[k], s[k])
        /\ ~Exists(store[k]) => s[k] = NoJob
        /\ SoundJob(k, s[k], run, disturbed, successes, Promised)
      BY <2>3, <2>4, <2>5 DEF s
  <2>. QED
      BY <2>6, <2>7 DEF IsRepair, ConfigOf
<1>. HIDE DEF s
<1>2. \A k \in Jobs : s[k] \in JobType
    BY <1>1 DEF SoundJob
<1>3. ~Exists(NoJob)
    BY DEF NoJob, Exists
<1>. QED
    BY <1>1, <1>2, <1>3, SectionsBeginSoundly DEF SoundNow, s

\* A call of run that has found its job due is promised a run.
LEMMA ManualRunIsCheckedKeepsIInv ==
    ASSUME IInv, NEW j \in Jobs, ManualRunIsChecked(j)
    PROVE  IInv'
<1>. DEFINE s == Maintain(store, FALSE)
<1>1. PICK forced \in BOOLEAN :
          /\ s[j].runningAt = None
          /\ forced \/ IsRunnable(s[j])
          /\ run' = [run EXCEPT !["manual"][j] =
                       [NoRun EXCEPT !.stage = "checked",
                                     !.startedAt = now,
                                     !.forced = forced]]
    BY DEF ManualRunIsChecked
<1>2. /\ Section /\ Exists(store[j]) /\ store' = s
      /\ run["manual"][j].stage = "none"
      /\ UNCHANGED <<config, states, saving, timer, tick, startup, skipped,
                     deferred, now, disposable, unborn, disturbed, successes>>
    BY DEF ManualRunIsChecked, files, process, history
<1>3. /\ run \in [Origins -> [Jobs -> RunType]] /\ now \in Nat
      /\ "manual" \in Origins /\ TypeInv
    BY DEF IInv, TypeInv, ProcessIsTyped, OthersAreTyped, Origins
<1>. DEFINE first == [NoRun EXCEPT !.stage = "checked"]
            second == [first EXCEPT !.startedAt = now]
            new == [second EXCEPT !.forced = forced]
<1>4. /\ new \in RunType /\ new.stage = "checked" /\ new.startedAt = now
      /\ new.forced = forced
  <2>1. first \in RunType /\ first.stage = "checked"
      BY BlankRunsAreIdle DEF RunType
  <2>. HIDE DEF first
  <2>2. /\ second \in RunType /\ second.stage = "checked"
        /\ second.startedAt = now
      BY <1>3, <2>1 DEF RunType
  <2>. HIDE DEF second
  <2>. QED
      BY <2>2 DEF RunType
<1>5. run' = [run EXCEPT !["manual"][j] = new]
    BY <1>1
<1>. HIDE DEF new
<1>6. /\ run' \in [Origins -> [Jobs -> RunType]]
      /\ \A o \in Origins, k \in Jobs :
            o # "manual" \/ k # j => run'[o][k] = run[o][k]
      /\ run'["manual"][j] = new
    BY <1>3, <1>4, <1>5
<1>7. IsUp /\ ~saving
      /\ \A k \in Jobs : /\ SoundNow(k, store[k])
                         /\ SoundNow(k, Loaded[k])
                         /\ SoundRuns(k, run, disturbed, successes)
                         /\ config[k] = ConfigOf(store[k])
                         /\ FilesAreSound(k)
    BY <1>2, SectionsBeginSoundly DEF IInv, CopiesAreSound
<1>8. \A k \in Jobs :
          /\ SoundNow(k, s[k])
          /\ ConfigOf(s[k]) = config[k]
          /\ s[k].enabled = store[k].enabled
          /\ s[k] \in JobType
          /\ store[k] = NoJob => s[k] = NoJob
          /\ Exists(store[k]) => IsRepair(k, store[k], s[k])
    BY <1>2, RepairedMemoryIsSound
<1>9. DOMAIN s = Jobs /\ s = [k \in Jobs |-> s[k]]
    BY MaintainIsOfJobs
<1>. HIDE DEF s
<1>10. \A k \in Jobs, o \in Origins :
           /\ IsBusy(run', o, k) <=> IsBusy(run, o, k)
           /\ IsOpen(run', o, k) <=> IsOpen(run, o, k)
           /\ Executes(run', o, k) <=> Executes(run, o, k)
  <2>1. ASSUME NEW k \in Jobs, NEW o \in Origins
        PROVE  /\ IsBusy(run', o, k) <=> IsBusy(run, o, k)
               /\ IsOpen(run', o, k) <=> IsOpen(run, o, k)
               /\ Executes(run', o, k) <=> Executes(run, o, k)
    <3>1. CASE o = "manual" /\ k = j
        BY <1>2, <1>4, <1>6, <3>1 DEF IsBusy, IsOpen, Executes
    <3>2. CASE ~(o = "manual" /\ k = j)
        BY <1>6, <3>2 DEF IsBusy, IsOpen, Executes
    <3>. QED
        BY <3>1, <3>2
  <2>. QED
      BY <2>1
\* Who is told that a one-shot is due is told so of one that may run.
<1>11. Promised' \subseteq Promised \cup {j}
       /\ (j \in Promised' => j \in Promised \/ ~forced)
  <2>1. ASSUME NEW k \in Promised', k # j
        PROVE  k \in Promised
    <3>1. k \in Jobs /\ run'["manual"][k] = run["manual"][k]
        BY <1>2, <1>3, <1>6, <2>1
           DEF Promised, TypeInv, ProcessIsTyped
    <3>. QED
        BY <1>2, <2>1, <3>1 DEF Promised
  <2>2. ASSUME j \in Promised', forced
        PROVE  j \in Promised
      BY <1>2, <1>4, <1>6, <2>2 DEF Promised
  <2>. QED
      BY <2>1, <2>2
<1>12. ASSUME j \in OneShots \ disturbed, ~forced
       PROVE  successes[j] =< 0
  <2>1. MayRun(s[j])
      BY <1>1, <1>12 DEF IsRunnable, HasPassed, MayRun
  <2>2. SoundNow(j, s[j])
      BY <1>8
  <2>. QED
      BY <1>12, <2>1, <2>2 DEF SoundNow, SoundJob
<1>13. ASSUME NEW k \in Jobs, NEW job, SoundNow(k, job)
       PROVE  SoundThen(k, job)
  <2>1. k \in OneShots \ disturbed /\ IsPromised(Promised', k, job)
        => IsPromised(Promised, k, job) \/ successes[k] =< 0
      BY <1>11, <1>12 DEF IsPromised
  <2>. QED
      BY <1>2, <1>10, <1>13, <2>1 DEF SoundNow, SoundThen, SoundJob
<1>14. Loaded' = Loaded
    BY <1>2 DEF Loaded
<1>15. CopiesAreSound'
  <2>. SUFFICES ASSUME NEW k \in Jobs
                PROVE  /\ FilesAreSound(k)'
                       /\ SoundThen(k, s[k])
                       /\ SoundThen(k, Loaded[k])
                       /\ config[k] = ConfigOf(s[k])
      BY <1>2, <1>7, <1>14 DEF CopiesAreSound, SoundNow, SoundThen
  <2>1. FilesAreSound(k)'
    <3>1. FilesAreSound(k) /\ ~IsCutShort(k)
        BY <1>7 DEF IsCutShort
    <3>. QED
        BY <1>2, <1>10, <1>14, <3>1 DEF FilesAreSound
  <2>2. SoundNow(k, s[k]) /\ SoundNow(k, Loaded[k])
      BY <1>7, <1>8
  <2>. QED
      BY <1>8, <1>13, <2>1, <2>2
<1>16. RunsAreSound'
  <2>. SUFFICES ASSUME NEW k \in Jobs
                PROVE  SoundRuns(k, run', disturbed, successes)
      BY <1>2 DEF RunsAreSound
  <2>. QED
      BY <1>7, <1>10, FewerRunsAreSound
<1>17. TypeInv'
  <2>1. s \in [Jobs -> JobType]
      BY <1>8, <1>9
  <2>. QED
      BY <1>2, <1>6, <2>1
         DEF IInv, TypeInv, FilesAreTyped, ProcessIsTyped, OthersAreTyped
<1>18. GoneIsGone'
  <2>1. j \notin unborn
      BY <1>2 DEF IInv, GoneIsGone, Exists, NoJob
  <2>. QED
      BY <1>2, <1>6, <1>8, <2>1 DEF IInv, GoneIsGone
<1>19. RunsHaveOwners'
  <2>1. now # None
      BY <1>3 DEF None
  <2>. QED
      BY <1>2, <1>4, <1>6, <1>7, <2>1 DEF IInv, RunsHaveOwners, IsUp, Origins
<1>20. DownIsIdle' /\ TimerIsArmed'
    BY <1>2, <1>7, <1>8 DEF IInv, DownIsIdle, TimerIsArmed, IsUp
<1>. QED
    BY <1>15, <1>16, <1>17, <1>18, <1>19, <1>20 DEF IInv

\* One that is rejected leaves what it has repaired.
LEMMA ManualRunIsRejectedKeepsIInv ==
    ASSUME IInv, ManualRunIsRejected
    PROVE  IInv'
<1>. DEFINE s == Maintain(store, FALSE)
<1>1. /\ Section /\ store' = s /\ run' = run
      /\ UNCHANGED <<config, states, saving, timer, tick, startup, skipped,
                     deferred, now, disposable, unborn, disturbed, successes>>
    BY DEF ManualRunIsRejected, files, process, bounds, history
<1>2. IsUp /\ ~saving
      /\ \A k \in Jobs : /\ SoundNow(k, Loaded[k])
                         /\ SoundRuns(k, run, disturbed, successes)
                         /\ FilesAreSound(k)
    BY <1>1, SectionsBeginSoundly DEF IInv, CopiesAreSound
<1>3. \A k \in Jobs :
          /\ SoundNow(k, s[k])
          /\ ConfigOf(s[k]) = config[k]
          /\ s[k].enabled = store[k].enabled
          /\ s[k] \in JobType
          /\ store[k] = NoJob => s[k] = NoJob
    BY <1>1, RepairedMemoryIsSound
<1>4. DOMAIN s = Jobs /\ s = [k \in Jobs |-> s[k]]
    BY MaintainIsOfJobs
<1>. HIDE DEF s
<1>5. Loaded' = Loaded
    BY <1>1 DEF Loaded
<1>6. ASSUME NEW k \in Jobs, NEW job, SoundNow(k, job)
      PROVE  SoundThen(k, job)
  <2>1. Promised' = Promised
      BY <1>1 DEF Promised
  <2>. QED
      BY <1>1, <1>6, <2>1 DEF SoundNow, SoundThen
<1>7. CopiesAreSound'
  <2>. SUFFICES ASSUME NEW k \in Jobs
                PROVE  /\ FilesAreSound(k)'
                       /\ SoundThen(k, s[k])
                       /\ SoundThen(k, Loaded[k])
                       /\ config[k] = ConfigOf(s[k])
      BY <1>1, <1>2, <1>5 DEF CopiesAreSound, SoundNow, SoundThen
  <2>1. FilesAreSound(k)'
      BY <1>1, <1>2, <1>5 DEF FilesAreSound, IsCutShort
  <2>2. SoundNow(k, s[k]) /\ SoundNow(k, Loaded[k])
      BY <1>2, <1>3
  <2>. QED
      BY <1>3, <1>6, <2>1, <2>2
<1>8. TypeInv'
  <2>1. s \in [Jobs -> JobType]
      BY <1>3, <1>4
  <2>. QED
      BY <1>1, <2>1
         DEF IInv, TypeInv, FilesAreTyped, ProcessIsTyped, OthersAreTyped
<1>9. RunsAreSound' /\ GoneIsGone' /\ RunsHaveOwners'
    BY <1>1, <1>2, <1>3
       DEF IInv, RunsAreSound, GoneIsGone, RunsHaveOwners, IsUp
<1>10. DownIsIdle' /\ TimerIsArmed'
    BY <1>1, <1>2, <1>3 DEF IInv, DownIsIdle, TimerIsArmed, IsUp
<1>. QED
    BY <1>7, <1>8, <1>9, <1>10 DEF IInv

\* Who has been promised a run takes it when nobody was faster.
LEMMA ManualRunIsReservedKeepsIInv ==
    ASSUME IInv, NEW j \in Jobs, ManualRunIsReserved(j),
           Exists(store[j]), store[j].runningAt = None
    PROVE  IInv'
<1>. DEFINE r == run["manual"][j]
            s == [store EXCEPT ![j].runningAt = r.startedAt]
<1>1. /\ Section /\ r.stage = "checked" /\ Persist(s)
      /\ run' = [run EXCEPT !["manual"][j].stage = "running"]
      /\ disturbed' = IF store[j].enabled THEN disturbed
                      ELSE disturbed \cup {j}
      /\ successes' = IF r.forced THEN [successes EXCEPT ![j] = 0]
                                  ELSE successes
      /\ UNCHANGED <<timer, tick, startup, skipped, deferred, now, disposable,
                     unborn>>
    BY DEF ManualRunIsReserved, process, bounds
<1>2. /\ run \in [Origins -> [Jobs -> RunType]]
      /\ store \in [Jobs -> JobType] /\ successes \in [Jobs -> Int]
      /\ "manual" \in Origins /\ unborn \subseteq Jobs
    BY DEF IInv, TypeInv, FilesAreTyped, ProcessIsTyped, OthersAreTyped,
           Origins
<1>3. r \in RunType /\ r.startedAt # None
    BY <1>1, <1>2 DEF IInv, RunsHaveOwners
<1>4. /\ run' \in [Origins -> [Jobs -> RunType]]
      /\ \A o \in Origins, k \in Jobs :
            o # "manual" \/ k # j => run'[o][k] = run[o][k]
      /\ run'["manual"][j].stage = "running"
    BY <1>1, <1>2, <1>3 DEF RunType
<1>5. /\ \A k \in Jobs : k # j => s[k] = store[k]
      /\ s[j] = [store[j] EXCEPT !.runningAt = r.startedAt]
      /\ DOMAIN s = Jobs /\ s = [k \in Jobs |-> s[k]]
    BY <1>2
<1>. HIDE DEF s
<1>6. /\ s[j] \in JobType /\ s[j].runningAt = r.startedAt
      /\ s[j].enabled = store[j].enabled
      /\ s[j].schedule = store[j].schedule
  <2>1. store[j] \in JobType /\ r.startedAt \in Int
      BY <1>2, <1>3 DEF RunType
  <2>. HIDE DEF r
  <2>. QED
      BY <1>5, <2>1 DEF JobType
<1>. HIDE DEF r
<1>7. IsUp /\ \A k \in Jobs : /\ SoundNow(k, store[k])
                              /\ SoundRuns(k, run, disturbed, successes)
                              /\ config[k] = ConfigOf(store[k])
    BY <1>1, SectionsBeginSoundly
<1>8. \A k \in Jobs : ConfigOf(s[k]) = config[k]
  <2>1. ConfigOf(s[j]) = ConfigOf(store[j])
      BY <1>6 DEF ConfigOf
  <2>. QED
      BY <1>5, <1>7, <2>1
\* An undisturbed job that is not marked has no run.
<1>9. ASSUME j \notin disturbed'
      PROVE  /\ j \notin disturbed /\ store[j].enabled
             /\ \A o \in Origins : ~IsBusy(run, o, j)
             /\ j \in OneShots => successes'[j] =< 0
  <2>1. j \notin disturbed /\ store[j].enabled
      BY <1>1, <1>9
  <2>2. \A o \in Origins : ~IsBusy(run, o, j)
      BY <1>7, <2>1 DEF SoundNow, SoundJob
  <2>3. ASSUME j \in OneShots
        PROVE  successes'[j] =< 0
    <3>1. CASE r.forced
        BY <1>1, <1>2, <3>1
    <3>2. CASE ~r.forced
      <4>1. IsPromised(Promised, j, store[j])
          BY <1>1, <2>1, <3>2 DEF IsPromised, Promised, r
      <4>. QED
          BY <1>1, <1>7, <2>1, <2>3, <3>2, <4>1 DEF SoundNow, SoundJob
    <3>. QED
        BY <3>1, <3>2
  <2>. QED
      BY <2>1, <2>2, <2>3
<1>10. /\ successes' \in [Jobs -> Int]
       /\ \A k \in Jobs : k # j => successes'[k] = successes[k]
       /\ \A k \in Jobs : k # j => (k \in disturbed' <=> k \in disturbed)
    BY <1>1, <1>2
<1>11. Promised' \subseteq Promised
  <2>1. ASSUME NEW k \in Promised'
        PROVE  k \in Promised
    <3>1. CASE k = j
        BY <1>1, <1>4, <2>1, <3>1 DEF Promised
    <3>2. CASE k # j
      <4>1. k \in Jobs /\ run'["manual"][k] = run["manual"][k]
          BY <1>1, <1>2, <1>4, <2>1, <3>2
             DEF Promised, IInv, TypeInv, ProcessIsTyped
      <4>. QED
          BY <1>1, <2>1, <4>1 DEF Promised
    <3>. QED
        BY <3>1, <3>2
  <2>. QED
      BY <2>1
<1>12. ASSUME NEW k \in Jobs
       PROVE  SoundThen(k, s[k])
  <2>1. CASE k = j
    <3>1. \E o \in Origins : IsBusy(run', o, j)
        BY <1>2, <1>4 DEF IsBusy
    <3>2. Exists(s[j]) /\ s[j].runningAt # None
        BY <1>3, <1>6 DEF Exists
    <3>3. j \notin disturbed' => s[j].enabled
        BY <1>6, <1>9
    <3>. QED
        BY <1>6, <2>1, <3>1, <3>2, <3>3
           DEF SoundThen, SoundJob, MayRun, IsPromised
  <2>2. CASE k # j
    <3>1. \A o \in Origins : IsBusy(run', o, k) <=> IsBusy(run, o, k)
        BY <1>4, <2>2 DEF IsBusy
    <3>2. SoundNow(k, store[k])
        BY <1>7
    <3>3. SoundJob(k, store[k], run', disturbed', successes', Promised)
        BY <1>10, <2>2, <3>1, <3>2 DEF SoundNow, SoundJob
    <3>4. SoundJob(k, store[k], run', disturbed', successes', Promised')
        BY <1>11, <3>3, FewerPromisesAreSound
    <3>. QED
        BY <1>5, <2>2, <3>4 DEF SoundThen
  <2>. QED
      BY <2>1, <2>2
<1>13. RunsAreSound'
  <2>. SUFFICES ASSUME NEW k \in Jobs
                PROVE  SoundRuns(k, run', disturbed', successes')
      BY DEF RunsAreSound
  <2>1. CASE k = j
    <3>1. j \notin disturbed' =>
            \A o \in Origins : IsBusy(run', o, j) => o = "manual"
        BY <1>4, <1>9 DEF IsBusy
    <3>2. j \in OneShots \ disturbed' => successes'[j] =< 0
        BY <1>9
    <3>. QED
        BY <1>10, <2>1, <3>1, <3>2 DEF SoundRuns
  <2>2. CASE k # j
    <3>1. \A o \in Origins : /\ IsBusy(run', o, k) <=> IsBusy(run, o, k)
                             /\ IsOpen(run', o, k) <=> IsOpen(run, o, k)
        BY <1>4, <2>2 DEF IsBusy, IsOpen, Executes
    <3>2. SoundRuns(k, run, disturbed, successes)
        BY <1>7
    <3>. QED
        BY <1>10, <2>2, <3>1, <3>2 DEF SoundRuns
  <2>. QED
      BY <2>1, <2>2
<1>14. ProcessIsTyped' /\ OthersAreTyped' /\ IsUp'
    BY <1>1, <1>4, <1>7, <1>10
       DEF IInv, TypeInv, ProcessIsTyped, OthersAreTyped, IsUp
<1>15. RunsHaveOwners'
    BY <1>1, <1>4, <1>14 DEF IInv, RunsHaveOwners, Origins
<1>16. TimerIsArmed'
  <2>1. \A k \in Jobs : s[k].enabled = store[k].enabled
      BY <1>5, <1>6
  <2>. QED
      BY <1>1, <2>1 DEF IInv, TimerIsArmed, Persist
<1>17. ASSUME NEW k \in unborn'
       PROVE  /\ s[k] = NoJob
              /\ \A o \in Origins : run'[o][k].stage = "none"
              /\ successes'[k] =< 0
  <2>1. /\ k \in Jobs /\ store[k] = NoJob /\ successes[k] =< 0
        /\ \A o \in Origins : run[o][k].stage = "none"
      BY <1>1, <1>2, <1>17 DEF IInv, GoneIsGone
  <2>2. k # j
      BY <2>1 DEF Exists, NoJob
  <2>. QED
      BY <1>4, <1>5, <1>10, <2>1, <2>2
<1>18. \A k \in OneShots \ disturbed' : config[k] = ConfigOf(s[k])
    BY <1>8 DEF Jobs
<1>19. Persist(s) /\ unborn' \subseteq unborn
    BY <1>1
<1>. QED
    BY <1>5, <1>12, <1>13, <1>14, <1>15, <1>16, <1>17, <1>18, <1>19,
       SavesKeepIInv

LEMMA ManualRunsKeepIInv ==
    ASSUME IInv, NEW j \in Jobs,
           ManualRunIsReserved(j) \/ ManualRunIsFinished(j)
    PROVE  IInv'
<1>1. CASE ManualRunIsReserved(j)
  <2>1. CASE Exists(store[j]) /\ store[j].runningAt = None
      BY <1>1, <2>1, ManualRunIsReservedKeepsIInv
  <2>2. CASE ~(Exists(store[j]) /\ store[j].runningAt = None)
    <3>1. /\ Section /\ run["manual"][j].stage = "checked"
          /\ run' = [run EXCEPT !["manual"][j] = NoRun]
          /\ UNCHANGED <<store, config, states, saving, timer, tick, startup,
                         skipped, deferred, now, disposable, unborn,
                         disturbed, successes>>
        BY <1>1, <2>2
           DEF ManualRunIsReserved, files, process, bounds, history
    <3>. QED
        BY <3>1, ForgettingRunsKeepsIInv
  <2>. QED
      BY <2>1, <2>2
<1>2. CASE ManualRunIsFinished(j)
  <2>1. CASE Exists(store[j])
      BY <1>2, <2>1, ManualRunIsFinishedKeepsIInv
  <2>2. CASE ~Exists(store[j])
    <3>1. /\ Section
          /\ run' = [run EXCEPT !["manual"][j] = NoRun]
          /\ UNCHANGED <<store, config, states, saving, timer, tick, startup,
                         skipped, deferred, now, disposable, unborn,
                         disturbed, successes>>
        BY <1>2, <2>2
           DEF ManualRunIsFinished, files, bounds, history
    <3>. QED
        BY <2>2, <3>1, ForgettingRunsKeepsIInv
  <2>. QED
      BY <2>1, <2>2
<1>. QED
    BY <1>1, <1>2

-----------------------------------------------------------------------------
(***************************************************************************)
(* Theorems.                                                               *)
(***************************************************************************)

LEMMA InitIInv == Init => IInv
<1>. SUFFICES ASSUME Init
              PROVE  IInv
    OBVIOUS
<1>. DEFINE due == [[NoJob EXCEPT !.enabled = TRUE, !.schedule = 1]
                       EXCEPT !.next = 1]
<1>1. /\ store = [j \in Jobs |-> NoJob]
      /\ config = [j \in Jobs |->
                     IF j \in Added THEN [enabled |-> TRUE, schedule |-> 1]
                                    ELSE NoConfig]
      /\ saving = FALSE /\ timer = FALSE /\ tick = "idle"
      /\ startup = "down" /\ skipped = {} /\ deferred = {}
      /\ run = [o \in Origins |-> NoBatch]
      /\ now = 1 /\ unborn = Jobs \ Added /\ disturbed = {}
      /\ successes = [j \in Jobs |-> 0]
    BY DEF Init
<1>2. states \in [Jobs -> StateType]
  <2>. DEFINE first == [NoJob EXCEPT !.enabled = TRUE]
              second == [first EXCEPT !.schedule = 1]
              third == [second EXCEPT !.next = 1]
  <2>1. first \in JobType
      BY BlankRunsAreIdle DEF JobType
  <2>. HIDE DEF first
  <2>2. second \in JobType
      BY <2>1 DEF JobType
  <2>. HIDE DEF second
  <2>3. third \in JobType
      BY <2>2 DEF JobType
  <2>4. [NoJob EXCEPT !.enabled = TRUE, !.schedule = 1, !.next = 1] = third
      BY DEF first, second
  <2>. HIDE DEF third
  <2>5. StateOf(third) \in StateType /\ NoState \in StateType
      BY <2>3 DEF StateOf, JobType, StateType, ConfigOf, ConfigType, NoState,
                  NoConfig, None, Statuses
  <2>6. states = [j \in Jobs |-> IF j \in Added THEN StateOf(third)
                                               ELSE NoState]
      BY <2>4 DEF Init
  <2>. QED
      BY <2>5, <2>6
<1>3. \A o \in Origins, j \in Jobs : run[o][j].stage = "none"
    BY <1>1, BlankRunsAreIdle
<1>4. TypeInv
  <2>1. config \in [Jobs -> ConfigType]
      BY <1>1 DEF ConfigType, NoConfig, None
  <2>2. store \in [Jobs -> JobType] /\ run \in [Origins -> [Jobs -> RunType]]
      BY <1>1, BlankRunsAreIdle
  <2>3. successes \in [Jobs -> Int] /\ unborn \subseteq Jobs /\ now \in Nat
      BY <1>1
  <2>. QED
      BY <1>1, <1>2, <2>1, <2>2, <2>3
         DEF TypeInv, FilesAreTyped, ProcessIsTyped, OthersAreTyped
<1>5. GoneIsGone
    BY <1>1, <1>3 DEF GoneIsGone, Exists, None
<1>6. \A j \in Jobs, o \in Origins :
          ~IsBusy(run, o, j) /\ ~IsOpen(run, o, j) /\ ~Executes(run, o, j)
    BY <1>3 DEF IsBusy, IsOpen, Executes
<1>7. CopiesAreSound
  <2>1. \A j \in Jobs : FilesAreSound(j)
      BY <1>1, <1>6 DEF FilesAreSound
  <2>. QED
      BY <1>1, <2>1 DEF CopiesAreSound, IsUp
<1>8. RunsAreSound
    BY <1>1, <1>6 DEF RunsAreSound, SoundRuns
<1>9. RunsHaveOwners /\ DownIsIdle /\ TimerIsArmed
    BY <1>1, <1>3 DEF RunsHaveOwners, DownIsIdle, TimerIsArmed, Origins
<1>. QED
    BY <1>4, <1>5, <1>7, <1>8, <1>9 DEF IInv

LEMMA NextKeepsIInv ==
    ASSUME IInv, [Next]_vars
    PROVE  IInv'
<1>1. now \in Nat
    BY DEF IInv, TypeInv, OthersAreTyped
<1>2. CASE TimePasses
  <2>1. now' \in Nat
      BY <1>1, <1>2 DEF TimePasses
  <2>. QED
      BY <1>2, <2>1, UnseenStepsKeepIInv
         DEF TimePasses, files, process, history
<1>3. CASE UNCHANGED vars
    BY <1>1, <1>3, UnseenStepsKeepIInv
       DEF vars, files, process, bounds, history
<1>4. ASSUME NEW j \in Jobs, NEW o \in Origins, RunBegins(o, j) \/ RunEnds(o, j)
      PROVE  IInv'
    BY <1>4, RunBeginsKeepsIInv, RunEndsKeepsIInv
<1>5. ASSUME NEW j \in Jobs,
             \/ Add(j) \/ SetEnabled(j) \/ Reschedule(j) \/ Remove(j)
             \/ ManualRunIsChecked(j) \/ ManualRunIsReserved(j)
             \/ ManualRunIsFinished(j)
      PROVE  IInv'
    BY <1>5, AddKeepsIInv, EditingKeepsIInv, ManualRunIsCheckedKeepsIInv,
       ManualRunsKeepIInv
<1>6. CASE Start \/ PlanStartupCatchup \/ ApplyStartupCatchup \/ StartupEnds
    BY <1>6, StartKeepsIInv, PlanStartupCatchupKeepsIInv,
       ApplyStartupCatchupKeepsIInv, StartupEndsKeepsIInv
<1>7. CASE \/ TickCollects \/ TickApplies \/ ConfigIsWritten \/ Crash
           \/ List \/ ManualRunIsRejected
    BY <1>7, TickCollectsKeepsIInv, TickAppliesKeepsIInv,
       ConfigIsWrittenKeepsIInv, CrashKeepsIInv, ListKeepsIInv,
       ManualRunIsRejectedKeepsIInv
<1>. QED
    BY <1>2, <1>3, <1>4, <1>5, <1>6, <1>7 DEF Next

\* What is stored, in memory and in the files, is always jobs and their
\* states, and what runs has a stage and times.
THEOREM TypeCorrect == Spec => []TypeInv
<1>1. IInv /\ [Next]_vars => IInv'
    BY NextKeepsIInv
<1>2. IInv => TypeInv
    BY DEF IInv
<1>. QED
    BY InitIInv, <1>1, <1>2, PTL DEF Spec

\* A marker belongs to a run whose result will be applied, and the timer is
\* armed where a job is enabled, through every start, edit and crash.
THEOREM MarkersBelongToRuns == Spec => []NoJobIsStranded
<1>1. IInv /\ [Next]_vars => IInv'
    BY NextKeepsIInv
<1>2. IInv => NoJobIsStranded
  <2>. SUFFICES ASSUME IInv
                PROVE  NoJobIsStranded
      OBVIOUS
  <2>1. ASSUME NEW j \in Jobs, store[j].runningAt # None
        PROVE  Busy(j)
    <3>1. IsUp
        BY <2>1 DEF IInv, DownIsIdle, NoJob
    <3>2. SoundNow(j, store[j])
        BY <3>1 DEF IInv, CopiesAreSound
    <3>. QED
        BY <2>1, <3>2 DEF SoundNow, SoundJob, Busy, IsBusy
  <2>. QED
      BY <2>1 DEF NoJobIsStranded, IInv, TimerIsArmed
<1>. QED
    BY InitIInv, <1>1, <1>2, PTL DEF Spec

\* A job is not executed twice at once, by the timer, by a start or by hand.
THEOREM JobsRunAlone == Spec => []OneRunAtATime
<1>1. IInv /\ [Next]_vars => IInv'
    BY NextKeepsIInv
<1>2. IInv => OneRunAtATime
  <2>. SUFFICES ASSUME IInv, NEW j \in Jobs \ disturbed
                PROVE  Cardinality(Executing(j)) =< 1
      BY DEF OneRunAtATime
  <2>1. \A o, p \in Executing(j) : o = p
      BY DEF IInv, RunsAreSound, SoundRuns, Executing, IsBusy
  <2>2. CASE Executing(j) = {}
      BY <2>2, FS_EmptySet
  <2>3. CASE Executing(j) # {}
    <3>1. PICK o \in Executing(j) : TRUE
        BY <2>3
    <3>2. Executing(j) = {o}
        BY <2>1, <3>1
    <3>3. Cardinality({o}) = 1
        BY FS_Singleton
    <3>. QED
        BY <3>2, <3>3
  <2>. QED
      BY <2>2, <2>3
<1>. QED
    BY InitIInv, <1>1, <1>2, PTL DEF Spec

\* A one-shot that went well is not executed again, wherever the process
\* crashes, unless it is edited, run by force, or its end was cut short.
THEOREM OneShotsRunOnce == Spec => []OneShotsSucceedOnce
<1>1. IInv /\ [Next]_vars => IInv'
    BY NextKeepsIInv
<1>2. IInv => OneShotsSucceedOnce
    BY DEF IInv, RunsAreSound, SoundRuns, OneShotsSucceedOnce, Jobs
<1>. QED
    BY InitIInv, <1>1, <1>2, PTL DEF Spec

-----------------------------------------------------------------------------
(***************************************************************************)
(* A run that is due is not skipped.                                       *)
(***************************************************************************)

\* Between sections the copy in memory of a job with a next run is what the
\* files say: the repairs that are not saved are of jobs without one.
MemoryFollows ==
    IsUp /\ ~saving =>
        \A j \in Jobs : Loaded[j].enabled /\ Loaded[j].next # None
                        => store[j] = Loaded[j]

SlotInv == IInv /\ MemoryFollows

\* What is due of job j stays due, but for the reasons of NoSlotIsSkipped.
SlotIsKept(j) ==
    \/ states'[j].next = states[j].next
    \/ states'[j].lastRun >= states[j].next
    \/ edited' # edited
    \/ j \in deferred \cup disturbed
    \/ unborn' # unborn

\* A copy of a job whose next run is that of job, or was executed.
KeepsSlot(job, after) ==
    after.next = job.next \/ after.lastRun >= job.next

LEMMA SavedMemoryFollows ==
    ASSUME NEW s, Persist(s),
           \A j \in Jobs : s[j] \in JobType /\ (~Exists(s[j]) => s[j] = NoJob)
    PROVE  MemoryFollows'
<1>1. /\ store' = s /\ config' = config
      /\ \A j \in Jobs : states'[j] = StateOf(s[j])
      /\ ~saving' => \A j \in Jobs : config[j] = ConfigOf(s[j])
    BY DEF Persist
<1>2. \A j \in Jobs : ~saving' => Loaded'[j] = s[j]
    BY <1>1, SavedJobsAreReadAgain DEF Loaded
<1>. QED
    BY <1>1, <1>2 DEF MemoryFollows

LEMMA NextKeepsMemory ==
    ASSUME SlotInv, [Next]_vars, IInv'
    PROVE  MemoryFollows'
<1>. SUFFICES ASSUME IsUp', ~saving'
              PROVE  MemoryFollows'
    BY DEF MemoryFollows
<1>1. \A j \in Jobs : store'[j] \in JobType
                      /\ (~Exists(store'[j]) => store'[j] = NoJob)
  <2>1. CopiesAreSound'
      BY DEF IInv
  <2>. QED
      BY <2>1 DEF CopiesAreSound, SoundNow, SoundJob
<1>2. ASSUME NEW s, Persist(s)
      PROVE  MemoryFollows'
  <2>1. store' = s
      BY <1>2 DEF Persist
  <2>. QED
      BY <1>1, <1>2, <2>1, SavedMemoryFollows
<1>3. CASE UNCHANGED <<store, files>> /\ (IsUp' => IsUp)
    BY <1>3 DEF MemoryFollows, SlotInv, files, Loaded
<1>4. CASE ManualRunIsRejected \/ \E j \in Jobs : ManualRunIsChecked(j)
  <2>1. /\ store' = Maintain(store, FALSE)
        /\ Loaded' = Loaded
        /\ Section
      BY <1>4 DEF ManualRunIsChecked, ManualRunIsRejected, files, Loaded
  <2>2. \A k \in Jobs : /\ Loaded[k] \in JobType
                        /\ ~Exists(Loaded[k]) => Loaded[k] = NoJob
      BY LoadedJobsAreTyped DEF SlotInv, IInv
  <2>3. ASSUME NEW k \in Jobs, Loaded[k].enabled, Loaded[k].next # None
        PROVE  store'[k] = Loaded[k]
    <3>1. store[k] = Loaded[k] /\ Exists(store[k])
        BY <2>1, <2>2, <2>3, SectionsBeginSoundly
           DEF SlotInv, MemoryFollows, NoJob
    <3>. QED
        BY <2>1, <2>3, <3>1 DEF Maintain, Maintained, Normalized
  <2>. QED
      BY <2>1, <2>3 DEF MemoryFollows
<1>5. CASE ConfigIsWritten
  <2>1. /\ store' = store /\ states' = states
        /\ \A j \in Jobs : config'[j] = ConfigOf(store[j])
        /\ \A j \in Jobs : states[j] = StateOf(store[j])
      BY <1>5 DEF ConfigIsWritten, SlotInv, IInv, CopiesAreSound
  <2>2. \A j \in Jobs : Loaded'[j] = store[j]
      BY <1>1, <2>1, SavedJobsAreReadAgain DEF Loaded
  <2>. QED
      BY <2>1, <2>2 DEF MemoryFollows
<1>6. CASE UNCHANGED vars \/ TimePasses
    BY <1>3, <1>6 DEF vars, TimePasses, process, IsUp
<1>7. ASSUME NEW j \in Jobs, NEW o \in Origins, RunBegins(o, j) \/ RunEnds(o, j)
      PROVE  MemoryFollows'
    BY <1>3, <1>7 DEF RunBegins, RunEnds, process, IsUp
<1>8. ASSUME NEW j \in Jobs, Add(j)
      PROVE  MemoryFollows'
    BY <1>2, <1>8 DEF Add
<1>9. ASSUME NEW j \in Jobs, SetEnabled(j) \/ Reschedule(j) \/ Remove(j)
      PROVE  MemoryFollows'
    BY <1>2, <1>9 DEF SetEnabled, Reschedule, Update, Remove
<1>10. ASSUME NEW j \in Jobs, ManualRunIsReserved(j)
       PROVE  MemoryFollows'
    BY <1>2, <1>3, <1>10 DEF ManualRunIsReserved, process, Section, IsUp
<1>11. ASSUME NEW j \in Jobs, ManualRunIsFinished(j)
       PROVE  MemoryFollows'
    BY <1>2, <1>3, <1>11 DEF ManualRunIsFinished, Section, IsUp
<1>12. CASE Start \/ ApplyStartupCatchup \/ StartupEnds \/ List \/ TickApplies
    BY <1>2, <1>12
       DEF Start, ApplyStartupCatchup, StartupEnds, List, TickApplies
<1>13. CASE PlanStartupCatchup
    BY <1>2, <1>3, <1>13 DEF PlanStartupCatchup, IsUp
<1>14. CASE TickCollects
    BY <1>2, <1>14 DEF TickCollects
<1>15. CASE Crash
    BY <1>15 DEF Crash, IsUp
<1>. QED
    BY <1>4, <1>5, <1>6, <1>7, <1>8, <1>9, <1>10, <1>11, <1>12, <1>13, <1>14,
       <1>15 DEF Next

\* Maintenance takes the next run of a job only when the job has run since.
LEMMA MaintenanceKeepsSlots ==
    ASSUME NEW j \in Jobs, NEW job \in JobType, job.enabled, job.next # None,
           NEW e \in BOOLEAN, NEW s, s[j] = job, Exists(job)
    PROVE  KeepsSlot(job, Maintain(s, e)[j])
<1>1. Maintain(s, e)[j] = Maintained(j, job, e)
    BY DEF Maintain
<1>2. CASE Maintained(j, job, e) = RecomputeNext(j, job, now)
           /\ job.lastRun >= job.next
  <2>1. RecomputeNext(j, job, now).lastRun = job.lastRun
      BY DEF RecomputeNext, JobType
  <2>. QED
      BY <1>1, <1>2, <2>1 DEF KeepsSlot
<1>3. CASE Maintained(j, job, e) = Normalized(job)
    BY <1>1, <1>3 DEF Normalized, KeepsSlot
<1>. QED
    BY <1>2, <1>3 DEF Maintained

\* A job that is due, with its copy in memory, and is not about to be given
\* the result of a run.
LEMMA DueJobsRest ==
    ASSUME SlotInv, NEW j \in Jobs \ disturbed, IsRunnable(Loaded[j])
    PROVE  /\ Loaded[j] \in JobType /\ Exists(Loaded[j])
           /\ Loaded[j].enabled /\ Loaded[j].next # None
           /\ Loaded[j].runningAt = None
           /\ Loaded[j].next = states[j].next
           /\ Section => /\ store[j] = Loaded[j]
                         /\ \A o \in Origins : run[o][j].stage # "done"
<1>1. /\ Loaded[j] \in JobType
      /\ ~Exists(Loaded[j]) => Loaded[j] = NoJob
    BY LoadedJobsAreTyped DEF SlotInv, IInv
<1>2. /\ Loaded[j].enabled /\ Loaded[j].next # None
      /\ Loaded[j].runningAt = None
    BY DEF IsRunnable, HasPassed
<1>3. Exists(Loaded[j])
    BY <1>1, <1>2 DEF NoJob
<1>4. Loaded[j].next = states[j].next
    BY <1>2 DEF Loaded, NoJob, JobIn
<1>5. ASSUME Section
      PROVE  /\ store[j] = Loaded[j]
             /\ \A o \in Origins : run[o][j].stage # "done"
  <2>1. SoundNow(j, Loaded[j]) /\ IsUp /\ ~saving
      BY <1>5, SectionsBeginSoundly DEF SlotInv
  <2>2. \A o \in Origins : ~IsBusy(run, o, j)
      BY <1>2, <1>3, <2>1 DEF SoundNow, SoundJob
  <2>. QED
      BY <1>2, <2>1, <2>2 DEF SlotInv, MemoryFollows, IsBusy
<1>. QED
    BY <1>1, <1>2, <1>3, <1>4, <1>5

LEMMA StepsKeepSlots ==
    ASSUME SlotInv, Next, NEW j \in Jobs \ disturbed, IsRunnable(Loaded[j])
    PROVE  SlotIsKept(j)
<1>. DEFINE job == Loaded[j]
<1>1. /\ job \in JobType /\ Exists(job) /\ job.enabled /\ job.next # None
      /\ job.runningAt = None /\ job.next = states[j].next
      /\ Section => store[j] = job
      /\ Section => \A o \in Origins : run[o][j].stage # "done"
    BY DueJobsRest
<1>. HIDE DEF job
<1>2. ASSUME NEW s, Persist(s), KeepsSlot(job, s[j])
      PROVE  SlotIsKept(j)
    BY <1>1, <1>2 DEF Persist, KeepsSlot, StateOf, SlotIsKept
<1>3. ASSUME NEW s, NEW e \in BOOLEAN, Persist(Maintain(s, e)), s[j] = job
      PROVE  SlotIsKept(j)
    BY <1>1, <1>2, <1>3, MaintenanceKeepsSlots
<1>4. CASE states' = states
    BY <1>4 DEF SlotIsKept
<1>5. ASSUME NEW s, NEW jobs, Persist(Marked(s, jobs)), s[j] = job
      PROVE  SlotIsKept(j)
  <2>1. Marked(s, jobs)[j].next = job.next
      BY <1>1, <1>5 DEF Marked, JobType
  <2>. QED
      BY <1>2, <1>5, <2>1 DEF KeepsSlot
<1>6. ASSUME NEW o \in Origins, NEW s, s[j] = job, Section
      PROVE  WithOutcomes(s, o)[j] = job
    BY <1>1, <1>6 DEF WithOutcomes, Done
<1>7. CASE TickCollects
  <2>1. j \in { k \in Jobs : IsRunnable(Loaded[k]) }
      OBVIOUS
  <2>2. Persist(Marked(Loaded, { k \in Jobs : IsRunnable(Loaded[k]) }))
      BY <1>7, <2>1 DEF TickCollects
  <2>. QED
      BY <1>5, <2>2 DEF job
<1>8. CASE TickApplies
  <2>1. /\ Section
        /\ Persist(Maintain(WithOutcomes(Loaded, "timer"), FALSE))
      BY <1>8 DEF TickApplies
  <2>2. WithOutcomes(Loaded, "timer")[j] = job
      BY <1>6, <2>1 DEF job, Origins
  <2>. QED
      BY <1>3, <2>1, <2>2
<1>9. CASE Start
  <2>1. j \notin skipped'
      BY <1>1, <1>9 DEF Start, job
  <2>2. PICK s : Persist(s) /\ s[j] = job
    <3>1. Persist([k \in Jobs |-> IF k \in skipped'
                                  THEN Interrupted(k, Loaded[k])
                                  ELSE Loaded[k]])
        BY <1>9 DEF Start
    <3>. QED
        BY <2>1, <3>1 DEF job
  <2>. QED
      BY <1>2, <2>2 DEF KeepsSlot
<1>10. CASE PlanStartupCatchup
    BY <1>1, <1>4, <1>5, <1>10 DEF PlanStartupCatchup, files
<1>11. CASE ApplyStartupCatchup
  <2>. DEFINE applied == WithOutcomes(store, "startup")
              t == [k \in Jobs |-> IF k \in deferred /\ applied[k].enabled
                                   THEN [applied[k] EXCEPT !.next = now + Delay]
                                   ELSE applied[k]]
  <2>1. Section /\ Persist(Maintain(t, FALSE))
      BY <1>11 DEF ApplyStartupCatchup
  <2>2. applied[j] = job
      BY <1>1, <1>6, <2>1 DEF Origins
  <2>. HIDE DEF applied
  <2>3. j \in deferred \/ t[j] = job
      BY <2>2
  <2>. HIDE DEF t
  <2>. QED
      BY <1>3, <2>1, <2>3 DEF SlotIsKept
<1>12. CASE StartupEnds \/ List
  <2>1. Section /\ \E e \in BOOLEAN : Persist(Maintain(store, e))
      BY <1>12 DEF StartupEnds, List
  <2>. QED
      BY <1>1, <1>3, <2>1
<1>13. ASSUME NEW k \in Jobs, Add(k)
       PROVE  SlotIsKept(j)
    BY <1>13 DEF Add, SlotIsKept
<1>14. ASSUME NEW k \in Jobs, SetEnabled(k) \/ Reschedule(k) \/ Remove(k)
       PROVE  SlotIsKept(j)
  <2>1. IsEdited(k)
      BY <1>14 DEF SetEnabled, Reschedule, Update, Remove
  <2>. QED
      BY <2>1 DEF IsEdited, SlotIsKept
<1>15. ASSUME NEW k \in Jobs, ManualRunIsReserved(k)
       PROVE  SlotIsKept(j)
  <2>1. CASE UNCHANGED files
      BY <1>4, <2>1 DEF files
  <2>2. CASE Persist([store EXCEPT ![k].runningAt =
                        run["manual"][k].startedAt])
    <3>. DEFINE s == [store EXCEPT ![k].runningAt =
                        run["manual"][k].startedAt]
    <3>1. store[j] = job
        BY <1>1, <1>15 DEF ManualRunIsReserved
    <3>2. s[j].next = job.next
      <4>1. store \in [Jobs -> JobType]
          BY DEF SlotInv, IInv, TypeInv, FilesAreTyped
      <4>2. CASE k = j
        <5>1. s[j] = [job EXCEPT !.runningAt = run["manual"][k].startedAt]
            BY <3>1, <4>1, <4>2
        <5>. QED
            BY <1>1, <5>1 DEF JobType
      <4>3. CASE k # j
          BY <3>1, <4>1, <4>3
      <4>. QED
          BY <4>2, <4>3
    <3>. HIDE DEF s
    <3>. QED
        BY <1>2, <2>2, <3>2 DEF KeepsSlot, s
  <2>. QED
      BY <1>15, <2>1, <2>2 DEF ManualRunIsReserved
<1>16. ASSUME NEW k \in Jobs, ManualRunIsFinished(k)
       PROVE  SlotIsKept(j)
  <2>1. k # j
      BY <1>1, <1>16 DEF ManualRunIsFinished, Origins
  <2>2. CASE states' = states
      BY <1>4, <2>2
  <2>3. CASE \E x : Persist(Maintain([Loaded EXCEPT ![k] = x], TRUE))
    <3>1. PICK x : Persist(Maintain([Loaded EXCEPT ![k] = x], TRUE))
        BY <2>3
    <3>2. [Loaded EXCEPT ![k] = x][j] = job
        BY <2>1 DEF job, Loaded
    <3>. QED
        BY <1>3, <3>1, <3>2
  <2>. QED
      BY <1>16, <2>2, <2>3 DEF ManualRunIsFinished, files
<1>17. CASE ConfigIsWritten \/ ManualRunIsRejected \/ TimePasses \/ Crash
    BY <1>4, <1>17
       DEF ConfigIsWritten, ManualRunIsRejected, TimePasses, Crash, files
<1>18. ASSUME NEW k \in Jobs, \/ ManualRunIsChecked(k)
                              \/ \E o \in Origins : \/ RunBegins(o, k)
                                                    \/ RunEnds(o, k)
       PROVE  SlotIsKept(j)
    BY <1>4, <1>18 DEF ManualRunIsChecked, RunBegins, RunEnds, files
<1>. QED
    BY <1>7, <1>8, <1>9, <1>10, <1>11, <1>12, <1>13, <1>14, <1>15, <1>16,
       <1>17, <1>18 DEF Next

\* What the files say of the next run of a job moves past one that is due only
\* when they also say that the job has run since, as a start does of a job it
\* finds marked; or a job is edited or added, this one is put off by a start,
\* or it was disabled during a run of its own.
THEOREM NoDueRunIsSkipped == Spec => NoSlotIsSkipped
<1>1. Init => SlotInv
    BY InitIInv DEF SlotInv, MemoryFollows, IsUp, Init
<1>2. SlotInv /\ [Next]_vars => SlotInv'
    BY NextKeepsIInv, NextKeepsMemory DEF SlotInv
<1>3. SlotInv /\ [Next]_vars =>
      [\A j \in Jobs :
          /\ IsRunnable(Loaded[j])
          /\ Exists(store'[j])
          /\ states'[j].next # states[j].next
          => \/ states'[j].lastRun >= states[j].next
             \/ edited' # edited
             \/ j \in deferred \cup disturbed
             \/ unborn' # unborn]_vars
    BY StepsKeepSlots DEF SlotIsKept
<1>. QED
    BY <1>1, <1>2, <1>3, PTL DEF Spec, NoSlotIsSkipped

=============================================================================
