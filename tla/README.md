# OpenClaw in TLA+

This directory is a verification project for the OpenClaw gateway, the program
of this repository (TypeScript under `src/src/`, plugins under
`src/extensions/`). It holds TLA+ modules translated from the source, TLC
configurations that check them on small instances, and theorems that TLAPS
proves for every instance. `PROJECT.json` maps each definition to the lines it
stands for and lists the runs, the mutations each property detects, the
hazards, the findings and the theorems.

    tlc -workers 2 -config CommandQueue_scheduler.cfg MCCommandQueue.tla
    tlapm CommandQueueProofs.tla

## 1. The system

The gateway is one Node process. It receives messages from channel plugins
(Telegram, WhatsApp, ...), runs an agent turn for each session, and delivers
the replies. There are no threads: everything between two `await`s is atomic,
and everything that crosses one can interleave with anything else. Files in the
state directory outlive the process, maps in memory do not.

How a message travels:

    channel plugin -> inbound debounce -> session lookup
       -> runReplyAgent -- a turn is running --> followup queue --+
            |                                                     | turn ends
            v                                                     v
       reply run registry (one turn per session) <--------- runFollowup
            |
            v
       command queue: session lane, inside it a global lane -> agent runner
            |
            v
       outbound delivery queue (file, claim, send, ack) -> channel plugin

### Inventory

| component (under `src/src/` unless said) | state | operations | what is hard | what makes it correct | here |
|---|---|---|---|---|---|
| **command queue** `process/command-queue.ts` | per lane a queue, active task ids, concurrency, generation; the draining flag; waiters of a drain | enqueue with priority, pump, complete, lane timeout, set concurrency, clear, reset one lane or all, wait for active tasks | completions of an older generation, timeout against settlement, many paths that free a slot, waiters woken by somebody else | order, slots given back exactly once, no stall beside a free slot, no missed wakeup, sound verdicts | `CommandQueue`, `LaneContract`, proved |
| **gateway lanes, session suspension** `agents/session-suspension.ts`, `gateway/server-lanes.ts`, `agents/pi-embedded-runner/` (`run.ts`, `lanes.ts`) | lane concurrency, resume timers | lanes one inside the other, suspend, resume, hot reload, interrupt, reset | a timer that restores what has changed since; a task that waits for a slot while it holds one | no deadlock, one run per session, no lane left paused | `GatewayLanes` over `CommandQueue`, proved |
| **gateway restart** `cli/gateway-cli/run-loop.ts` | loop state, deadline, lock | signal, drain, restart, shutdown | drain against deadline, tasks that never end | comes through | partly, in `GatewayLanes` |
| **outbound delivery queue** `infra/outbound/delivery-queue-*.ts`, `deliver.ts` | one file per delivery with retry count and recovery state; `failed/`; claims in memory | enqueue, claim, mark as started or unknown, ack, fail, move to failed, recovery at startup, drains on reconnect, reconciliation | crashes between the steps, read-await-write of whole files, snapshots older than claims, failing file operations | nothing lost, nothing sent twice where it can be known, the queue empties | `DeliveryQueue`, proved |
| **restart notices** `gateway/server-restart-sentinel.ts` | the sentinel file | deliver the notice, continue the session | a client of the queue that takes no claim | as above | `DeliveryQueue`, notice only |
| **followup queue** `auto-reply/reply/queue/`, `utils/queue-helpers.ts` | registry of queue objects, items, overflow summary, draining flag, dedupe cache, lifecycle marks | enqueue, drop on overflow, drain loop (withdrawals, debounce, collect, single), defer and retry, clear | the queue changes under an awaiting drain; two drains side by side after `/stop` | nothing lost, answered once and in order, senders never mixed, fences close, messages settle | `FollowupQueue`, proved |
| **reply run registry** `auto-reply/reply/reply-run-registry.ts` | runs by key and by session id, waiters per key | begin, phases, attach a backend, rotate the id, abort, complete, force clear, wait | abort against completion, stale ids, late completion of a run that was cleared | one run per session, waiters told when and only when it is over | `ReplyRunRegistry`, `TurnLock`, proved |
| **reply turn admission** `auto-reply/reply/reply-turn-admission.ts` | none of its own | admit, wait, skip | the wait of 15 s against a late release; ids older than the admission | one owner of the lane, under the right id | `ReplyRunRegistry`, `FollowupQueue` |
| **inbound debounce** `auto-reply/inbound-debounce.ts` | per key a buffer, a timer, a chain of flushes | enqueue, flush, cancel, track limit | immediate messages against buffered ones; places reserved in the chain | order per key, nothing lost | `InboundDebounce`, proved |
| **heartbeat wake** `infra/heartbeat-wake.ts` | pending wakes, timer, handler generation | request, run, retry, replace handler | a handler replaced while its batch is at work | urgency kept, a wake is answered | `HeartbeatWake`, proved |
| **cron service** `cron/service/`, `cron/store.ts` | jobs in memory and in two files, run marks, timer | add, update, remove, list, run, tick, catch up at a start | operations during a run, a crash in a run or between two files | no double run, none skipped or forgotten | `CronService`, most of it, proved |
| exec approvals `gateway/exec-approval-manager.ts` | pending records and timers | register, decide, expire, consume once | decision against expiry | one decision, consumed once | planned |
| session delivery queue `infra/session-delivery-queue-*.ts` | files as above | as above | as above | as above | planned |
| gateway lock `infra/gateway-lock.ts` | lock file | acquire, take over a stale lock, release | two starters, reuse of pids | one owner | planned |
| keyed async queue `plugin-sdk/keyed-async-queue.ts` | tail per key | enqueue, remove the tail | removal against a new enqueue | order per key | planned; the chain in `InboundDebounce` follows the same protocol |
| node registry, process supervisor | sessions, children, timers | invoke, reconnect, cancel | late results | one answer per call | later |
| LangGraph poker plugin `src/extensions/langgraph-poker/` | runner process, credentials | set up, run | subprocess failure | - | planned |
| agent runner, channel plugins, gateway protocol, configuration, memory search, command line, apps, UI | - | - | services outside, parsing, interfaces | - | not modelled: their behaviour is data from outside, or sequential code that tests reach |

## 2. The modules

| module | what it is |
|---|---|
| `LaneContract` | what the lane scheduler promises its callers: abstract, without queues, generations, promises or timers |
| `CommandQueue` | the command queue, one action per exported function and per continuation |
| `CommandQueueProofs` | its inductive invariant and theorems, and that it implements `LaneContract` |
| `GatewayLanes` | extends `CommandQueue` with its clients: runs, suspensions, reloads, restarts |
| `GatewayLanesProofs` | its theorems, on top of those of `CommandQueueProofs` |
| `DeliveryQueue` | the write-ahead queue with its live senders, recoveries, drains and crashes |
| `DeliveryQueueProofs` | its invariants, from claims to duplicates, and theorems |
| `FollowupQueue` | the followup queue with its drains, the reply lane, `/stop` and withdrawals |
| `FollowupQueueProofs` | its invariants, of batches and of what is kept, and theorems |
| `TurnLock` | what the reply run registry promises: a lock per session, taken and given back once |
| `ReplyRunRegistry` | the registry, admission to it, and the calls by session id |
| `ReplyRunRegistryProofs` | its inductive invariant and theorems, and that it implements `TurnLock` |
| `InboundDebounce` | buffers and chains of inbound messages |
| `InboundDebounceProofs` | its inductive invariant and theorems |
| `HeartbeatWake` | the wake-up timer of heartbeats across handler registrations |
| `HeartbeatWakeProofs` | its invariants and theorems |
| `CronService` | the scheduler of cron jobs over its two files, with crashes |
| `CronServiceProofs` | its inductive invariant and theorems |
| `MC...` | the constants of the checked instances |

`GatewayLanes` composes the command queue with what uses it: it takes the
actions of `CommandQueue` as they are. The others share no variables. In the
code they meet in the agent turn: a debounced message asks for admission, waits
in the followup queue or takes the session's operation, its run is an entry of
the command queue, and what it answers is a delivery. Each module leaves its
neighbour's behaviour open (when a task settles, when a turn ends, what a send
comes to), so each holds whatever the others do. `FollowupQueue` holds an
abstraction of the registry: its `lane` is one key of `ReplyRunRegistry`.

### CommandQueue

A call of `enqueueCommandInLane` is an element of `Entries`; it also stands for
its task id, as ids are fresh numbers. `entry`, `queue`, `activeTaskIds`,
`maxConcurrent` and `generation` are the fields of `LaneState` and
`QueueEntry`. `phase` follows an entry's promise, `executing` its task, which
goes on after its lane timeout has given it up. The synchronous functions are
one action each, including the pump they end with (`DrainLanes`); the pump is
computed as the number of entries its loop shifts (`Burst`). `TaskSettles`,
`TaskTimesOut` and `CompleteTask` are the race of task and timeout and the
continuation after it, which ignores completions of an older generation.
`waitForActiveTasks` is a process per call (`waiter`, `awaited`).

Left out: error values, logging, warn thresholds, the migration of queues
inherited from an older release, `onWait` (its only user logs), and
concurrency arguments that are not finite numbers.

### GatewayLanes

A run calls the command queue up to three times, each call from inside the task
of the one before: `<<r, i>>` is its `i`-th. The code enqueues the inner call in
a microtask of the outer task's start, so `EnqueueInner` is a step of its own.
The outer task ends when the inner promise does (`OuterSettles`), when the run
was aborted before it went further, or, for a cron job, when its own limit is
over. `LanePath` gives the lanes, with the detour of cron jobs that keeps them
from waiting for their own lane. `suspension` follows one call of
`suspendSession` per run across its write of the session store; `resumeTimer`
holds, per lane, the concurrency its timer was armed with, captured when the
run was called. A reload sets the lanes and leaves timers alone. A restart
drains, waits or is forced (`LanesAreReset` from "draining"), resets every lane
and starts again with a configuration at least as new. Configurations are
written in order; resets and restarts together are bounded by `GenerationCap`.

### DeliveryQueue

A delivery's file is a record of the two fields that decide its fate, or
`NoEntry`. Actors (senders, recoveries, drains) step from await to await: a
file is read in one action and written in another, by atomic replacement and
whether or not it still exists, as the code does. Claims live in
`entriesInProgress` and vanish in a `Crash`. What the platform does is
`Outcomes`; `visible` counts what a user would see. Rendering, chunks and hooks
become outcomes; the backoff clock may or may not have passed.

### FollowupQueue

One queue key. `entry` is what the registry maps it to, `queue` and `drain` are
per queue *object*: `/stop` unregisters an object whose drain is still running,
and a replacement is filled beside it. `drain[q].pc` says at which `await` a
drain stands; the rest of its record is what its local variables hold across
that await: the index of the search for withdrawn messages, the batch being
run, what was collected with it and is still to be run, sender by sender
(`rest`), the summary in the prompt.
The removal after a run is by number of items, as `shift` and `splice` do it,
whatever is first by then. `lane` is the session's reply lane. A message that
has an abort signal and a lifecycle (`fenced`) is run alone even in collect
mode. `fate`, `arrived` and `answers` are history.

Abstracted: the debounce clock (a quiet window may end at any time), the expiry
of the dedupe cache (five minutes), prompts (the messages they carry), the
callback cache (production enqueues with `restartIfIdle = false`, so nothing is
restarted from it), `lastRun` (always set when a summary is pending). A turn
that fails clears the lane a few awaits before it schedules the drain; the
model does both at once (`TurnEnds`).

### ReplyRunRegistry

The five maps of `replyRunState` are variables of their names; session ids are
fresh, the `n`-th of key `k` is `<<k, n>>`. A turn asks for admission
(`AdmitReplyTurn`), waits, goes on when it is told, gives up or is skipped; an
admitted one compacts, runs, attaches and detaches backends, follows rotations
of its id, resets its session, and ends, each its own step since each crosses
an `await`. Waiters that are told continue in microtasks: `woken` is their
order, other code may run before them, timers only after. Observers are the
callers by session id: they wait, or abort, drain and then clear by force.

Merged: the result codes of an operation (one phase "settled"), and preflight
compaction with memory flush. A drain is modelled for runs that are not in the
table of `pi-embedded-runner/runs.ts` itself, which end by other means.

### InboundDebounce

A task of the chain is named after the message that made it. `buffers` and
`keyChains` are the maps of the code; `task[t].previous` is the promise a task
waits for and `ready` the promise that a reserved place waits for besides.
`serializeImmediate` is chosen at the start. `flushKey` (WhatsApp, Slack) and
the timer are one action, as the timer may fire at any time; `cancelKey`
(Telegram) is `CancelKey`. A failing `onFlush` ends its task like any other, as
the code catches it. Window lengths are left out.

### HeartbeatWake

Time is in ticks. `pendingWakes`, `timer`, `scheduled`, `running` and `handler`
are the variables of the file; `batches` holds the wakes a timer callback took
before its first `await`, one slot per callback at work, as a new registration
forgets the flag that would keep two apart. Requests carry their priority only;
reasons and sources of equal priority are not told apart. A batch keeps the
registration whose handler it calls. `owed` and `found` are history: per target
every request that is not handled yet with the place it is in (pending, or a
batch), and per registration the number of batches it found at work.

### CronService

Each operation is a section under the service's lock, hence one action; what is
executed outside the lock is `run`, per origin (timer, catch-up of a start,
callers of `run`). A section works on `store` or on what it reloads from the
files (`Loaded`), and saves: `jobs-state.json` first, `jobs.json` in a step of
its own (`ConfigIsWritten`) before the next section, with a crash possible in
between. The state carries the schedule it belongs to (`scheduleIdentity`),
which `JobIn` compares as `mergeStateFileEntry` does. The lock is first come,
first served; of that order one case is visible and is kept (`BatchIsOver`).
The timer's firing is part of its first section (`TickCollects`), its end part
of the second (`TickApplies`).

A backoff is of one length however many errors there were. Left out: cron
expressions and staggering (schedules are "at" and "every"), the limit on the
missed jobs a start executes, the statuses "skipped" and permanent errors,
markers removed after two hours, writes that fail, alerts, session reaping, the
task ledger, and a second scheduler in one process (see section 4). Two callers
of `run` on one job at once are left out too: there is one call per job at a
time, which the timer, a start, an edit or a crash may come between; and a
batch's run that begins marks its job in memory once more (`timer.ts:1244`),
which changes the time of a marker, or puts back one that disabling the job has
cleared: such a job counts as disturbed as it is.

## 3. What the runs check

| run | instance | what it shows |
|---|---|---|
| `queue_scheduler` | 3 interchangeable entries with a timeout, 2 priorities, 1 lane with 0-2 slots, a clearing, a reset, a waiter | order of the queue, slots given back once, no stall, no missed wakeup, sound verdicts, refinement of `LaneContract` |
| `gateway_lanes` | two replies of one session, or a manual cron job with its run; one suspension, a reload that takes a slot away, one reset or restart; fairness | one run per session, no lane stays paused, every run is answered, every restart comes through |
| `delivery_crash` | 1 delivery under each policy, a recovery and a drain, 2 crashes, all outcomes, failing file operations | nothing lost, required sends marked, no blind replay of what is marked |
| `delivery_contention` | 2 required deliveries, a recovery and a drain, no crash | exclusive claims, no duplicate, bounded replays, no resurrection |
| `delivery_liveness` | 1 delivery under each policy, with and without `bestEffort`, all outcomes, 1 crash, a recovery out of time, a drain, fairness | the queue empties, also of an entry whose replays keep failing |
| `followup_settle` | 3 messages of 2 senders, one perhaps withdrawn, one redelivered; 3 settings that switch mode and drop policy; 2 queue objects, a stop, a failing run, fairness | nothing lost, answered once and in order, senders never mixed, lifecycles close, messages settle |
| `followup_frozen` | 3 messages, a cap of 1, followup mode with summaries | finding 1 |
| `reply_turns` | up to 3 turns of one session, or a heartbeat beside a turn, or two sessions; one observer, one rotation | one live backend, waiters told, waits that outlast a rotation, a forced clear that hits its run only, refinement of `TurnLock` |
| `reply_final_id` | 2 turns, one rotation | finding 2 |
| `inbound_order` | 3 messages of one sender and 1 of another, at most one tracked key, both kinds of channel, fairness | order, once, no overlapping flushes, every message handled |
| `heartbeat_wakes` | 2 targets, 2 priorities, 3 requests, 2 refusals or failures, 2 registrations, fairness | no request loses its urgency, batches overlap only as inherited, every wake handled |
| `cron_schedule` | a one-shot that is due, a recurring agent turn that may be added, 2 ticks of time, an edit, a call of run, a crash | no double run, no stranded job, one success per one-shot, no due run skipped but for the exceptions below |

Why the bounds are enough. The interesting cases need few actors: one entry too
many in a lane, one task of an old generation beside one of the new, a claim
holder and a contender, a recovery and a drain, two queue objects, a run with a
successor and a second waiter, two registrations of a handler, a job that runs
and one that becomes due meanwhile.

- *CommandQueue*: three entries fill two slots and leave one to wait; two
  priorities give every insertion of an entry before, behind and between
  others (the proofs cover any number).
- *GatewayLanes*: two runs compete for a session; the cron job is the only one
  that holds three lanes. One of two replies may be suspended, so the other
  meets a paused lane in every stage.
- *DeliveryQueue*: `MaxRetries = 2` is the smallest value with a retry that is
  neither first nor last (the code has 5). Two crashes include one in the
  recovery from the other.
- *FollowupQueue*: a cap of 2 with three messages overflows by one and leaves
  one behind.
- *ReplyRunRegistry*: three turns are a holder and two that race to follow it.
  A second rotation would repeat the first.
- *InboundDebounce*: a limit of one tracked key makes the other sender's
  message overflow; three messages are a buffer of two and what follows it, or
  an immediate one between two buffers.
- *HeartbeatWake*: ticks 0, 1 and 2 order "at once", coalescing and cooldown as
  0, 250 and 1000 ms do.
- *CronService*: `Period`, `Backoff` and `Delay` of one tick and a horizon of
  two let a recurring job become due while it runs and once more after it. The
  process begins with a start, and the one crash can hit it or any later step.

Named bounds in guards are `ConcurrencyCap`, `GenerationCap`, `CrashCap`,
`StopCap`, `FailCap`, `RotationCap`, `RequestCap`, `RefusalCap`,
`LifecycleCap`, `Horizon`, `EditCap` and `ManualCap`. Symmetry is used for
interchangeable entries and deliveries in runs without liveness properties.
A type invariant that states shapes only is a definition of its module (`TypeOK`;
`GatewayTypeOK`) and not a property of a run, where it would show nothing; that
of `ReplyRunRegistry` relates the waiters to their stages, and is one.

`CHECK_DEADLOCK FALSE` in all configurations but those of FollowupQueue: every
call may have been made and answered, and the bounds reached, and then nothing
is left to do. In FollowupQueue a turn can always start.

**Fairness.** Continuations, microtasks and timers are run by the event loop:
weak fairness everywhere.

- *GatewayLanes*: of a run's innermost task it is required that it ends or runs
  into its lane timeout, which the runner's own `timeoutMs` guarantees; not that
  a task that was given up on ever ends, nor that anybody aborts. It is one weak
  fairness condition on the disjunction of all those steps
  (`GatewayProgresses`); as each of them is taken at most once by a run,
  suspension, timer or restart, and these are finitely many, none can be passed
  over for ever.
- *DeliveryQueue*: ready steps run; drains come round again (the WhatsApp
  monitor has a 30 s timer, Telegram drains on each reconnect); a backoff that
  is always waited for passes, hence the strong fairness of the reread that
  finds it passed.
- *FollowupQueue*: turns end; drains' steps run; a run waits for the lane 15 s
  at a time with one debounce between, so the turns it waits for do not all end
  in the gaps, and it is woken whenever the lane is cleared, so it is sometimes
  first (two strong fairness conditions, per queue object). New turns may keep
  starting: nothing is assumed against that.
- *InboundDebounce*: `onFlush` settles: it hands its batch to a turn that has
  time limits.
- *HeartbeatWake*: calls of the handler end, and a gateway without a handler
  registers one. Refusals and failures are bounded by `RefusalCap`: a target
  that is busy for ever is never woken, which is what the code means.

**Preconditions worth knowing.**

- `NoDuplicate` and `GoneStaysGone` hold for required sends in one process. A
  crash makes duplicates unavoidable without reconciliation. A recovery out of
  time rewrites the files it defers without claims
  (`delivery-queue-recovery.ts:318`) and can bring back what was acknowledged,
  or overwrite a mark, which is why `BudgetEnds` is FALSE where `GoneStaysGone`
  and `RequiredSendsAreMarked` are checked. A `best_effort` send that finds its
  entry claimed sends anyway; a notice takes no claim
  (`server-restart-sentinel.ts:119`): both can be shown twice. Replays do not
  mark their entries (`delivery-queue-recovery.ts:147`), so a crash in one can
  lead to a second, blind replay.
- `NothingLost` and `LifecyclesClose` of FollowupQueue are checked with
  `OverlapDrops = FALSE`: the cap is not hit while the drain awaits a run. When
  it is, the positional removal takes another message than the one that ran
  (finding 1). `AnsweredOnceInOrder` stands in the same run, but holds without
  it, and is proved so. The search for withdrawn messages has the same
  weakness (`drain.ts:334`). The settings of `followup_settle` leave out
  followup mode with `summarize` (see below).
- `WaitingMessagesSettle` is stated for sessions that have not been stopped:
  after `/stop`, a message queued behind the stopped run waits until another
  turn ends (`agent-runner.ts:1209`).
- `OneRunPerSession` does not count a run whose session lane was reset behind
  its back: the reset frees the slot while the run goes on, on purpose.
- `OneRunAtATime` does not count a job that was disabled while it ran: its
  marker is gone, and it can be run again when it is enabled.
  `OneShotsSucceedOnce` counts from the last edit, without runs by force, and
  not a job whose end a crash has cut short between the two files, in one of
  the three ways of `IsCutShort` (see section 4). `NoSlotIsSkipped` asks of
  the files that they move past a due run only when they say that the job has
  run since. They say so of a job that was marked and still waiting when the
  process died: the next start marks it interrupted (`ops.ts:74`). It excepts
  edits, deferrals by a start, `add`, which recomputes the next runs of all
  jobs and does skip those that are due (`ops.ts:374`), and jobs that were
  disabled during a run of their own.

## 4. Findings

1. `followup_frozen` (`utils/queue-helpers.ts:158`): an overflow during a run
   makes the run's end remove the newcomer; a summary without messages in
   followup mode makes the drain restart itself for ever, and the summary that
   `docs/concepts/queue.md` promises is never injected.
2. `reply_final_id` (`agent-runner-session-reset.ts:112`): a run that resets its
   session mints a new session id without telling its reply operation; the turn
   that waited for it is admitted under the retired id, where
   `reply-turn-admission.test.ts` says it uses the final one.

Seen while modelling, in the models or left out of them, and not runs of their
own:

- *Lanes.* After a lane timeout the next entry starts while the abandoned task
  goes on (`command-queue.ts:311`; `docs/concepts/queue.md:19` promises one
  active run per session). A suspension's timer restores the concurrency of the
  configuration its run was called with, after a reload that set another
  (`session-suspension.ts:51`).
- *Deliveries.* The replay of a `bestEffort` delivery reports errors to a
  callback only, so the recovery acknowledges a message the platform rejected
  (`delivery-queue-recovery.ts:443`). A reply the platform rejected keeps its
  "send started" mark and is moved to `failed/` by the next drain without a
  retry, as no channel can reconcile (`:431`).
- *Follow-ups.* In followup mode an overflow summary is run in place of the
  message that was kept, and that message is removed unanswered
  (`drain.ts:516`).
- *Heartbeats.* The cooldown of a retry is not honoured when a normal timer is
  armed sooner, against the comment at `heartbeat-wake.ts:190`. `running` is one
  flag for all registrations, so the end of an old batch lets a second batch
  begin beside the new one's. A batch that fails queues wakes again that were
  handled. A retried wake replaces a newer one of equal priority.
- *Cron.* A tick in progress arms the timer of a service that a reload has
  stopped (`timer.ts:1357`): two schedulers then live in one process. `add`
  skips the due runs of other jobs. A one-shot that is rescheduled while it runs
  is disabled by the run's end, although `jobs.ts:388` says it is armed anew.
  `remove` and the deletion after a run write the state file first: after a
  crash between the two files the job is back as one that never ran. Two more
  such ends came out of the proof, as they need more crashes or an edit more
  than the run has: a start disables a one-shot it finds interrupted, and a
  crash between the two files of that save leaves it enabled; and a one-shot
  that was rescheduled while it ran, and is retried before its new time, is
  left with a state from before that time. Either runs again at the next
  start, though it went well. A run by force that fails arms a finished
  one-shot again.

## 5. What is proved

Each theorem holds for every value of the constants that satisfies the named
assumptions of its module (sets that the code's maps make finite are finite,
bounds are numbers, a configuration exists) and the hypotheses it states. A
run shows the same property on a small instance; the inductive invariants were
checked by TLC on small instances too before they were proved. The shape is
always the same: an invariant `IInv`, a lemma per action that it is kept, and
the property as a consequence of it. All safety invariants and action
properties of the passing runs, and both refinements, are proved.

**CommandQueue**, for every finite set of entries and every set of lanes,
priorities and waiters: the type invariant, the five safety invariants of its
run, `QueuedEntriesAreInTheirLane`, which the induction needs, and
`SchedulerKeepsContract`, that it implements `LaneContract`. Three facts carry
the induction:

- `SubmittedEntriesHaveOptions`: whatever has left phase "new" and was not
  refused has a lane, a priority and a sequence number below
  `nextQueueSequence`. So a new entry is younger than all, and its insertion
  keeps the order.
- `NoneAhead`: no task's generation is ahead of its lane's. So after a reset no
  older task can be taken for one that holds a slot.
- `AwaitedTasksHaveStarted`: waiters await started tasks only. So an awaited
  task that has lost its slot never gets one again.

All actions that free or add slots go through one lemma about the pump
(`DrainLanesPreserves`): from any queues, slots and phases that match, pumping
some lanes leaves matching ones without a stall in the pumped lanes. It rests
on lemmas about `Burst`, `InsertionPoint`, `InsertAt` and prefixes of injective
sequences. For the refinement the same pump is read a second time: what it
admits was at the head of its queue, hence ahead of all that stay.

**GatewayLanes**, for any runs, kinds, configurations and lanes:
`SessionsRunAlone` and `PausedLanesResume`, and that what is proved of the queue
holds in it (`QueueStaysSound`, `QueueKeepsItsContract`): all of its steps are
steps of `CommandQueue`, but for `applyGatewayLaneConcurrency`, which sets
several lanes at once and has the lemma of its own. `GInv` adds that a run's
entries are on its lanes (`OnItsPath`), that an outer task is running while an
inner one is under way (`OuterIsHeard`, `InnerIsAwaited`), and that a session's
lane has one slot (`SessionSlots`). Two runs of a session in the global lanes
would then both hold that slot.

**DeliveryQueue**, for any deliveries, workers, outcomes and numbers of crashes.
Every step of an actor keeps what other actors hold (`ActorStep`); with that,
five invariants, each on top of the one before:

- `ClaimInv`, unconditional: the claims are exactly those of the actors at
  work. Gives `ClaimsStayExclusive`.
- `LossInv`, unconditional: whoever is about to acknowledge has a reason
  (`AcknowledgedForAReason`). Gives `NothingQueuedIsLost`.
- `MarkInv`, with `BudgetEnds = FALSE`: a claim protects the entry's file from
  the writes of everybody else, so that what a holder will write back is what
  the file says (`HeldFileIsCurrent`). Gives `StartedSendsAreMarked`,
  `MarkedEntriesAreNotReplayedBlindly` and, without notices,
  `WhatIsGoneStaysGone`.
- `CountInv`, under `Calm` (no deferral, no failing disk, no notices): attempts
  run ahead of the count in the file only while it is being written. Gives
  `ReplaysStayBounded`.
- `OnceInv`, under `Honest` (`Calm`, no crash, required sends, and no platform
  that shows what it reports as failed): an entry that is visible and still
  queued is being acknowledged. Gives `NobodySeesAMessageTwice`.

The hypotheses are the preconditions of section 3: what the code itself gives
up on. Each is the setting of the run that checks the property, and without it
the property is false.

**FollowupQueue**, for any messages, senders, routes, settings and queue
objects, and any number of stops and failing runs:

- `BatchesSpeakForOneSender`, unconditional: `AuthInv` says that what a drain
  runs now has one sender, and with what it has copied for later one route.
- `AnswersKeepTheOrder`, unconditional: what a drain has in hand came before
  everything behind it and stands no further behind in the queue than in the
  hand (`Leads`, `HandLeads`). So a removal by position may take what was not
  run, but leaves nothing that was.
- `FencesComeOpen`, under `NoDropsDuringRuns`: the cap is not hit while the drain
  awaits a run. This is the precondition of section 3; without it finding 1
  breaks it.
- `AcceptedMessagesAreKept`, under `NoDropsDuringRuns` and where no setting is
  followup mode with `summarize` (`SummariesAreBatched`): there the summary takes
  the place of a message that is then removed unanswered (section 4).

A step of a drain does many things, up to the finalizer that schedules the next
drain, but all ends in one form: an object and a drain are replaced, then the
registry settles (`Moves`, `Settle`). One lemma per action brings it there
(`SweepMoves`, `ReturnMoves` and so on), and three lemmas say what such a move
keeps (`QuietMove`, `TakingMove`, `StillMove`). The invariant `Kept` rests on
one observation: only the registered object holds anything (`QueueOK`), whatever
drains of older objects do. What its drain has taken is the front of its items
(`RestsOnItems`), which is why a removal by position removes what was run; no
message is in two hands, and what a stopped drain still has in its own is no
longer known to anybody else (`HandsApart`); so an answer of a stopped drain can
neither repeat nor overtake one of its replacement.

**ReplyRunRegistry**, for any keys, turns, observers and number of rotations:
all its properties, and `RegistryIsALock`, that it implements `TurnLock`.
`IInv` ties the five maps together: the holder of a key is the one operation of
the key whose state is not cleared (`HoldersInv`), its ids lead to its key while
it lasts (`IdsInv`), whoever stands in a queue waits, at the key of its session
(`TurnInv`, `ObserverInv`), a live backend belongs to an unsettled operation
(`PhaseInv`), and a waiter that is not yet due waits for the holder.

**InboundDebounce**, for any messages, keys and limits: `MessagesStayInOrder`,
`MessagesAreHandedOnOnce` and `FlushesTakeTurns`. `IInv` says what a chain is:
a task waits for the youngest task before it that is not over (`Links`), a task
that has begun found all older ones over (`OldOnesAreOver`), the end of a chain
is its youngest task (`ChainEnds`), and batches of a key are apart in time as
their tasks are (`BatchesInOrder`), since a filling buffer is the end of its
chain and nothing of its key is younger (`BufferFills`).

**HeartbeatWake**, for any targets, priorities among 0 to 3, delays and bounds:

- `UrgencyIsKept`. `RequestsKeepUrgency` is inductive with the types and
  `HandsOverWhatItTook`. Each end of a call or of a batch is brought to one form
  (`LetsGo`): the batch keeps some targets, and the requests of the others are
  handled or pending again, as urgent as the batch had them.
- `BatchesOverlapAsInherited`. Strengthened in `OverlapInv`: only the latest
  registration can be in force, so only its batches become more; and while the
  flag is down there are no more batches at work than that registration found,
  which leaves room for the one it will start. The end of any batch, an
  inherited one included, makes room for one.

**CronService**, for any jobs and intervals and any number of edits, calls of
`run` and crashes: `MarkersBelongToRuns`, `JobsRunAlone`, `OneShotsRunOnce` and
`NoDueRunIsSkipped`. The state of a job exists up to three times: in memory, in
the two files, and in the run that holds an older copy. `SoundJob` says of one copy how it agrees
with the runs: a marker belongs to a run, an undisturbed job with a run is
marked, and a one-shot that this copy lets run has not gone well. The copy in
memory is sound (`CopiesAreSound`), so is what a section would load from the
files, and while the second file is still to be written the files are sound
enough for a start after a crash (`FilesAreSound`). A caller of `run` and a
start that defers act on what they saw earlier; `Promised` is the set of jobs
they will run, and counts as "lets run". The first attempt failed: the property,
which the run confirms, was false beyond its bounds in two ways (section 4,
Cron). `IsCutShort` now names them.

For `NoDueRunIsSkipped`, `MemoryFollows` adds that between sections the memory
copy of a job with a next run is what the files say: a section that works on
memory moves no run the files still promise. Here too the first attempt failed:
a job that is disabled during a run of its own and enabled again can lose a due
run to that run's end, in more edits than the run of TLC has. The property now
excepts it.

**Only model-checked.** Liveness under fairness, which is out of the prover's
reach: `RunIsAnswered` and `RestartComesThrough` (GatewayLanes), `QueueEmpties`
(DeliveryQueue), `WaitingMessagesSettle` (FollowupQueue),
`EveryMessageIsHandled` (InboundDebounce) and `EveryWakeIsHandled` (HeartbeatWake). The refinements are
of safety: `LaneContract` and `TurnLock` promise no progress.

## 6. Plan

Done: `CommandQueue` (all turns pass through it), `DeliveryQueue` (where a
fault loses messages for good), `FollowupQueue` (the most interleaved code),
`GatewayLanes`, `ReplyRunRegistry`, `InboundDebounce`, `HeartbeatWake` and
`CronService`. That is the path of a message from channel to channel, and what
starts turns without a message.

Not modelled yet, in this order: exec approvals (decision, expiry and late
consumption), the session delivery queue (the file protocol of `DeliveryQueue`
with fewer guards), the gateway lock, cron expressions, the second scheduler
after a reload, the node registry and the process supervisor, and the setup and
runner of the LangGraph poker plugin. The rest of the repository (agent runner,
providers, channel plugins, protocol, configuration, apps, tools and tests) is
sequential, generated, an interface to services outside it, or data that tests
reach; it has no model here, and by far most of the repository's lines are such.

The safety properties of the runs are all proved. Theorems worth proving next:
those of the modules planned above; that `DeliveryQueue` keeps a contract of its
own, abstract from files and claims; and weaker forms of the conditional
theorems where the preconditions are violated, above all what an overflow during
a run can cost at most (`NoDropsDuringRuns`).
