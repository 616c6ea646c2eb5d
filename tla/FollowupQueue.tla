---------------------------- MODULE FollowupQueue ----------------------------
(***************************************************************************)
(* The queue of messages that wait for a session's running turn            *)
(* (src/auto-reply/reply/queue/, src/utils/queue-helpers.ts), for one      *)
(* queue key.                                                              *)
(*                                                                         *)
(* A registry maps the key to a queue object.  runReplyAgent enqueues a    *)
(* message that arrives behind a running turn and, when the turn has       *)
(* ended, starts a drain: an asynchronous loop over the object it found in *)
(* the registry.  /stop empties the object and unregisters it, so that a   *)
(* drain may outlive its object's registration and a replacement be        *)
(* filled, and drained, beside it.  A drain hands one message or batch at  *)
(* a time to runFollowup, which waits for the session's reply lane.        *)
(*                                                                         *)
(* Everything between two awaits is one action.  The prompts are the       *)
(* messages they carry; the dedupe cache does not expire (its 5 minutes    *)
(* are longer than the behaviours of interest).                            *)
(***************************************************************************)
EXTENDS Integers, SequencesExt

CONSTANTS Messages,
          Fences,        \* the sets of messages that may be fenced
          Redelivered,   \* the messages the channel may deliver again
          Sender,        \* per message, its resolveFollowupAuthorizationKey
          Route,         \* per message, its channel, account and thread
          Settings,      \* the QueueSettings an enqueue may bring
          OverlapDrops,  \* whether the cap may be hit while a batch runs
          Queues,        \* the queue objects
          NoQueue,       \* what an unregistered key maps to
          StopCap, FailCap  \* bound the stops and the runs that fail

ASSUME MessagesAssumption ==
    /\ Fences \subseteq SUBSET Messages /\ Redelivered \subseteq Messages
    /\ DOMAIN Sender = Messages /\ DOMAIN Route = Messages

ASSUME SettingsAssumption ==
    Settings \subseteq [mode : {"followup", "collect"}, cap : Nat \ {0},
                        drop : {"summarize", "old", "new"}]

ASSUME BoundsAssumption ==
    /\ NoQueue \notin Queues
    /\ OverlapDrops \in BOOLEAN
    /\ StopCap \in Nat /\ FailCap \in Nat

VARIABLES
    fenced,     \* the messages with an abort signal and a queuedLifecycle
    entry,      \* FOLLOWUP_QUEUES.get(key)
    queue,      \* per object, its FollowupQueueState
    drain,      \* per object, the drain that runs over it
    lane,       \* who holds the reply lane: nobody, a turn, or a drain's run
    recent,     \* RECENT_QUEUE_MESSAGE_IDS
    aborted,    \* the messages whose abort signal fired
    completed,  \* the messages whose lifecycle is completed
    stops,
    fails,
    fate,       \* history: what has become of each message
    arrived,    \* history: the messages accepted since the last stop, in order
    answers     \* history: the messages put to the agent, in order

vars == <<fenced, entry, queue, drain, lane, recent, aborted, completed,
          stops, fails, fate, arrived, answers>>

registry == <<entry, queue, drain>>
history == <<fenced, arrived, answers>>

-----------------------------------------------------------------------------
(* Queue objects. *)

\* A queue created for these settings.
QueueFor(s) == [items |-> <<>>, mode |-> s.mode, cap |-> s.cap,
                drop |-> s.drop, dropped |-> 0, lines |-> <<>>,
                sources |-> <<>>]

Unused == QueueFor([mode |-> "followup", cap |-> 1, drop |-> "new"])

WithSettings(r, s) == [r EXCEPT !.mode = s.mode, !.cap = s.cap, !.drop = s.drop]

\* Each drop puts a line in the summary; the oldest lines beyond the cap go.
Newest(s, n) == SubSeq(s, Len(s) - n + 1, Len(s))
Trimmed(s, n) == IF Len(s) > n THEN Newest(s, n) ELSE s

\* What follows in t after its first part s.
Behind(s, t) == SubSeq(t, Len(s) + 1, Len(t))

IsFull(r) == Len(r.items) >= r.cap
Overflowing(r) == SubSeq(r.items, 1, Len(r.items) - r.cap + 1)

\* What dropping the oldest items for a newcomer leaves.
AfterDrop(r) ==
    LET kept == Behind(Overflowing(r), r.items)
        lines == Trimmed(r.lines \o Overflowing(r), r.cap)
    IN  IF r.drop = "summarize"
        THEN [r EXCEPT !.items = kept,
                       !.dropped = @ + Len(Overflowing(r)),
                       !.lines = lines,
                       !.sources = Trimmed(@ \o Overflowing(r), Len(lines))]
        ELSE [r EXCEPT !.items = kept]

ClearSummary(r) == [r EXCEPT !.dropped = 0, !.lines = <<>>, !.sources = <<>>]

Pending(r) == r.items # <<>> \/ r.dropped > 0

\* The summary of the dropped messages a prompt can carry.
NoSummary == [dropped |-> 0, lines |-> <<>>]
Summary(r) == IF r.drop = "summarize" /\ r.dropped > 0
              THEN [dropped |-> r.dropped, lines |-> r.lines]
              ELSE NoSummary

\* A deferred run puts its summary back, unless it is still there.
Restore(r, summary) ==
    IF r.dropped >= summary.dropped /\ IsPrefix(summary.lines, r.lines)
    THEN r
    ELSE [r EXCEPT !.dropped = IF @ >= summary.dropped
                               THEN @ ELSE @ + summary.dropped,
                   !.lines = summary.lines \o @]

\* (mutant) One batch whatever the senders.
CollectTogether(s) == s

\* Consecutive messages of one sender form a group: the first of those that s
\* is split into.
FirstGroup(s) ==
    LET ends == {i \in 1..Len(s) :
                    i = Len(s) \/ Sender[s[i + 1]] # Sender[s[1]]}
    IN  SubSeq(s, 1, Min(ends))

IsCrossChannel(s) ==
    \/ \E m, n \in Range(s) : Route[m] # Route[n]
    \/ Range(s) \cap fenced # {}

-----------------------------------------------------------------------------
(* Drains.  at is the index the search for aborted messages has come down  *)
(* to; again holds in the second search, after the debounce.               *)

FromTheEnd == -1

NoDrain == [pc |-> "off", again |-> FALSE, at |-> FromTheEnd, swept |-> FALSE,
            force |-> FALSE, batch |-> <<>>, rest |-> <<>>,
            summary |-> NoSummary, summaryOnly |-> FALSE]

BeginSweep == [NoDrain EXCEPT !.pc = "sweep"]

Draining(q) == drain[q].pc # "off"

\* scheduleFollowupDrain over the registry e, qs, ds: nothing happens when a
\* drain is running; one that finds nothing to do unregisters the queue.
ScheduleDrain(e, qs, ds) ==
    IF e # NoQueue /\ ds[e].pc = "off" /\ ~Pending(qs[e])
    THEN /\ entry' = NoQueue
         /\ queue' = [qs EXCEPT ![e] = Unused]
         /\ drain' = ds
    ELSE /\ entry' = e
         /\ queue' = qs
         /\ drain' = IF e # NoQueue /\ ds[e].pc = "off"
                     THEN [ds EXCEPT ![e] = BeginSweep] ELSE ds

\* (mutant) The map entry is removed whatever it points to.
FinishDrainUnguarded(q, r) ==
    IF Pending(r)
    THEN ScheduleDrain(entry,
                       [queue EXCEPT ![q] = IF entry = q THEN r ELSE Unused],
                       [drain EXCEPT ![q] = NoDrain])
    ELSE /\ entry' = NoQueue
         /\ queue' = [queue EXCEPT ![q] = Unused]
         /\ drain' = [drain EXCEPT ![q] = NoDrain]

\* (mutant) A drain that stops with work left is not started again.
FinishDrainForGood(q, r) ==
    /\ entry' = IF entry = q /\ ~Pending(r) THEN NoQueue ELSE entry
    /\ queue' = [queue EXCEPT ![q] = IF entry = q /\ Pending(r)
                                     THEN r ELSE Unused]
    /\ drain' = [drain EXCEPT ![q] = NoDrain]

\* The drain of q ends and leaves its object as r.  A drain with work left
\* schedules one for the key, whichever object that now names.
FinishDrain(q, r) ==
    LET left == [queue EXCEPT ![q] = IF entry = q THEN r ELSE Unused]
        idle == [drain EXCEPT ![q] = NoDrain]
    IN  IF Pending(r)
        THEN ScheduleDrain(entry, left, idle)
        ELSE /\ entry' = IF entry = q THEN NoQueue ELSE entry
             /\ queue' = [queue EXCEPT ![q] = Unused]
             /\ drain' = idle

\* The next iteration of the loop.
Iterate(q, r) ==
    IF Pending(r)
    THEN /\ queue' = [queue EXCEPT ![q] = r]
         /\ drain' = [drain EXCEPT ![q] =
                         [BeginSweep EXCEPT !.force = drain[q].force]]
         /\ UNCHANGED entry
    ELSE FinishDrain(q, r)

Init ==
    /\ fenced \in Fences
    /\ entry = NoQueue
    /\ queue = [q \in Queues |-> Unused]
    /\ drain = [q \in Queues |-> NoDrain]
    /\ lane = "turn"
    /\ recent = {} /\ aborted = {} /\ completed = {}
    /\ stops = 0 /\ fails = 0
    /\ fate = [m \in Messages |-> "unseen"]
    /\ arrived = <<>> /\ answers = <<>>

-----------------------------------------------------------------------------
(* The session's turns and the messages that arrive behind them. *)

\* Any moment for which the caller still believed in a running turn.
EnqueueFollowupRun(m, s) ==
    LET created == entry = NoQueue
        q == IF created
             THEN CHOOSE x \in Queues : ~Draining(x)
             ELSE entry
        r == IF created THEN QueueFor(s) ELSE WithSettings(queue[q], s)
        busy == drain[q].pc \in {"dropping", "admission", "running"}
        drops == IsFull(r) /\ r.drop # "new"
        dropped == IF drops THEN Range(Overflowing(r)) ELSE {}
        r1 == IF drops THEN AfterDrop(r) ELSE r
        forgotten == (Range(r.sources) \cup dropped) \ Range(r1.sources)
        Queued(to) == IF lane = "idle"
                      THEN ScheduleDrain(q, [queue EXCEPT ![q] = to], drain)
                      ELSE /\ entry' = q
                           /\ queue' = [queue EXCEPT ![q] = to]
                           /\ UNCHANGED drain
    IN  /\ m \notin aborted /\ fate[m] # "refused"
        /\ \E x \in Queues : created => ~Draining(x)
        /\ \/ /\ m \in recent \cap Redelivered
              /\ Queued(r)
              /\ UNCHANGED <<recent, completed, fate, arrived>>
           \/ /\ m \notin recent
              /\ IsFull(r) /\ r.drop = "new"
              /\ Queued(r)
              /\ fate' = [fate EXCEPT ![m] = "refused"]
              /\ UNCHANGED <<recent, completed, arrived>>
           \/ /\ m \notin recent
              /\ ~(IsFull(r) /\ r.drop = "new")
              /\ OverlapDrops \/ ~(drops /\ busy)
              /\ Queued([r1 EXCEPT !.items = Append(@, m)])
              /\ recent' = recent \cup {m}
              /\ arrived' = Append(arrived, m)
              /\ completed' = completed \cup (forgotten \cap fenced)
              /\ fate' = [n \in Messages |->
                            IF n = m THEN "waiting"
                            ELSE IF n \in dropped \cap Range(r1.lines)
                            THEN "summarising"
                            ELSE IF n \in dropped
                                    \/ (n \in Range(r.lines) \ Range(r1.lines)
                                        /\ fate[n] = "summarising")
                            THEN "dropped"
                            ELSE fate[n]]
    /\ UNCHANGED <<fenced, lane, aborted, stops, fails, answers>>

\* A message that finds the session idle is run at once.
TurnStarts ==
    /\ lane = "idle"
    /\ lane' = "turn"
    /\ UNCHANGED <<registry, recent, aborted, completed, stops, fails, fate,
                   history>>

\* completeThen: the lane is cleared, then the drain scheduled.
TurnEnds ==
    /\ lane = "turn"
    /\ lane' = "idle"
    /\ ScheduleDrain(entry, queue, drain)
    /\ UNCHANGED <<recent, aborted, completed, stops, fails, fate, history>>

\* The channel withdraws a message.
AbortMessage(m) ==
    /\ m \in fenced \ aborted
    /\ aborted' = aborted \cup {m}
    /\ UNCHANGED <<registry, lane, recent, completed, stops, fails, fate,
                   history>>

\* (mutant) The lifecycles of cleared messages stay open.
ClearWithoutCompleting ==
    /\ entry # NoQueue /\ stops < StopCap
    /\ fate' = [m \in Messages |->
                  IF m \in Range(queue[entry].items)
                  THEN "cleared" ELSE fate[m]]
    /\ queue' = [queue EXCEPT ![entry] =
                   IF Draining(entry)
                   THEN [ClearSummary(@) EXCEPT !.items = <<>>] ELSE Unused]
    /\ entry' = NoQueue
    /\ stops' = stops + 1
    /\ arrived' = <<>>
    /\ UNCHANGED <<fenced, drain, lane, recent, aborted, completed, fails,
                   answers>>

\* clearFollowupQueue, on /stop and session resets.
ClearFollowupQueue ==
    /\ entry # NoQueue
    /\ stops < StopCap
    /\ LET r == queue[entry]
           cleared == Range(r.items)
       IN  /\ completed' = completed
                           \cup (fenced \cap (cleared \cup Range(r.sources)))
           /\ fate' = [m \in Messages |->
                         IF \/ m \in cleared /\ fate[m] = "waiting"
                            \/ m \in Range(r.lines) /\ fate[m] = "summarising"
                         THEN "cleared" ELSE fate[m]]
           /\ queue' = [queue EXCEPT ![entry] =
                          IF Draining(entry)
                          THEN [ClearSummary(r) EXCEPT !.items = <<>>]
                          ELSE Unused]
    /\ entry' = NoQueue
    /\ stops' = stops + 1
    /\ arrived' = <<>>
    /\ UNCHANGED <<fenced, drain, lane, recent, aborted, fails, answers>>

-----------------------------------------------------------------------------
(* Steps of the drain of q. *)

\* What the drain does once nothing aborted is left in the queue: the batch it
\* hands to runFollowup, alone or as the first of several.
NextBatch(q, r) ==
    LET d == drain[q]
        cross == IsCrossChannel(r.items)
        force == cross \/ (d.force /\ Len(r.items) <= 1)
        collect == r.mode = "collect" /\ ~force
        Run(batch, rest, summary) ==
            /\ drain' = [drain EXCEPT ![q] =
                           [NoDrain EXCEPT
                              !.pc = "admission",
                              !.force = IF r.mode = "collect"
                                        THEN force ELSE d.force,
                              !.batch = batch,
                              !.rest = rest,
                              !.summary = summary,
                              !.summaryOnly = r.mode # "collect"
                                              /\ summary # NoSummary]]
            /\ queue' = [queue EXCEPT ![q] = r]
            /\ UNCHANGED entry
    IN  IF r.items = <<>>
        THEN IF r.mode = "collect" /\ Summary(r) # NoSummary
             THEN Run(<<>>, <<>>, Summary(r))
             ELSE FinishDrain(q, r)
        ELSE IF collect
        THEN Run(FirstGroup(r.items), Behind(FirstGroup(r.items), r.items),
                 Summary(r))
        ELSE Run(<<Head(r.items)>>, <<>>,
                 IF r.mode = "collect" THEN NoSummary ELSE Summary(r))

\* dropAbortedFollowups: from the end of the queue, up to the next aborted
\* message or through.  The index outlives the awaits: beyond the end there is
\* no item to look at, and the drain fails.
Sweep(q) ==
    LET d == drain[q]
        r == queue[q]
        at == IF d.at = FromTheEnd THEN Len(r.items) ELSE d.at
        hits == {i \in 1..at : i <= Len(r.items) /\ r.items[i] \in aborted}
        emptied == d.swept /\ r.items = <<>>
        swept == IF emptied THEN ClearSummary(r) ELSE r
    IN  /\ d.pc = "sweep"
        /\ \/ /\ at > Len(r.items)
              /\ FinishDrain(q, r)
              /\ UNCHANGED <<completed, fate>>
           \/ /\ at <= Len(r.items) /\ hits # {}
              /\ LET i == CHOOSE i \in hits : \A j \in hits : j <= i
                 IN  drain' = [drain EXCEPT ![q].pc = "dropping",
                                            ![q].at = i,
                                            ![q].batch = <<r.items[i]>>]
              /\ UNCHANGED <<entry, queue, completed, fate>>
           \/ /\ at <= Len(r.items) /\ hits = {}
              /\ IF ~Pending(swept)
                 THEN FinishDrain(q, swept)
                 ELSE IF d.again
                 THEN NextBatch(q, swept)
                 ELSE /\ queue' = [queue EXCEPT ![q] = swept]
                      /\ drain' = [drain EXCEPT ![q] =
                            [NoDrain EXCEPT !.pc = "debounce",
                                            !.force = d.force]]
                      /\ UNCHANGED entry
              /\ completed' = IF emptied
                              THEN completed \cup (Range(r.sources) \cap fenced)
                              ELSE completed
              /\ fate' = [m \in Messages |->
                            IF emptied /\ fate[m] = "summarising"
                               /\ m \in Range(r.lines)
                            THEN "dropped" ELSE fate[m]]
        /\ UNCHANGED <<lane, recent, aborted, stops, fails, history>>

\* runFollowup has returned for an aborted message.
DropAborted(q) ==
    LET d == drain[q]
    IN  /\ d.pc = "dropping"
        /\ queue' = [queue EXCEPT ![q].items =
                        IF d.at <= Len(@) THEN RemoveAt(@, d.at) ELSE @]
        /\ drain' = [drain EXCEPT ![q] =
                        [d EXCEPT !.pc = "sweep", !.at = @ - 1, !.swept = TRUE,
                                  !.batch = <<>>]]
        /\ completed' = completed \cup Range(d.batch)
        /\ fate' = [m \in Messages |->
                      IF m \in Range(d.batch) THEN "aborted" ELSE fate[m]]
        /\ UNCHANGED <<entry, lane, recent, aborted, stops, fails, history>>

\* debounceMs have passed without an enqueue; when, is left open.
WaitForQueueDebounce(q) ==
    /\ drain[q].pc = "debounce"
    /\ drain' = [drain EXCEPT ![q] =
                    [BeginSweep EXCEPT !.again = TRUE,
                                       !.force = drain[q].force]]
    /\ UNCHANGED <<entry, queue, lane, recent, aborted, completed, stops, fails,
                   fate, history>>

Withdrawn(q) == Range(drain[q].batch) \cap aborted # {}

\* admitReplyTurn: the run owns the lane.
AdmitReplyTurn(q) ==
    /\ drain[q].pc = "admission" /\ ~Withdrawn(q)
    /\ lane = "idle"
    /\ lane' = q
    /\ drain' = [drain EXCEPT ![q].pc = "running"]
    /\ UNCHANGED <<entry, queue, recent, aborted, completed, stops, fails, fate,
                   history>>

\* The lane stayed busy for the 15 s that waitForIdle waits.
DeferRun(q) ==
    /\ drain[q].pc = "admission" /\ ~Withdrawn(q)
    /\ lane # "idle"
    /\ FinishDrain(q, Restore(queue[q], drain[q].summary))
    /\ UNCHANGED <<lane, recent, aborted, completed, stops, fails, fate,
                   history>>

\* The lifecycles a run completes: that of a message run alone, and those of
\* the messages its summary stands for.
RunCompletes(q) ==
    fenced \cap ((IF Len(drain[q].batch) = 1 THEN Range(drain[q].batch) ELSE {})
                 \cup (IF drain[q].summary # NoSummary
                       THEN Range(queue[q].sources) ELSE {}))

\* (mutant) One item leaves, however many were run together.
AfterRunOfOne(q) ==
    LET taken == [queue[q] EXCEPT !.items = SubSeq(@, 2, Len(@))]
    IN  IF drain[q].summary # NoSummary THEN ClearSummary(taken) ELSE taken

\* The queue once the batch of q's drain has run: as many items leave at the
\* front as the batch had, and a summary that was told is cleared.
AfterRun(q) ==
    LET taken == [queue[q] EXCEPT !.items = Behind(drain[q].batch, @)]
    IN  IF drain[q].summary # NoSummary THEN ClearSummary(taken) ELSE taken

\* The run returns, having answered or, withdrawn, without.  Then the next
\* group of the collected messages is run, or the loop goes round.
RunReturns(q) ==
    LET d == drain[q]
        told == IF Withdrawn(q) THEN {} ELSE Range(d.summary.lines)
        withdrawn == Range(d.batch) \cap aborted
        answered == IF d.summaryOnly \/ Withdrawn(q) THEN <<>> ELSE d.batch
    IN  /\ d.pc = "running" \/ (d.pc = "admission" /\ Withdrawn(q))
        /\ lane' = IF lane = q THEN "idle" ELSE lane
        /\ IF d.rest = <<>>
           THEN Iterate(q, AfterRun(q))
           ELSE /\ queue' = [queue EXCEPT ![q] = AfterRun(q)]
                /\ drain' = [drain EXCEPT
                                ![q].pc = "admission",
                                ![q].batch = FirstGroup(d.rest),
                                ![q].rest = Behind(FirstGroup(d.rest), @),
                                ![q].summary = NoSummary]
                /\ UNCHANGED entry
        /\ completed' = completed \cup RunCompletes(q)
        /\ fate' = [m \in Messages |->
                      IF m \in Range(answered) THEN "answered"
                      ELSE IF m \in withdrawn THEN "aborted"
                      ELSE IF m \in told /\ fate[m] = "summarising"
                      THEN "summarised"
                      ELSE fate[m]]
        /\ answers' = answers \o answered
        /\ UNCHANGED <<fenced, recent, aborted, stops, fails, arrived>>

\* The run throws: the queue is left as it is, to be tried again.
RunFails(q) ==
    LET r == queue[q]
    IN  /\ drain[q].pc \in {"admission", "running"} /\ ~Withdrawn(q)
        /\ fails < FailCap
        /\ fails' = fails + 1
        /\ lane' = IF lane = q THEN "idle" ELSE lane
        /\ FinishDrain(q, [r EXCEPT !.sources =
                              IF drain[q].summary # NoSummary
                              THEN <<>> ELSE @])
        /\ completed' = completed \cup RunCompletes(q)
        /\ UNCHANGED <<recent, aborted, stops, fate, history>>

DrainStep(q) ==
    \/ Sweep(q)
    \/ DropAborted(q)
    \/ WaitForQueueDebounce(q)
    \/ AdmitReplyTurn(q)
    \/ DeferRun(q)
    \/ RunReturns(q)
    \/ RunFails(q)

Next ==
    \/ \E m \in Messages, s \in Settings : EnqueueFollowupRun(m, s)
    \/ \E m \in Messages : AbortMessage(m)
    \/ TurnStarts
    \/ TurnEnds
    \/ ClearFollowupQueue
    \/ \E q \in Queues : DrainStep(q)

Spec == Init /\ [][Next]_vars

WaitsForLane(q) == drain[q].pc = "admission"

\* Turns end (timeoutMs bounds them), quiet windows come, and what the drain
\* awaits is resumed.  Turns may follow each other for ever.  A run waits 15 s
\* for the lane between gaps of one debounce: the turns it waits for do not
\* all end in the gaps, and a run woken whenever the lane is cleared is, in
\* the end, first to take it.
Fairness ==
    /\ WF_vars(TurnEnds)
    /\ \A q \in Queues :
         /\ WF_vars(\/ Sweep(q) \/ DropAborted(q)
                    \/ WaitForQueueDebounce(q) \/ RunReturns(q))
         /\ SF_vars(WaitsForLane(q) /\ TurnEnds)
         /\ SF_vars(AdmitReplyTurn(q))

FairSpec == Spec /\ Fairness

-----------------------------------------------------------------------------
(* Properties. *)

SummaryType == [dropped : Nat, lines : Seq(Messages)]

QueueType == [items : Seq(Messages), mode : {"followup", "collect"},
              cap : Nat \ {0}, drop : {"summarize", "old", "new"},
              dropped : Nat, lines : Seq(Messages), sources : Seq(Messages)]

DrainType == [pc : {"off", "sweep", "dropping", "debounce", "admission",
                    "running"},
              again : BOOLEAN, at : Nat \cup {FromTheEnd}, swept : BOOLEAN,
              force : BOOLEAN, batch : Seq(Messages), rest : Seq(Messages),
              summary : SummaryType, summaryOnly : BOOLEAN]

\* The variables have their types, and an object that neither the key nor a
\* drain uses is blank.
TypeOK ==
    /\ entry \in Queues \cup {NoQueue}
    /\ queue \in [Queues -> QueueType]
    /\ drain \in [Queues -> DrainType]
    /\ lane \in {"idle", "turn"} \cup Queues
    /\ recent \subseteq Messages
    /\ fenced \in Fences
    /\ aborted \subseteq fenced /\ completed \subseteq fenced
    /\ stops \in 0..StopCap /\ fails \in 0..FailCap
    /\ fate \in [Messages -> {"unseen", "refused", "waiting", "answered",
                              "summarising", "summarised", "dropped",
                              "cleared", "aborted"}]
    /\ arrived \in Seq(Messages) /\ answers \in Seq(Messages)
    /\ \A q \in Queues : q # entry /\ ~Draining(q) => queue[q] = Unused

\* The objects a message can still be run from: the registered one, and any a
\* drain works on.
Reachable == {q \in Queues : q = entry \/ Draining(q)}

\* A message that waits for its turn is in a queue from which it can be run,
\* until it has been answered, dropped under the cap, cleared by /stop or
\* withdrawn: "Enqueue each message for a later agent turn after the current
\* run ends" (docs/concepts/queue.md:44).
QueuedMessagesGetTheirTurn ==
    \A m \in Messages : fate[m] = "waiting" =>
        \E q \in Reachable : m \in Range(queue[q].items)

\* Likewise for the line a dropped message left in the summary: it is there
\* until a prompt has carried it to the agent.
SummaryLinesAreKept ==
    \A m \in Messages : fate[m] = "summarising" =>
        \E q \in Reachable : m \in Range(queue[q].lines)

\* No accepted message disappears from the queue between enqueueFollowupRun,
\* the drains, their retries and finalizers, and the objects /stop replaces.
NothingLost == QueuedMessagesGetTheirTurn /\ SummaryLinesAreKept

\* Every accepted message with a lifecycle is either still in a queue, in a
\* summary or in a run, or its lifecycle is completed: the channel's fence that
\* waits for onComplete is never left closed.
LifecyclesClose ==
    \A m \in (fenced \cap recent) \ completed :
        \E q \in Reachable :
            m \in Range(queue[q].items) \cup Range(queue[q].sources)
                  \cup Range(drain[q].batch)

\* A message is put to the agent at most once, across retries, redeliveries and
\* stops, and the messages since the last stop in the order they arrived.
AnsweredOnceInOrder ==
    \A i, j \in 1..Len(answers) : i < j =>
        /\ answers[i] # answers[j]
        /\ {answers[i], answers[j]} \subseteq Range(arrived) =>
             \E k, l \in 1..Len(arrived) :
                /\ k < l
                /\ arrived[k] = answers[i] /\ arrived[l] = answers[j]

\* A collected batch speaks for one sender on one route: no message runs with
\* the authorization of another (splitCollectItemsByAuthorization), however
\* the queue changed between the groups.
AuthorizationsNeverMix ==
    \A q \in Queues : \A m, n \in Range(drain[q].batch) :
        Sender[m] = Sender[n] /\ Route[m] = Route[n]

Waiting == {m \in Messages : fate[m] = "waiting"}

\* As long as nobody stops the session, every waiting message settles.  After
\* a stop it may not: the drain of the stopped queue leaves the replacement to
\* the end of the next turn.
WaitingMessagesSettle == Waiting # {} ~> Waiting = {} \/ stops > 0

\* The lines kept of dropped messages do not stay: "keep compact summaries, and
\* inject them as a synthetic followup prompt" (docs/concepts/queue.md:75).
SummariesAreInjected ==
    \A m \in Messages :
        LET kept == \E q \in Reachable : m \in Range(queue[q].lines)
        IN  kept ~> ~kept
=============================================================================
