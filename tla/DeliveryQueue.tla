---------------------------- MODULE DeliveryQueue ----------------------------
(***************************************************************************)
(* The write-ahead queue of outbound messages                              *)
(* (src/infra/outbound/delivery-queue-*.ts) and the code that uses it.     *)
(*                                                                         *)
(* A delivery is a file in the queue directory from before it is sent      *)
(* until it is acknowledged or moved to failed/.  Live sends               *)
(* (deliverOutboundPayloads), restart notices                              *)
(* (deliverRestartSentinelNotice), the recovery at startup and the drains  *)
(* on reconnect all work on these files; claims held in memory keep most   *)
(* of them apart.  The process may crash: files survive, claims do not.    *)
(*                                                                         *)
(* The actors are the worker that recovers, the workers that drain, and    *)
(* the senders, each named by the delivery it sends.  They interleave at   *)
(* every await: one action reads a file, writes or renames it, or calls    *)
(* the platform.  An update of a file is a read, then a write of the whole *)
(* file by atomic replacement, whether or not the file still exists.       *)
(***************************************************************************)
EXTENDS Integers, FiniteSets

CONSTANTS Deliveries,
          BestEffortSends,    \* those that may have bestEffort
          Recoveries,    \* runs of recoverPendingDeliveries
          Drains,        \* drain keys of drainPendingDeliveries
          Policies,      \* of the deliveries, see policy
          Outcomes,      \* what a platform call may come to
          Reconciles,    \* whether the channel has reconcileUnknownSend
          BudgetEnds,    \* whether a recovery may run out of time
          DiskFaults,    \* whether file operations may fail
          MaxRetries,    \* MAX_RETRIES
          CrashCap       \* bounds the crashes

ASSUME DeliveriesAssumption == BestEffortSends \subseteq Deliveries

ASSUME WorkersAssumption ==
    /\ Recoveries \cap Drains = {}
    /\ (Recoveries \cup Drains) \cap Deliveries = {}

ASSUME OptionsAssumption ==
    /\ Policies \subseteq {"required", "best_effort", "notice"}
    /\ {Reconciles, BudgetEnds, DiskFaults} \subseteq BOOLEAN

ASSUME BoundsAssumption == MaxRetries \in Nat \ {0} /\ CrashCap \in Nat

\* sent:           the message is visible and the call says so
\* rejected:       it is not, and the call throws
\* permanent:      likewise, with an error that will not go away
\* errorAfterSend: it is visible, at least in part, and the call throws
\* nothing:        hooks or rendering left nothing to send
\* aborted:        the abort signal of the sender fired
ASSUME OutcomesAssumption ==
    Outcomes \subseteq {"sent", "rejected", "permanent", "errorAfterSend",
                        "nothing", "aborted"}

Workers == Recoveries \cup Drains
Actors == Deliveries \cup Workers

VARIABLES
    pending,     \* the files of the queue directory
    failed,      \* the deliveries with a file in failed/
    entriesInProgress,  \* the claims
    pc,          \* per actor, what it does next
    current,     \* per worker, the delivery it has claimed
    todo,        \* per worker, the ids of its scan it has yet to take
    entryRead,   \* per actor, the file it read and will write back
    deferring,   \* per recovery, the files it read to defer them
    policy,      \* per delivery, its queuePolicy, or "notice" if it is made by
                 \* deliverRestartSentinelNotice
    bestEffort,  \* the live sends with bestEffort: errors go to onError
    marked,      \* the live sends with platformSendStarted
    crashes,
    visible,     \* history: how often the message appeared, up to twice
    handedOver,  \* history: the live sends that called the platform
    attempts,    \* history: replays that ended in an error, in this process
    excused      \* history: aborted, or nothing was left to send

files == <<pending, failed>>
memory == <<entriesInProgress, pc, current, todo, entryRead, deferring, policy,
            bestEffort, marked>>
history == <<visible, handedOver, attempts, excused>>
vars == <<files, memory, crashes, history>>

\* The fields of a file that decide what becomes of it.  lastAttemptAt is set
\* by the same writes that raise retryCount.
QueuedDelivery ==
    [retryCount : Nat,
     recoveryState : {"none", "send_attempt_started", "unknown_after_send"}]

NoEntry == [retryCount |-> -1, recoveryState |-> "none"]

Notices == { d \in Deliveries : policy[d] = "notice" }
Live == Deliveries \ Notices

Of(a) == IF a \in Workers THEN current[a] ELSE a

-----------------------------------------------------------------------------
(***************************************************************************)
(* The file operations, used by several actors.                            *)
(***************************************************************************)

Goto(a, l) == pc' = [pc EXCEPT ![a] = l]

\* The finally blocks: the claim is released, a worker takes the next entry.
\* The sender of a restart notice never had a claim.
Leave(a) ==
    /\ Goto(a, IF a \in Workers THEN "scanning" ELSE "over")
    /\ entriesInProgress' =
         IF a \in Notices THEN entriesInProgress
                          ELSE entriesInProgress \ {Of(a)}

\* ackDelivery: the rename of phase 1 takes the file out of the queue, and is
\* content if there is none.  When it fails, drainQueuedEntry records that as
\* a failed attempt; the senders leave the file as it is.
AckDelivery(a) ==
    /\ pc[a] = "acking"
    /\ \/ /\ pending' = [pending EXCEPT ![Of(a)] = NoEntry]
          /\ Leave(a)
       \/ /\ DiskFaults
          /\ UNCHANGED pending
          /\ IF a \in Workers
             THEN Goto(a, "failing") /\ UNCHANGED entriesInProgress
             ELSE Leave(a)
    /\ UNCHANGED <<failed, current, todo, entryRead, deferring, policy,
                   bestEffort, marked, crashes, history>>

\* failDelivery, from its read to its write.  No caller minds if it fails.
FailDeliveryReads(a) ==
    /\ pc[a] = "failing"
    /\ \/ /\ pending[Of(a)] # NoEntry
          /\ entryRead' = [entryRead EXCEPT ![a] = pending[Of(a)]]
          /\ Goto(a, "failingWrite")
          /\ UNCHANGED entriesInProgress
       \/ /\ pending[Of(a)] = NoEntry \/ DiskFaults
          /\ Leave(a)
          /\ UNCHANGED entryRead
    /\ UNCHANGED <<files, current, todo, deferring, policy, bestEffort,
                   marked, crashes, history>>

\* (mutant) The attempt is not counted.
FailDeliveryWritesUncounted(a) ==
    /\ pc[a] = "failingWrite"
    /\ pending' = [pending EXCEPT ![Of(a)] = entryRead[a]]
    /\ entryRead' = [entryRead EXCEPT ![a] = NoEntry]
    /\ Leave(a)
    /\ UNCHANGED <<failed, current, todo, deferring, policy, bestEffort,
                   marked, crashes, history>>

OneMoreRetry(e) == [e EXCEPT !.retryCount = @ + 1]

WithState(e, state) == [e EXCEPT !.recoveryState = state]

FailDeliveryWrites(a) ==
    /\ pc[a] = "failingWrite"
    /\ pending' = [pending EXCEPT ![Of(a)] = OneMoreRetry(entryRead[a])]
    /\ entryRead' = [entryRead EXCEPT ![a] = NoEntry]
    /\ Leave(a)
    /\ UNCHANGED <<failed, current, todo, deferring, policy, bestEffort,
                   marked, crashes, history>>

\* The loop of a drain or a recovery is left with an exception: the claim is
\* released and the rest of the scan is not looked at.
AbortScan(w) ==
    /\ Goto(w, IF w \in Recoveries THEN "over" ELSE "idle")
    /\ entriesInProgress' = entriesInProgress \ {current[w]}
    /\ todo' = [todo EXCEPT ![w] = {}]

\* moveToFailed is a rename.  When it fails the file stays; only a drain that
\* was pruning an entry out of retries lets the exception through.
MoveToFailed(w) ==
    /\ pc[w] \in {"moving", "pruning"}
    /\ \/ /\ pending[current[w]] # NoEntry
          /\ pending' = [pending EXCEPT ![current[w]] = NoEntry]
          /\ failed' = failed \cup {current[w]}
          /\ Leave(w) /\ UNCHANGED todo
       \/ /\ pending[current[w]] = NoEntry
          /\ Leave(w) /\ UNCHANGED <<files, todo>>
       \/ /\ DiskFaults
          /\ IF pc[w] = "pruning" /\ w \in Drains
             THEN AbortScan(w)
             ELSE Leave(w) /\ UNCHANGED todo
          /\ UNCHANGED files
    /\ UNCHANGED <<current, entryRead, deferring, policy, bestEffort, marked,
                   crashes, history>>

\* What a platform call leaves behind outside the process.
Appears(d) == visible' = [visible EXCEPT ![d] = IF @ = 2 THEN 2 ELSE @ + 1]

-----------------------------------------------------------------------------
(***************************************************************************)
(* A live send.                                                            *)
(***************************************************************************)

Init ==
    /\ pending = [d \in Deliveries |-> NoEntry]
    /\ failed = {}
    /\ entriesInProgress = {}
    /\ pc = [a \in Actors |-> IF a \in Workers THEN "idle" ELSE "new"]
    /\ current = [w \in Workers |-> "none"]
    /\ todo = [w \in Workers |-> {}]
    /\ entryRead = [a \in Actors |-> NoEntry]
    /\ deferring = [r \in Recoveries |-> [d \in Deliveries |-> NoEntry]]
    /\ policy \in [Deliveries -> Policies]
    /\ bestEffort \in SUBSET BestEffortSends
    /\ bestEffort \subseteq Live
    /\ marked = {}
    /\ crashes = 0
    /\ visible = [d \in Deliveries |-> 0]
    /\ handedOver = {}
    /\ attempts = [d \in Deliveries |-> 0]
    /\ excused = {}

\* enqueueDelivery.  Where the write fails, nothing is queued and this module
\* has nothing to say.
EnqueueDelivery(d) ==
    /\ pc[d] = "new"
    /\ pending' = [pending EXCEPT ![d] =
                     [retryCount |-> 0, recoveryState |-> "none"]]
    /\ Goto(d, IF d \in Live THEN "enqueued" ELSE "noticeSending")
    /\ UNCHANGED <<failed, entriesInProgress, current, todo, entryRead,
                   deferring, policy, bestEffort, marked, crashes, history>>

\* (mutant) The live send does not claim its entry.
ClaimNothing(d) ==
    /\ pc[d] = "enqueued"
    /\ Goto(d, "rendering")
    /\ UNCHANGED <<files, entriesInProgress, current, todo, entryRead,
                   deferring, policy, bestEffort, marked, crashes, history>>

\* withActiveDeliveryClaim, some time after the file has become visible.
ClaimLive(d) ==
    /\ pc[d] = "enqueued"
    /\ IF d \in entriesInProgress
       THEN Goto(d, "over") /\ UNCHANGED entriesInProgress
       ELSE /\ entriesInProgress' = entriesInProgress \cup {d}
            /\ Goto(d, "rendering")
    /\ UNCHANGED <<files, current, todo, entryRead, deferring, policy,
                   bestEffort, marked, crashes, history>>

\* deliverOutboundPayloadsCore up to the first call of onPlatformSendStart.
\* With bestEffort an abort is an error like any other.
Render(d) ==
    /\ pc[d] = "rendering"
    /\ \/ /\ Goto(d, "marking")
          /\ UNCHANGED excused
       \/ /\ \/ "nothing" \in Outcomes
             \/ "aborted" \in Outcomes /\ d \notin bestEffort
          /\ Goto(d, "acking")
          /\ excused' = excused \cup {d}
       \/ /\ "rejected" \in Outcomes
          /\ Goto(d, "failing")
          /\ UNCHANGED excused
    /\ UNCHANGED <<files, entriesInProgress, current, todo, entryRead,
                   deferring, policy, bestEffort, marked, crashes, visible,
                   handedOver, attempts>>

\* markQueuedPlatformSendAttemptStarted.  A marker that cannot be written
\* keeps a required send from the platform, and no other.
MarkStartedReads(d) ==
    /\ pc[d] = "marking"
    /\ \/ /\ pending[d] # NoEntry
          /\ entryRead' = [entryRead EXCEPT ![d] = pending[d]]
          /\ Goto(d, "markingWrite")
       \/ /\ pending[d] = NoEntry \/ DiskFaults
          /\ Goto(d, IF policy[d] = "required" THEN "failing" ELSE "sending")
          /\ UNCHANGED entryRead
    /\ UNCHANGED <<files, entriesInProgress, current, todo, deferring,
                   policy, bestEffort, marked, crashes, history>>

\* (mutant) The marker is set in memory only.
MarkStartedWritesNothing(d) ==
    /\ pc[d] = "markingWrite"
    /\ entryRead' = [entryRead EXCEPT ![d] = NoEntry]
    /\ marked' = marked \cup {d}
    /\ Goto(d, "sending")
    /\ UNCHANGED <<files, entriesInProgress, current, todo, deferring,
                   policy, bestEffort, crashes, history>>

MarkStartedWrites(d) ==
    /\ pc[d] = "markingWrite"
    /\ pending' = [pending EXCEPT ![d] =
                     WithState(entryRead[d], "send_attempt_started")]
    /\ entryRead' = [entryRead EXCEPT ![d] = NoEntry]
    /\ marked' = marked \cup {d}
    /\ Goto(d, "sending")
    /\ UNCHANGED <<failed, entriesInProgress, current, todo, deferring,
                   policy, bestEffort, crashes, history>>

\* The platform call of a live send.  Whether an error is thrown or, with
\* bestEffort, reported to onError, failDelivery follows.
SendLive(d, outcome) ==
    /\ pc[d] = "sending"
    /\ d \in Live
    /\ handedOver' = handedOver \cup {d}
    /\ CASE outcome = "sent" ->
              /\ Appears(d)
              /\ Goto(d, IF d \in marked THEN "returned" ELSE "acking")
              /\ UNCHANGED excused
         [] outcome = "errorAfterSend" ->
              Appears(d) /\ Goto(d, "failing") /\ UNCHANGED excused
         [] outcome \in {"rejected", "permanent"} ->
              Goto(d, "failing") /\ UNCHANGED <<visible, excused>>
         [] outcome = "aborted" ->
              /\ d \notin bestEffort
              /\ excused' = excused \cup {d}
              /\ Goto(d, "acking")
              /\ UNCHANGED visible
         [] outcome = "nothing" ->
              /\ excused' = excused \cup {d}
              /\ Goto(d, IF d \in marked THEN "returned" ELSE "acking")
              /\ UNCHANGED visible
    /\ UNCHANGED <<files, entriesInProgress, current, todo, entryRead,
                   deferring, policy, bestEffort, marked, crashes, attempts>>

\* markQueuedPlatformOutcomeUnknown.  When it fails for a required send, the
\* error is thrown and the file stays as it is.
MarkUnknownReads(d) ==
    /\ pc[d] = "returned"
    /\ \/ /\ pending[d] # NoEntry
          /\ entryRead' = [entryRead EXCEPT ![d] = pending[d]]
          /\ Goto(d, "returnedWrite")
          /\ UNCHANGED entriesInProgress
       \/ /\ pending[d] = NoEntry \/ DiskFaults
          /\ UNCHANGED entryRead
          /\ IF policy[d] = "required"
             THEN Leave(d)
             ELSE Goto(d, "acking") /\ UNCHANGED entriesInProgress
    /\ UNCHANGED <<files, current, todo, deferring, policy, bestEffort,
                   marked, crashes, history>>

MarkUnknownWrites(d) ==
    /\ pc[d] = "returnedWrite"
    /\ pending' = [pending EXCEPT ![d] =
                     WithState(entryRead[d], "unknown_after_send")]
    /\ entryRead' = [entryRead EXCEPT ![d] = NoEntry]
    /\ Goto(d, "acking")
    /\ UNCHANGED <<failed, entriesInProgress, current, todo, deferring,
                   policy, bestEffort, marked, crashes, history>>

\* (mutant) The notice is acknowledged after its last attempt, sent or not.
SendNoticeAckingAnyway(d, outcome) ==
    /\ pc[d] = "noticeSending"
    /\ outcome # "aborted"
    /\ IF outcome \in {"sent", "errorAfterSend"}
       THEN Appears(d) ELSE UNCHANGED visible
    /\ \E next \in {"noticeSending", "acking"} : Goto(d, next)
    /\ UNCHANGED <<files, entriesInProgress, current, todo, entryRead,
                   deferring, policy, bestEffort, marked, crashes,
                   handedOver, attempts, excused>>

\* One of the 45 attempts of deliverRestartSentinelNotice: queued, but sent
\* with skipQueue, so neither claimed nor marked.
SendNotice(d, outcome) ==
    /\ pc[d] = "noticeSending"
    /\ \/ outcome = "sent" /\ Appears(d) /\ Goto(d, "acking")
       \/ /\ outcome \in {"rejected", "permanent", "errorAfterSend", "nothing"}
          /\ IF outcome = "errorAfterSend" THEN Appears(d)
             ELSE UNCHANGED visible
          /\ \E next \in {"noticeSending", "failing"} : Goto(d, next)
    /\ UNCHANGED <<files, entriesInProgress, current, todo, entryRead,
                   deferring, policy, bestEffort, marked, crashes,
                   handedOver, attempts, excused>>

-----------------------------------------------------------------------------
(***************************************************************************)
(* Recovery at startup and drains on reconnect.                            *)
(***************************************************************************)

\* recoverPendingDeliveries runs once in a process, drainPendingDeliveries
\* whenever it is not under way for its key.  Only the ids of what is loaded
\* here are relied on later.
LoadPendingDeliveries(w) ==
    /\ pc[w] = "idle"
    /\ todo' = [todo EXCEPT ![w] = { d \in Deliveries : pending[d] # NoEntry }]
    /\ todo'[w] # {}
    /\ Goto(w, "scanning")
    /\ UNCHANGED <<files, entriesInProgress, current, entryRead, deferring,
                   policy, bestEffort, marked, crashes, history>>

ClaimRecoveryEntry(w, d) ==
    /\ pc[w] = "scanning"
    /\ d \in todo[w]
    /\ todo' = [todo EXCEPT ![w] = @ \ {d}]
    /\ IF d \in entriesInProgress
       THEN UNCHANGED <<entriesInProgress, current, pc>>
       ELSE /\ entriesInProgress' = entriesInProgress \cup {d}
            /\ current' = [current EXCEPT ![w] = d]
            /\ Goto(w, "rereading")
    /\ UNCHANGED <<files, entryRead, deferring, policy, bestEffort, marked,
                   crashes, history>>

Untouched ==
    UNCHANGED <<files, current, entryRead, deferring, policy, bestEffort,
                marked, crashes, history>>

\* (mutants) The snapshot of the scan is trusted; the limit is one too high;
\* what was started is replayed.
TrustTheSnapshot(w) ==
    /\ pc[w] = "rereading"
    /\ Goto(w, "sending")
    /\ UNCHANGED <<entriesInProgress, todo>>
    /\ Untouched

RereadOnceTooOften(w) ==
    LET entry == pending[current[w]]
    IN  /\ pc[w] = "rereading"
        /\ \/ entry = NoEntry /\ Leave(w)
           \/ /\ entry.retryCount > MaxRetries
              /\ Goto(w, "pruning") /\ UNCHANGED entriesInProgress
           \/ /\ entry.retryCount \in 0 .. MaxRetries
              /\ Goto(w, "sending") /\ UNCHANGED entriesInProgress
        /\ UNCHANGED todo
        /\ Untouched

RereadBlindly(w) ==
    /\ pc[w] = "rereading"
    /\ IF pending[current[w]] = NoEntry THEN Leave(w)
       ELSE Goto(w, "sending") /\ UNCHANGED entriesInProgress
    /\ UNCHANGED todo
    /\ Untouched

\* loadPendingDelivery after the claim, and the tests up to drainQueuedEntry.
\* The backoff after a failed attempt may or may not have passed.
RereadAfterClaim(w) ==
    LET entry == pending[current[w]]
    IN  /\ pc[w] = "rereading"
        /\ \/ /\ entry = NoEntry \/ entry.retryCount \in 1 .. MaxRetries - 1
              /\ Leave(w) /\ UNCHANGED todo
           \/ /\ entry.retryCount >= MaxRetries
              /\ Goto(w, "pruning") /\ UNCHANGED <<entriesInProgress, todo>>
           \/ /\ entry # NoEntry
              /\ entry.retryCount < MaxRetries
              /\ Goto(w, IF entry.recoveryState = "none" THEN "sending"
                                                         ELSE "reconciling")
              /\ UNCHANGED <<entriesInProgress, todo>>
           \/ DiskFaults /\ AbortScan(w)
        /\ Untouched

\* reconcileUnknownQueuedDelivery.  The adapter's answer is right; it may have
\* none, for now or for good.
Reconcile(w) ==
    /\ pc[w] = "reconciling"
    /\ \E next \in IF ~Reconciles THEN {"moving"}
                   ELSE {"moving", "failing",
                         IF visible[current[w]] > 0
                         THEN "acking" ELSE "sending"} :
          Goto(w, next)
    /\ UNCHANGED <<entriesInProgress, todo>>
    /\ Untouched

\* deliver() with skipQueue.  With bestEffort the errors went to onError, and
\* drainQueuedEntry sees a success.
Replay(w, outcome) ==
    LET d == current[w]
        next == IF outcome \in {"sent", "nothing"} \/ d \in bestEffort
                THEN "acking"
                ELSE IF outcome = "permanent" THEN "moving" ELSE "failing"
    IN  /\ pc[w] = "sending"
        /\ outcome # "aborted"
        /\ Goto(w, next)
        /\ IF outcome \in {"sent", "errorAfterSend"}
           THEN Appears(d) ELSE UNCHANGED visible
        /\ excused' = IF outcome = "nothing" THEN excused \cup {d} ELSE excused
        /\ attempts' = [attempts EXCEPT ![d] =
                          IF next = "failing" /\ @ =< MaxRetries
                          THEN @ + 1 ELSE @]
        /\ UNCHANGED <<files, entriesInProgress, current, todo, entryRead,
                       deferring, policy, bestEffort, marked, crashes,
                       handedOver>>

\* deferRemainingEntriesForBudget: failDelivery on all that is left, claimed
\* or not, in parallel.
BudgetExceeded(r) ==
    /\ BudgetEnds
    /\ pc[r] = "scanning"
    /\ todo[r] # {}
    /\ Goto(r, "deferring")
    /\ UNCHANGED <<entriesInProgress, todo>>
    /\ Untouched

DeferReads(r, d) ==
    /\ pc[r] = "deferring"
    /\ d \in todo[r]
    /\ todo' = [todo EXCEPT ![r] = @ \ {d}]
    /\ deferring' = [deferring EXCEPT ![r][d] = pending[d]]
    /\ UNCHANGED <<files, entriesInProgress, pc, current, entryRead, policy,
                   bestEffort, marked, crashes, history>>

DeferWrites(r, d) ==
    /\ deferring[r][d] # NoEntry
    /\ pending' = [pending EXCEPT ![d] = OneMoreRetry(deferring[r][d])]
    /\ deferring' = [deferring EXCEPT ![r][d] = NoEntry]
    /\ UNCHANGED <<failed, entriesInProgress, pc, current, todo, entryRead,
                   policy, bestEffort, marked, crashes, history>>

EndOfScan(w) ==
    /\ pc[w] \in {"scanning", "deferring"}
    /\ todo[w] = {}
    /\ pc[w] = "deferring" => \A d \in Deliveries : deferring[w][d] = NoEntry
    /\ Goto(w, IF w \in Recoveries THEN "over" ELSE "idle")
    /\ UNCHANGED <<entriesInProgress, todo>>
    /\ Untouched

\* The process dies and is started again.
Crash ==
    /\ crashes < CrashCap
    /\ crashes' = crashes + 1
    /\ entriesInProgress' = {}
    /\ pc' = [a \in Actors |-> IF a \in Workers THEN "idle"
                               ELSE IF pc[a] = "new" THEN "new" ELSE "over"]
    /\ todo' = [w \in Workers |-> {}]
    /\ current' = [w \in Workers |-> "none"]
    /\ entryRead' = [a \in Actors |-> NoEntry]
    /\ deferring' = [r \in Recoveries |-> [d \in Deliveries |-> NoEntry]]
    /\ marked' = {}
    /\ attempts' = [d \in Deliveries |-> 0]
    /\ UNCHANGED <<files, policy, bestEffort, visible, handedOver, excused>>

-----------------------------------------------------------------------------

WorkerStep(w) ==
    \/ RereadAfterClaim(w) \/ Reconcile(w) \/ MoveToFailed(w) \/ EndOfScan(w)
    \/ AckDelivery(w) \/ FailDeliveryReads(w) \/ FailDeliveryWrites(w)
    \/ \E d \in Deliveries : ClaimRecoveryEntry(w, d)
    \/ \E outcome \in Outcomes : Replay(w, outcome)
    \/ /\ w \in Recoveries
       /\ \/ BudgetExceeded(w)
          \/ \E d \in Deliveries : DeferReads(w, d) \/ DeferWrites(w, d)

SenderStep(d) ==
    \/ AckDelivery(d) \/ FailDeliveryReads(d) \/ FailDeliveryWrites(d)
    \/ /\ d \in Live
       /\ \/ ClaimLive(d) \/ Render(d) \/ MarkStartedReads(d)
          \/ MarkStartedWrites(d) \/ MarkUnknownReads(d) \/ MarkUnknownWrites(d)
          \/ \E outcome \in Outcomes : SendLive(d, outcome)
    \/ /\ d \in Notices
       /\ \E outcome \in Outcomes : SendNotice(d, outcome)

Next ==
    \/ \E d \in Deliveries : EnqueueDelivery(d) \/ SenderStep(d)
    \/ \E w \in Workers : LoadPendingDeliveries(w) \/ WorkerStep(w)
    \/ Crash

Spec == Init /\ [][Next]_vars

\* The event loop runs every step that is ready, drains come round again and
\* again (WhatsApp has a timer for them), and backoffs pass.
FairSpec ==
    /\ Spec
    /\ \A d \in Deliveries : WF_vars(SenderStep(d))
    /\ \A w \in Workers : WF_vars(LoadPendingDeliveries(w) \/ WorkerStep(w))
    /\ \A w \in Workers :
         SF_vars(/\ RereadAfterClaim(w)
                 /\ pc'[w] \in {"pruning", "reconciling", "sending"})

-----------------------------------------------------------------------------
(***************************************************************************)
(* Properties.                                                             *)
(***************************************************************************)

SenderStates ==
    {"new", "enqueued", "rendering", "marking", "markingWrite", "sending",
     "returned", "returnedWrite", "noticeSending", "acking", "failing",
     "failingWrite", "over"}

WorkerStates ==
    {"idle", "scanning", "rereading", "reconciling", "sending", "acking",
     "failing", "failingWrite", "moving", "pruning", "deferring", "over"}

Files == QueuedDelivery \cup {NoEntry}

TypeOK ==
    /\ pending \in [Deliveries -> Files]
    /\ failed \subseteq Deliveries
    /\ entriesInProgress \subseteq Deliveries
    /\ pc \in [Actors -> SenderStates \cup WorkerStates]
    /\ \A d \in Deliveries : pc[d] \in SenderStates
    /\ \A w \in Workers : pc[w] \in WorkerStates
    /\ current \in [Workers -> Deliveries \cup {"none"}]
    /\ todo \in [Workers -> SUBSET Deliveries]
    /\ entryRead \in [Actors -> Files]
    /\ deferring \in [Recoveries -> [Deliveries -> Files]]
    /\ policy \in [Deliveries -> Policies]
    /\ bestEffort \subseteq BestEffortSends
    /\ marked \subseteq Live
    /\ crashes \in Nat
    /\ visible \in [Deliveries -> 0 .. 2]
    /\ handedOver \subseteq Live
    /\ attempts \in [Deliveries -> Nat]
    /\ excused \subseteq Deliveries

\* The actors between a claim and its release.
Claiming ==
    { d \in Live : pc[d] \notin {"new", "enqueued", "over"} } \cup
    { w \in Workers : pc[w] \notin {"idle", "scanning", "deferring", "over"} }

\* The claims keep live sends, recovery and drains apart: no two of them work
\* on one entry, and no claim outlives its owner, so none blocks an entry.
ClaimsAreExclusive ==
    /\ \A a, b \in Claiming : Of(a) = Of(b) => a = b
    /\ entriesInProgress = { Of(a) : a \in Claiming }

\* A delivery that was queued is in the queue or in failed/ until it is
\* visible, unless its sender aborted it or there was nothing to send,
\* whatever crashes, races and failing file operations come between.  With
\* bestEffort a replay that the platform rejects counts as a success.
NoDeliveryLost ==
    \A d \in Deliveries :
        pc[d] # "new" =>
            \/ pending[d] # NoEntry
            \/ d \in failed
            \/ visible[d] > 0
            \/ d \in excused
            \/ d \in bestEffort

\* A required live send that has called the platform is marked in its file for
\* as long as there is one: after a crash nobody takes it for unsent.
RequiredSendsAreMarked ==
    \A d \in handedOver :
        policy[d] = "required" /\ pending[d] # NoEntry =>
            pending[d].recoveryState # "none"

\* What is marked as started is not replayed on a guess: when a worker sends
\* it, the message is not visible, whoever sent and crashed before.
NoBlindReplayOfMarked ==
    \A w \in Workers :
        pc[w] = "sending" /\ pending[current[w]].recoveryState # "none" =>
            visible[current[w]] = 0

\* A poisoned entry is replayed MAX_RETRIES times in a process, not for ever.
ReplaysAreBounded ==
    \A d \in Deliveries : attempts[d] =< MaxRetries

\* What has left the queue does not come back, to be sent once more: no update
\* of a file overtakes the acknowledgement of another actor.
GoneStaysGone ==
    [][\A d \in Deliveries :
         pc[d] # "new" /\ pending[d] = NoEntry => pending'[d] = NoEntry]_vars

\* Nobody sees a message twice.
NoDuplicate ==
    \A d \in Deliveries : visible[d] =< 1

\* Nothing stays in the queue for ever.
QueueEmpties ==
    \A d \in Deliveries : pending[d] # NoEntry ~> pending[d] = NoEntry
=============================================================================
