-------------------------- MODULE ReplyRunRegistry --------------------------
(***************************************************************************)
(* One answer at a time per session: the registry of reply operations      *)
(* (src/auto-reply/reply/reply-run-registry.ts) and the admission of turns *)
(* to it (reply-turn-admission.ts).  A turn that is admitted creates an    *)
(* operation, which owns its session's key until it is complete, failed,   *)
(* or aborted before its work began.  Other turns of that session wait for *)
(* that, or are skipped.  While it is at work the operation may move to a  *)
(* new session id and has a backend that an abort cancels.  Stuck-session  *)
(* recovery aborts by session id, waits, and clears the key by force       *)
(* (src/agents/pi-embedded-runner/runs.ts).                                *)
(*                                                                         *)
(* Everything here runs in one thread.  A waiter that is told the run has  *)
(* ended goes on in a microtask: woken has those continuations per key, in *)
(* order (those of other keys touch nothing of a key's).  Other code may   *)
(* run before them, timers only after them.                                *)
(***************************************************************************)
EXTENDS Integers, FiniteSets, SequencesExt

CONSTANTS Keys,        \* session keys
          Turns,       \* calls of admitReplyTurn
          KeyOf,       \* the session each turn is for
          KindMixes,   \* what the turns may be
          Impatient,   \* the turns whose caller may give them up
          Observers,   \* calls by session id that wait for the run's end
          RotationCap, \* how often a session may get a new id
          None

ASSUME KeysAssumption == KeyOf \in [Turns -> Keys] /\ None \notin Turns \cup Keys

ASSUME ObserversAssumption == Observers \cap (Turns \cup {None}) = {}

ASSUME RotationAssumption == RotationCap \in Nat

\* A visible turn and a queued follow-up wait their turn; a heartbeat, a
\* control command and a dispatch that must not block are skipped instead.
\* "none" is a turn that never comes.
Kinds == {"visible", "heartbeat", "none"}

ASSUME KindsAssumption ==
    KindMixes \subseteq [Turns -> Kinds] /\ Impatient \subseteq Turns

VARIABLES
    \* replyRunState
    activeRunsByKey, activeSessionIdsByKey, activeKeysBySessionId,
    waitKeysBySessionId, waitersByKey,
    operation,      \* per turn, its operation
    kind,           \* per turn, one of Kinds
    turn,           \* per turn, where its admission stands
    activeOperation,\* per turn, the operation it waits for
    upstream,       \* the turns whose caller has given up
    work,           \* per turn, how far the code it was admitted for is
    storedSession,  \* per key, how often its id was replaced in the store
    rotating,       \* the turns whose run is yet to follow the store
    observer,       \* the calls by session id
    woken           \* per key, continuations due, in order

registry == <<activeRunsByKey, activeSessionIdsByKey, activeKeysBySessionId,
              waitKeysBySessionId, waitersByKey>>
admission == <<kind, turn, activeOperation, upstream>>
run == <<work, storedSession, rotating>>
vars == <<registry, operation, admission, run, observer, woken>>

-----------------------------------------------------------------------------
(***************************************************************************)
(* Reply operations.  Session ids are made by randomUUID: the n-th of key  *)
(* k is <<k, n>>.                                                          *)
(***************************************************************************)
SessionIds == Keys \X (0 .. RotationCap)

\* "compacting" stands for preflight_compacting and memory_flushing,
\* "settled" for the phases of an operation that has a result.
Phases == {"queued", "compacting", "running", "settled"}
Operation == [sessionId : SessionIds, phase : Phases, stateCleared : BOOLEAN,
              backend : {"none", "live", "cancelled"},
              held : SUBSET SessionIds]   \* history: every id it has had

NoOperation == [stateCleared |-> TRUE, backend |-> "none", held |-> {}]

\* target: history, the operation an observer asked about.
Observer == [stage : {"waiting", "ended", "timedOut"}, drains : BOOLEAN,
             id : SessionIds, target : Turns \cup {None}]

NotYet == [stage |-> "idle"]

IdOf(t) == operation[t].sessionId

\* resolveReplyRunForCurrentSessionId
ResolveReplyRun(id) ==
    IF activeKeysBySessionId[id] = None THEN None
    ELSE activeRunsByKey[activeKeysBySessionId[id]]

\* (mutant) An id the run has left behind is unknown.
ResolveActiveKey(id) == activeKeysBySessionId[id]

ResolveReplyRunWaitKey(id) ==
    IF activeKeysBySessionId[id] # None THEN activeKeysBySessionId[id]
    ELSE waitKeysBySessionId[id]

\* (mutant) Nobody is told.
NotifyNobody(keys, gone) == UNCHANGED <<waitersByKey, woken>>

\* (mutant) Only the one that waits longest is told.
NotifyFirst(keys, gone) ==
    /\ waitersByKey' = [k \in Keys |->
          IF k \in keys /\ waitersByKey[k] # <<>> THEN Tail(waitersByKey[k])
          ELSE waitersByKey[k]]
    /\ woken' = [k \in Keys |->
          IF k \in keys /\ waitersByKey[k] # <<>>
          THEN Append(woken[k], Head(waitersByKey[k])) ELSE woken[k]]

\* gone no longer waits.
NotifyReplyRunEnded(keys, gone) ==
    /\ waitersByKey' = [k \in Keys |->
          IF k \in keys THEN <<>> ELSE waitersByKey[k]]
    /\ woken' = [k \in Keys |->
          IF k \in keys THEN woken[k] \o RemoveFirst(waitersByKey[k], gone)
          ELSE woken[k]]

\* (mutant) An operation that is cleared clears its key once more.
Whatever(ts) == ts

Uncleared(ts) == { t \in ts : ~operation[t].stateCleared }

\* clearState of each of ts: clearReplyRunState, unless it was called before.
ClearStateAfter(ts, gone) ==
    LET cleared == Uncleared(ts)
        keys == { KeyOf[t] : t \in cleared }
    IN  /\ activeRunsByKey' = [k \in Keys |->
              IF k \in keys THEN None ELSE activeRunsByKey[k]]
        /\ activeSessionIdsByKey' = [k \in Keys |->
              IF k \in keys THEN None ELSE activeSessionIdsByKey[k]]
        /\ activeKeysBySessionId' = [id \in SessionIds |->
              IF id \in { IdOf(t) : t \in cleared } THEN None
              ELSE activeKeysBySessionId[id]]
        /\ waitKeysBySessionId' = [id \in SessionIds |->
              IF waitKeysBySessionId[id] \in keys THEN None
              ELSE waitKeysBySessionId[id]]
        /\ NotifyReplyRunEnded(keys, gone)

ClearState(ts) == ClearStateAfter(ts, None)

-----------------------------------------------------------------------------
(***************************************************************************)
(* Admission.                                                              *)
(***************************************************************************)
CreateReplyOperation(t, id) ==
    /\ operation' = [operation EXCEPT ![t] =
          [sessionId |-> id, phase |-> "queued", stateCleared |-> FALSE,
           backend |-> "none", held |-> {id}]]
    /\ activeRunsByKey' = [activeRunsByKey EXCEPT ![KeyOf[t]] = t]
    /\ activeSessionIdsByKey' = [activeSessionIdsByKey EXCEPT ![KeyOf[t]] = id]
    /\ activeKeysBySessionId' = [activeKeysBySessionId EXCEPT ![id] = KeyOf[t]]
    /\ waitKeysBySessionId' = [waitKeysBySessionId EXCEPT ![id] = KeyOf[t]]

IsIdle(k) == activeRunsByKey[k] = None

Skipped(t) ==
    /\ turn' = [turn EXCEPT ![t] = "skipped"]
    /\ activeOperation' = [activeOperation EXCEPT ![t] = None]
    /\ UNCHANGED <<registry, operation, run>>

\* One round of the loop of admitReplyTurn, up to its return or its await.
TryToAdmit(t, id) ==
    /\ \/ /\ t \in upstream
          /\ Skipped(t)
       \/ /\ t \notin upstream
          /\ IsIdle(KeyOf[t])
          /\ CreateReplyOperation(t, id)
          /\ turn' = [turn EXCEPT ![t] = "owned"]
          /\ activeOperation' = [activeOperation EXCEPT ![t] = None]
          /\ work' = [work EXCEPT ![t] = "admitted"]
          /\ UNCHANGED <<waitersByKey, storedSession, rotating>>
       \/ /\ t \notin upstream
          /\ ~IsIdle(KeyOf[t])
          /\ kind[t] = "heartbeat"
          /\ Skipped(t)
       \/ /\ t \notin upstream
          /\ ~IsIdle(KeyOf[t])
          /\ kind[t] = "visible"
          /\ turn' = [turn EXCEPT ![t] = "waiting"]
          /\ activeOperation' =
                [activeOperation EXCEPT ![t] = activeRunsByKey[KeyOf[t]]]
          /\ waitersByKey' = [waitersByKey EXCEPT ![KeyOf[t]] = Append(@, t)]
          /\ UNCHANGED <<activeRunsByKey, activeSessionIdsByKey,
                         activeKeysBySessionId, waitKeysBySessionId,
                         operation, run>>
    /\ UNCHANGED <<kind, upstream, observer>>

\* The caller has read the session's id some time before.
AdmitReplyTurn(t) ==
    /\ turn[t] = "new"
    /\ kind[t] # "none"
    /\ \E n \in 0 .. storedSession[KeyOf[t]] : TryToAdmit(t, <<KeyOf[t], n>>)
    /\ UNCHANGED woken

\* The continuation of w is the next of key k.
IsNext(k, w) == woken[k] # <<>> /\ Head(woken[k]) = w

GoesOn(k) == woken' = [woken EXCEPT ![k] = Tail(@)]

NothingIsDue == \A k \in Keys : woken[k] = <<>>

\* The continuation of a turn that waited: it takes the id over from the
\* operation it waited for.
TurnGoesOn(t) ==
    /\ IsNext(KeyOf[t], t)
    /\ GoesOn(KeyOf[t])
    /\ TryToAdmit(t, IdOf(activeOperation[t]))

\* (mutant) A wait that ends leaves its waiter behind.
KeepsWaiter(w) == UNCHANGED waitersByKey

StopsWaiting(w) ==
    waitersByKey' = [k \in Keys |-> RemoveFirst(waitersByKey[k], w)]

\* waitTimeoutMs is over.
WaitTimesOut(t) ==
    /\ NothingIsDue
    /\ turn[t] = "waiting"
    /\ turn' = [turn EXCEPT ![t] = "skipped"]
    /\ activeOperation' = [activeOperation EXCEPT ![t] = None]
    /\ StopsWaiting(t)
    /\ UNCHANGED <<activeRunsByKey, activeSessionIdsByKey,
                   activeKeysBySessionId, waitKeysBySessionId, operation,
                   kind, upstream, run, observer, woken>>

\* The caller gives the turn up.  That ends its wait; the work of an admitted
\* turn sees the signal and decides for itself.
UpstreamAborts(t) ==
    /\ t \in Impatient \ upstream
    /\ kind[t] # "none"
    /\ turn[t] \in {"new", "waiting", "owned"}
    /\ upstream' = upstream \cup {t}
    /\ IF t \in Range(waitersByKey[KeyOf[t]])
       THEN /\ turn' = [turn EXCEPT ![t] = "skipped"]
            /\ activeOperation' = [activeOperation EXCEPT ![t] = None]
       ELSE UNCHANGED <<turn, activeOperation>>
    /\ StopsWaiting(t)
    /\ UNCHANGED <<activeRunsByKey, activeSessionIdsByKey,
                   activeKeysBySessionId, waitKeysBySessionId, operation,
                   kind, run, observer, woken>>

-----------------------------------------------------------------------------
(***************************************************************************)
(* The work of an admitted turn.  An operation that has a result ignores   *)
(* what its run says of it.                                                *)
(***************************************************************************)
SetPhase(t, next) ==
    operation' = IF operation[t].phase = "settled" THEN operation
                 ELSE [operation EXCEPT ![t].phase = next]

CompactionBegins(t) ==
    /\ work[t] = "admitted"
    /\ work' = [work EXCEPT ![t] = "compacting"]
    /\ SetPhase(t, "compacting")
    /\ UNCHANGED <<registry, admission, storedSession, rotating,
                   observer, woken>>

\* incrementCompactionCount gives the session its new id in the store.
SessionRotates(t) ==
    /\ work[t] = "compacting"
    /\ t \notin rotating
    /\ operation[t].backend = "none"
    /\ storedSession[KeyOf[t]] < RotationCap
    /\ storedSession' = [storedSession EXCEPT ![KeyOf[t]] = @ + 1]
    /\ rotating' = rotating \cup {t}
    /\ UNCHANGED <<registry, operation, admission, work, observer, woken>>

UpdateSessionId(t, next) ==
    IF operation[t].phase = "settled" \/ IdOf(t) = next
    THEN UNCHANGED <<registry, operation>>
    ELSE /\ operation' = [operation EXCEPT ![t].sessionId = next,
                                           ![t].held = @ \cup {next}]
         /\ activeSessionIdsByKey' =
               [activeSessionIdsByKey EXCEPT ![KeyOf[t]] = next]
         /\ activeKeysBySessionId' =
               [activeKeysBySessionId EXCEPT ![IdOf(t)] = None,
                                             ![next] = KeyOf[t]]
         /\ waitKeysBySessionId' =
               [waitKeysBySessionId EXCEPT ![IdOf(t)] = KeyOf[t],
                                           ![next] = KeyOf[t]]
         /\ UNCHANGED <<activeRunsByKey, waitersByKey>>

RunFollowsRotation(t) ==
    LET next == <<KeyOf[t], storedSession[KeyOf[t]]>>
    IN  /\ t \in rotating
        /\ rotating' = rotating \ {t}
        /\ UpdateSessionId(t, next)
        /\ UNCHANGED <<admission, work, storedSession, observer, woken>>

RunBegins(t) ==
    /\ work[t] \in {"admitted", "compacting"}
    /\ t \notin rotating
    /\ operation[t].backend = "none"
    /\ work' = [work EXCEPT ![t] = "running"]
    /\ SetPhase(t, "running")
    /\ UNCHANGED <<registry, admission, storedSession, rotating,
                   observer, woken>>

\* (mutant) A backend is attached whatever became of the operation.
AttachToAny(t) == [operation EXCEPT ![t].backend = "live"]

Attached(t) ==
    [operation EXCEPT ![t].backend =
        IF operation[t].phase = "settled" \/ t \in upstream
        THEN "cancelled" ELSE "live"]

\* An attempt of the run hands its cancel handle over.
AttachBackend(t) ==
    /\ work[t] \in {"compacting", "running"}
    /\ t \notin rotating
    /\ operation[t].backend = "none"
    /\ operation' = Attached(t)
    /\ UNCHANGED <<registry, admission, run, observer, woken>>

\* The attempt is over.
DetachBackend(t) ==
    /\ operation[t].backend # "none"
    /\ operation' = [operation EXCEPT ![t].backend = "none"]
    /\ UNCHANGED <<registry, admission, run, observer, woken>>

\* resetReplyRunSession, after a conflict of roles in the transcript.
SessionIsReset(t) ==
    /\ work[t] = "running"
    /\ operation[t].backend = "none"
    /\ storedSession[KeyOf[t]] < RotationCap
    /\ storedSession' = [storedSession EXCEPT ![KeyOf[t]] = @ + 1]
    /\ UNCHANGED <<registry, operation, admission, work, rotating, observer,
                   woken>>

\* complete or fail: the result, if there is none, and the end of its hold.
Settled(t) ==
    [operation EXCEPT ![t].phase = "settled", ![t].stateCleared = TRUE,
                      ![t].held = {}]

\* The end of the run.
TurnEnds(t) ==
    /\ work[t] \in {"admitted", "compacting", "running"}
    /\ t \notin rotating
    /\ operation[t].backend = "none"
    /\ work' = [work EXCEPT ![t] = "done"]
    /\ operation' = Settled(t)
    /\ ClearState({t})
    /\ UNCHANGED <<admission, storedSession, rotating, observer>>

-----------------------------------------------------------------------------
(***************************************************************************)
(* Aborts and calls by session id.                                         *)
(***************************************************************************)

\* abortWithReason and what abortByUser and abortForRestart add to it: an
\* operation whose work has not begun is cleared at once.
Aborted(ts) ==
    [t \in Turns |->
        IF t \notin ts THEN operation[t]
        ELSE IF operation[t].phase = "queued" THEN Settled(t)[t]
        ELSE [operation[t] EXCEPT
                !.phase = "settled",
                !.backend = IF @ = "none" THEN @ ELSE "cancelled"]]

NotBegun(ts) == { t \in ts : operation[t].phase = "queued" }

Active == { activeRunsByKey[k] : k \in Keys } \ {None}

\* abort: the user's /stop.
UserAborts(k) ==
    /\ ~IsIdle(k)
    /\ operation' = Aborted({activeRunsByKey[k]})
    /\ ClearState(NotBegun({activeRunsByKey[k]}))
    /\ UNCHANGED <<admission, run, observer>>

\* abortActiveReplyRuns, in its mode "all" or "compacting".
RestartAborts ==
    /\ \E ts \in { Active,
                   { t \in Active : operation[t].phase = "compacting" } } :
          /\ ts # {}
          /\ operation' = Aborted(ts)
          /\ ClearState(NotBegun(ts))
    /\ UNCHANGED <<admission, run, observer>>

\* The operation that works, or has worked, under id and is not over.
Holder(id) ==
    LET holders == { t \in Turns : /\ ~operation[t].stateCleared
                                   /\ id \in operation[t].held }
    IN  IF holders = {} THEN None ELSE CHOOSE t \in holders : TRUE

\* waitForReplyRunEndBySessionId, after which the caller is sure that the
\* run is over.
WaitForReplyRunEnd(o, id) ==
    LET key == ResolveReplyRunWaitKey(id)
        waits == key # None /\ ~IsIdle(key)
    IN  /\ observer' = [observer EXCEPT ![o] =
              [stage |-> IF waits THEN "waiting" ELSE "ended",
               drains |-> FALSE, id |-> id, target |-> Holder(id)]]
        /\ IF waits
           THEN waitersByKey' = [waitersByKey EXCEPT ![key] = Append(@, o)]
           ELSE UNCHANGED waitersByKey

ObserverWaits(o) ==
    /\ observer[o].stage = "idle"
    /\ \E k \in Keys, n \in 0 .. RotationCap : WaitForReplyRunEnd(o, <<k, n>>)
    /\ UNCHANGED <<activeRunsByKey, activeSessionIdsByKey,
                   activeKeysBySessionId, waitKeysBySessionId, operation,
                   admission, run, woken>>

\* abortAndDrainEmbeddedPiRun for a run that is not in runs.ts's own table
\* (a CLI backend, or before the first attempt): abort by the current id,
\* then wait for the end.
ObserverDrains(o) ==
    /\ observer[o].stage = "idle"
    /\ \E id \in SessionIds :
          LET t == ResolveReplyRun(id)
          IN  /\ t # None
              /\ operation' = Aborted({t})
              /\ IF operation[t].phase = "queued"
                 THEN /\ observer' = [observer EXCEPT ![o] =
                            [stage |-> "ended", drains |-> TRUE, id |-> id,
                             target |-> t]]
                      /\ ClearState({t})
                 ELSE /\ observer' = [observer EXCEPT ![o] =
                            [stage |-> "waiting", drains |-> TRUE, id |-> id,
                             target |-> t]]
                      /\ waitersByKey' =
                            [waitersByKey EXCEPT ![KeyOf[t]] = Append(@, o)]
                      /\ UNCHANGED <<activeRunsByKey, activeSessionIdsByKey,
                                     activeKeysBySessionId,
                                     waitKeysBySessionId, woken>>
    /\ UNCHANGED <<admission, run>>

ObserverIsTold(o) ==
    /\ \E k \in Keys : IsNext(k, o) /\ GoesOn(k)
    /\ observer' = [observer EXCEPT ![o].stage = "ended"]
    /\ UNCHANGED <<registry, operation, admission, run>>

\* The wait was in vain; a drain then fails what now runs under its id.
ObserverTimesOut(o) ==
    LET t == IF observer[o].drains THEN ResolveReplyRun(observer[o].id)
             ELSE None
    IN  /\ NothingIsDue
        /\ observer[o].stage = "waiting"
        /\ observer' = [observer EXCEPT ![o].stage = "timedOut"]
        /\ IF t = None
           THEN /\ StopsWaiting(o)
                /\ UNCHANGED <<activeRunsByKey, activeSessionIdsByKey,
                               activeKeysBySessionId, waitKeysBySessionId,
                               operation, woken>>
           ELSE /\ operation' = Settled(t)
                /\ ClearStateAfter({t}, o)
        /\ UNCHANGED <<admission, run>>

-----------------------------------------------------------------------------
Init ==
    /\ activeRunsByKey = [k \in Keys |-> None]
    /\ activeSessionIdsByKey = [k \in Keys |-> None]
    /\ activeKeysBySessionId = [id \in SessionIds |-> None]
    /\ waitKeysBySessionId = [id \in SessionIds |-> None]
    /\ waitersByKey = [k \in Keys |-> <<>>]
    /\ operation = [t \in Turns |-> NoOperation]
    /\ kind \in KindMixes
    /\ turn = [t \in Turns |-> "new"]
    /\ activeOperation = [t \in Turns |-> None]
    /\ upstream = {}
    /\ work = [t \in Turns |-> "none"]
    /\ storedSession = [k \in Keys |-> 0]
    /\ rotating = {}
    /\ observer = [o \in Observers |-> NotYet]
    /\ woken = [k \in Keys |-> <<>>]

Next ==
    \/ \E t \in Turns :
          \/ AdmitReplyTurn(t)   \/ TurnGoesOn(t)     \/ WaitTimesOut(t)
          \/ UpstreamAborts(t)   \/ CompactionBegins(t)
          \/ SessionRotates(t)   \/ RunFollowsRotation(t)
          \/ RunBegins(t)        \/ AttachBackend(t)  \/ DetachBackend(t)
          \/ SessionIsReset(t)   \/ TurnEnds(t)
    \/ \E k \in Keys : UserAborts(k)
    \/ RestartAborts
    \/ \E o \in Observers :
          \/ ObserverWaits(o)    \/ ObserverDrains(o)
          \/ ObserverIsTold(o)   \/ ObserverTimesOut(o)

Spec == Init /\ [][Next]_vars

-----------------------------------------------------------------------------
(***************************************************************************)
(* Properties.                                                             *)
(***************************************************************************)

\* Every variable has its type, and a waiter is noted once, under its own
\* key, while it waits.
TypeOK ==
    /\ activeRunsByKey \in [Keys -> Turns \cup {None}]
    /\ activeSessionIdsByKey \in [Keys -> SessionIds \cup {None}]
    /\ activeKeysBySessionId \in [SessionIds -> Keys \cup {None}]
    /\ waitKeysBySessionId \in [SessionIds -> Keys \cup {None}]
    /\ waitersByKey \in [Keys -> Seq(Turns \cup Observers)]
    /\ operation \in [Turns -> Operation \cup {NoOperation}]
    /\ kind \in KindMixes
    /\ turn \in [Turns -> {"new", "waiting", "owned", "skipped"}]
    /\ activeOperation \in [Turns -> Turns \cup {None}]
    /\ upstream \subseteq Turns
    /\ work \in [Turns -> {"none", "admitted", "compacting", "running", "done"}]
    /\ storedSession \in [Keys -> 0 .. RotationCap]
    /\ rotating \subseteq Turns
    /\ observer \in [Observers -> Observer \cup {NotYet}]
    /\ woken \in [Keys -> Seq(Turns \cup Observers)]
    /\ \A k \in Keys :
          /\ IsInjective(waitersByKey[k])
          /\ \A w \in Range(waitersByKey[k]) :
                IF w \in Turns THEN turn[w] = "waiting" /\ KeyOf[w] = k
                ELSE observer[w].stage = "waiting"

\* However an operation ends (completed late after an abort had cleared it,
\* cleared by force while its run goes on), its session is a lock that one
\* turn at a time holds and that is given back once: TurnLock is
\* implemented (clearState, reply-run-registry.ts:247).
LockStage ==
    [t \in Turns |-> IF turn[t] # "owned" THEN "outside"
                     ELSE IF operation[t].stateCleared THEN "released"
                     ELSE "holding"]

Lock == INSTANCE TurnLock WITH stage <- LockStage

ImplementsTurnLock == Lock!Spec

\* No two backends work for one session unless all but one are told to stop:
\* a run that was cleared by force, or aborted before it began, starts no
\* attempt of its own beside its successor's (attachBackend, line 341).
OneLiveBackend ==
    \A k \in Keys :
        Cardinality({ t \in Turns : /\ KeyOf[t] = k
                                    /\ operation[t].backend = "live" }) =< 1

\* Who waits for the end of the run behind a session id is told that it is
\* over only when it is, also if the run has taken on another id since
\* (waitForReplyRunEndBySessionId, line 544).
WaitsOutlastRotation ==
    \A o \in Observers :
        /\ observer[o].stage = "ended"
        /\ observer[o].target # None
        => operation[observer[o].target].stateCleared

\* Clearing a session by force, when an aborted run does not come to its
\* end, hits that run and never the one that has followed it under the same
\* session id (forceClearReplyRunBySessionId, line 535).
ForceClearSparesSuccessors ==
    [][\A o \in Observers :
          observer[o].stage = "waiting" /\ observer'[o].stage = "timedOut"
          => \A t \in Turns :
                operation'[t].stateCleared # operation[t].stateCleared
                => t = observer[o].target]_vars

\* Nobody waits in vain: a session with waiters is held, a turn waits for the
\* very operation that holds it (whose last id it will take over), and an
\* observer waits for the one it asked about, whichever way the runs before
\* ended (notifyReplyRunEnded, line 138; waitForIdle, line 442).
NobodyWaitsInVain ==
    \A k \in Keys : \A w \in Range(waitersByKey[k]) :
        /\ ~IsIdle(k)
        /\ w \in Turns => activeOperation[w] = activeRunsByKey[k]
        /\ w \in Observers /\ observer[w].target # None
           => observer[w].target = activeRunsByKey[k]

\* A turn that waited is admitted under the session id the run it waited for
\* ended with: the session's own, which only its runs replace.  The code does
\* not do this (reply-turn-admission.ts:66): the operation does not follow a
\* reset, nor a rotation after an abort.
AdmittedUnderFinalId ==
    [][\A t \in Turns :
          turn[t] = "waiting" /\ turn'[t] = "owned"
          => operation'[t].sessionId = <<KeyOf[t], storedSession[KeyOf[t]]>>]_vars
=============================================================================
