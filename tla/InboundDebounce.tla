--------------------------- MODULE InboundDebounce ---------------------------
(***************************************************************************)
(* Incoming messages are held back for a moment so that several of one     *)
(* sender become one turn (createInboundDebouncer in                       *)
(* src/auto-reply/inbound-debounce.ts).  Per key there is a buffer, while  *)
(* one is filling, and a chain of promises: each task of the chain begins  *)
(* when the one before it is over.  A buffer takes its place in the chain  *)
(* with its first message and begins when its timer has fired; a message   *)
(* that is not to be held back takes its place behind it and makes it go   *)
(* at once.                                                                *)
(*                                                                         *)
(* A task is named after the message that made it.  The code is one thread *)
(* and tasks begin in microtasks, each an action of its own.               *)
(***************************************************************************)
EXTENDS Integers, FiniteSets, SequencesExt

CONSTANTS Messages,
          Keys,            \* conversation and sender
          KeyOf,           \* of each message
          MaxTrackedKeys,  \* beyond it, new keys are not buffered
          Cancellable,     \* the keys that cancelKey is called for
          None

ASSUME MessagesAssumption ==
    /\ KeyOf \in [Messages -> Keys]
    /\ Cancellable \subseteq Keys
    /\ None \notin Messages

ASSUME CapAssumption == MaxTrackedKeys \in Nat \ {0}

VARIABLES
    serializeImmediate,  \* the channel's option
    arrived,     \* history: the messages in the order of their arrival
    buffers,     \* per key, the task of its filling buffer
    keyChains,   \* per key, the task at the end of its chain
    task,        \* per message, the task it made
    flushFirst,  \* per message, the buffer whose flush it waits for to begin
    cancelled    \* history: the messages handed to onCancel

vars == <<serializeImmediate, arrived, buffers, keyChains, task, flushFirst,
          cancelled>>

-----------------------------------------------------------------------------
Stages == {"none", "chained", "running", "over"}

\* ready is the promise a reserved place in the chain waits for.
Task == [stage : Stages, items : Seq(Messages),
         previous : Messages \cup {None}, ready : BOOLEAN,
         inChain : BOOLEAN]

NoTask == [stage |-> "none", items |-> <<>>, previous |-> None,
           ready |-> FALSE, inChain |-> FALSE]

IsOver(t) == IF t = None THEN TRUE ELSE task[t].stage = "over"

\* (mutant) A place of its own beside the chain.
BesideTheChain(t, ready) ==
    [stage |-> "chained", items |-> <<t>>, previous |-> None, ready |-> ready,
     inChain |-> TRUE]

Chained(t, ready) ==
    [stage |-> "chained", items |-> <<t>>, previous |-> keyChains[KeyOf[t]],
     ready |-> ready, inChain |-> TRUE]

\* runKeyTaskNow, or no more than runFlush.
RunningAtOnce(t) ==
    [stage |-> "running", items |-> <<t>>, previous |-> None, ready |-> TRUE,
     inChain |-> serializeImmediate]

TakesPlaceInChain(t) == keyChains' = [keyChains EXCEPT ![KeyOf[t]] = t]

TrackedKeys == { k \in Keys : buffers[k] # None \/ keyChains[k] # None }

CanTrackKey(k) ==
    k \in TrackedKeys \/ Cardinality(TrackedKeys) < MaxTrackedKeys

\* A filling buffer goes first: the message reserves its place and, once the
\* buffer is flushed, releases it.
FlushesBufferFirst(t) ==
    LET b == buffers[KeyOf[t]]
    IN  /\ task' = [task EXCEPT ![t] = Chained(t, FALSE), ![b].ready = TRUE]
        /\ TakesPlaceInChain(t)
        /\ buffers' = [buffers EXCEPT ![KeyOf[t]] = None]
        /\ flushFirst' = [flushFirst EXCEPT ![t] = b]

WaitsItsTurn(t) ==
    /\ task' = [task EXCEPT ![t] = Chained(t, TRUE)]
    /\ TakesPlaceInChain(t)
    /\ UNCHANGED <<buffers, flushFirst>>

RunsAtOnce(t) ==
    /\ task' = [task EXCEPT ![t] = RunningAtOnce(t)]
    /\ IF serializeImmediate THEN TakesPlaceInChain(t) ELSE UNCHANGED keyChains
    /\ UNCHANGED <<buffers, flushFirst>>

JoinsBuffer(t) ==
    /\ task' = [task EXCEPT ![buffers[KeyOf[t]]].items = Append(@, t)]
    /\ UNCHANGED <<buffers, keyChains, flushFirst>>

OpensBuffer(t) ==
    /\ task' = [task EXCEPT ![t] = Chained(t, FALSE)]
    /\ TakesPlaceInChain(t)
    /\ buffers' = [buffers EXCEPT ![KeyOf[t]] = t]
    /\ UNCHANGED flushFirst

\* A message that is not held back.
EnqueueImmediate(t) ==
    IF buffers[KeyOf[t]] # None THEN FlushesBufferFirst(t)
    ELSE IF keyChains[KeyOf[t]] # None THEN WaitsItsTurn(t)
    ELSE RunsAtOnce(t)

\* A message that is held back.
EnqueueDebounced(t) ==
    IF buffers[KeyOf[t]] # None THEN JoinsBuffer(t)
    ELSE IF CanTrackKey(KeyOf[t]) THEN OpensBuffer(t)
    ELSE WaitsItsTurn(t)

Enqueue(t) ==
    /\ t \notin Range(arrived)
    /\ arrived' = Append(arrived, t)
    /\ EnqueueImmediate(t) \/ EnqueueDebounced(t)
    /\ UNCHANGED <<serializeImmediate, cancelled>>

\* (mutant) The flushed buffer goes on filling.
FlushBufferInPlace(k) ==
    /\ buffers[k] # None
    /\ ~task[buffers[k]].ready
    /\ task' = [task EXCEPT ![buffers[k]].ready = TRUE]
    /\ UNCHANGED <<serializeImmediate, arrived, buffers, keyChains, flushFirst,
                   cancelled>>

\* flushBuffer, called by the buffer's timer or by flushKey.
FlushBuffer(k) ==
    /\ buffers[k] # None
    /\ buffers' = [buffers EXCEPT ![k] = None]
    /\ task' = [task EXCEPT ![buffers[k]].ready = TRUE]
    /\ UNCHANGED <<serializeImmediate, arrived, keyChains, flushFirst,
                   cancelled>>

\* (mutant) The place in the chain is not given up.
CancelKeyHoldingPlace(k) ==
    /\ k \in Cancellable
    /\ buffers[k] # None
    /\ buffers' = [buffers EXCEPT ![k] = None]
    /\ task' = [task EXCEPT ![buffers[k]].items = <<>>]
    /\ cancelled' = cancelled \cup Range(task[buffers[k]].items)
    /\ UNCHANGED <<serializeImmediate, arrived, keyChains, flushFirst>>

CancelKey(k) ==
    /\ k \in Cancellable
    /\ buffers[k] # None
    /\ buffers' = [buffers EXCEPT ![k] = None]
    /\ task' = [task EXCEPT ![buffers[k]].items = <<>>,
                            ![buffers[k]].ready = TRUE]
    /\ cancelled' = cancelled \cup Range(task[buffers[k]].items)
    /\ UNCHANGED <<serializeImmediate, arrived, keyChains, flushFirst>>

\* The immediate message goes on when the flush it waited for is over.
ReservedTaskIsReleased(t) ==
    /\ flushFirst[t] # None
    /\ IsOver(flushFirst[t])
    /\ flushFirst' = [flushFirst EXCEPT ![t] = None]
    /\ task' = [task EXCEPT ![t].ready = TRUE]
    /\ UNCHANGED <<serializeImmediate, arrived, buffers, keyChains, cancelled>>

\* (mutant) Whatever is at the end of the chain is forgotten.
ForgetChain(t) == keyChains' = [keyChains EXCEPT ![KeyOf[t]] = None]

Cleanup(t) ==
    keyChains' = [keyChains EXCEPT ![KeyOf[t]] = IF @ = t THEN None ELSE @]

\* A buffer whose messages were cancelled is over at once.
TaskBegins(t) ==
    /\ task[t].stage = "chained"
    /\ task[t].ready
    /\ IsOver(task[t].previous)
    /\ IF task[t].items = <<>>
       THEN /\ task' = [task EXCEPT ![t].stage = "over"]
            /\ Cleanup(t)
       ELSE /\ task' = [task EXCEPT ![t].stage = "running"]
            /\ UNCHANGED keyChains
    /\ UNCHANGED <<serializeImmediate, arrived, buffers, flushFirst, cancelled>>

\* onFlush has settled; its failure is reported and goes no further.
FlushEnds(t) ==
    /\ task[t].stage = "running"
    /\ task' = [task EXCEPT ![t].stage = "over"]
    /\ Cleanup(t)
    /\ UNCHANGED <<serializeImmediate, arrived, buffers, flushFirst, cancelled>>

-----------------------------------------------------------------------------
Init ==
    /\ serializeImmediate \in BOOLEAN
    /\ arrived = <<>>
    /\ buffers = [k \in Keys |-> None]
    /\ keyChains = [k \in Keys |-> None]
    /\ task = [t \in Messages |-> NoTask]
    /\ flushFirst = [t \in Messages |-> None]
    /\ cancelled = {}

Next ==
    \/ \E t \in Messages : \/ Enqueue(t)    \/ ReservedTaskIsReleased(t)
                           \/ TaskBegins(t) \/ FlushEnds(t)
    \/ \E k \in Keys : FlushBuffer(k) \/ CancelKey(k)

Spec == Init /\ [][Next]_vars

\* Timers fire, microtasks run, and onFlush settles: it hands the batch to a
\* turn with time limits of its own.
Fairness ==
    /\ \A k \in Keys : WF_vars(FlushBuffer(k))
    /\ \A t \in Messages : /\ WF_vars(ReservedTaskIsReleased(t))
                           /\ WF_vars(TaskBegins(t))
                           /\ WF_vars(FlushEnds(t))

FairSpec == Spec /\ Fairness

-----------------------------------------------------------------------------
(***************************************************************************)
(* Properties.                                                             *)
(***************************************************************************)

\* Every variable has its type; a buffer is the filling one of its own key.
TypeOK ==
    /\ serializeImmediate \in BOOLEAN
    /\ arrived \in Seq(Messages)
    /\ buffers \in [Keys -> Messages \cup {None}]
    /\ keyChains \in [Keys -> Messages \cup {None}]
    /\ task \in [Messages -> Task]
    /\ flushFirst \in [Messages -> Messages \cup {None}]
    /\ cancelled \subseteq Messages
    /\ \A k \in Keys : buffers[k] # None => KeyOf[buffers[k]] = k

Before(m, n) ==
    \E i, j \in DOMAIN arrived : i < j /\ arrived[i] = m /\ arrived[j] = n

Begun(m) ==
    \E t \in Messages : /\ task[t].stage \in {"running", "over"}
                        /\ m \in Range(task[t].items)

\* Messages of one conversation are handed on in the order of their arrival,
\* whatever mixture of buffered, immediate and overflowing ones they are and
\* whenever timers fire (enqueue, inbound-debounce.ts:215).
HandedOnInOrder ==
    /\ \A m, n \in Messages :
          /\ Before(m, n)
          /\ KeyOf[m] = KeyOf[n]
          /\ Begun(n)
          => Begun(m) \/ m \in cancelled
    /\ \A t \in Messages : \A i, j \in DOMAIN task[t].items :
          i < j => Before(task[t].items[i], task[t].items[j])

\* A message is in one batch or was cancelled, and never both or twice, and it
\* joins no batch that is on its way: not between the flush of a buffer and
\* its turn in the chain, nor when the buffer is cancelled (flushBuffer and
\* cancelKey, lines 152 and 174).
HandedOnOnce ==
    /\ \A m \in Range(arrived) :
          Cardinality({ t \in Messages : m \in Range(task[t].items) })
          = IF m \in cancelled THEN 0 ELSE 1
    /\ \A k \in Keys : buffers[k] # None => ~task[buffers[k]].ready

\* With serializeImmediate the batches of a conversation do not overlap;
\* without it only a message that found nothing before it may overlap with
\* others (runKeyTaskNow and enqueueKeyTask, lines 86 and 100).
FlushesDoNotOverlap ==
    \A t, u \in Messages :
        /\ t # u
        /\ KeyOf[t] = KeyOf[u]
        /\ task[t].stage = "running"
        /\ task[u].stage = "running"
        => ~task[t].inChain \/ ~task[u].inChain

\* Every message is handed on, to the end, or cancelled, whoever waits for
\* whom: a place reserved in a chain is always released in the end.
EveryMessageIsHandled ==
    \A m \in Messages :
        m \in Range(arrived)
        ~> \/ m \in cancelled
           \/ \E t \in Messages : /\ m \in Range(task[t].items)
                                  /\ task[t].stage = "over"
=============================================================================
