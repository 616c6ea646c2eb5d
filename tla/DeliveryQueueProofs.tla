-------------------------- MODULE DeliveryQueueProofs --------------------------
(***************************************************************************)
(* What the write-ahead queue of outbound messages keeps, for any          *)
(* deliveries, workers, outcomes and bounds: claims are exclusive, nothing *)
(* queued is lost, required sends are marked before they reach the         *)
(* platform and are not replayed on a guess, replays are bounded, what has *)
(* left the queue stays out of it, and nobody sees a message twice.        *)
(***************************************************************************)
EXTENDS DeliveryQueue, TLAPS

States == {"none", "send_attempt_started", "unknown_after_send"}

\* A worker in these states has claimed an entry.
AtWork == {"rereading", "reconciling", "sending", "acking", "failing",
           "failingWrite", "moving", "pruning"}

\* An actor in these states has read a file and will write it back.
WriteStates == {"markingWrite", "returnedWrite", "failingWrite"}

PcTyped ==
    /\ pc \in [Actors -> SenderStates \cup WorkerStates]
    /\ \A d \in Deliveries : pc[d] \in SenderStates
    /\ \A w \in Workers : pc[w] \in WorkerStates

WritersHoldAFile ==
    \A a \in Actors : pc[a] \in WriteStates => entryRead[a] # NoEntry

WorkersKnowTheirEntry ==
    \A w \in Workers : pc[w] \in AtWork => current[w] \in Deliveries

TypeInv == TypeOK /\ WritersHoldAFile /\ WorkersKnowTheirEntry

\* What actor a may do, but for the writes of deferRemainingEntriesForBudget,
\* which touch files of others.
Acts(a) ==
    \/ AckDelivery(a) \/ FailDeliveryReads(a) \/ FailDeliveryWrites(a)
    \/ a \in Deliveries /\ EnqueueDelivery(a)
    \/ /\ a \in Live
       /\ \/ ClaimLive(a) \/ Render(a)
          \/ MarkStartedReads(a) \/ MarkStartedWrites(a)
          \/ MarkUnknownReads(a) \/ MarkUnknownWrites(a)
          \/ \E o \in Outcomes : SendLive(a, o)
    \/ a \in Notices /\ \E o \in Outcomes : SendNotice(a, o)
    \/ /\ a \in Workers
       /\ \/ LoadPendingDeliveries(a) \/ RereadAfterClaim(a) \/ Reconcile(a)
          \/ MoveToFailed(a) \/ EndOfScan(a)
          \/ \E d \in Deliveries : ClaimRecoveryEntry(a, d)
          \/ \E o \in Outcomes : Replay(a, o)
    \/ /\ a \in Recoveries
       /\ \/ BudgetExceeded(a)
          \/ \E d \in Deliveries : DeferReads(a, d)

-----------------------------------------------------------------------------
(***************************************************************************)
(* The helpers.                                                            *)
(***************************************************************************)

\* Actors have one role each.
LEMMA ActorsAreApart ==
    /\ \A w \in Workers : w \notin Deliveries /\ w \in Actors
    /\ \A d \in Deliveries : d \notin Workers /\ d \in Actors
    /\ \A a \in Actors : a \in Workers \/ a \in Deliveries
    /\ \A r \in Recoveries : r \in Workers
    /\ Live \subseteq Deliveries /\ Notices \subseteq Deliveries
    /\ \A d \in Deliveries : d \in Live <=> d \notin Notices
BY WorkersAssumption DEF Workers, Actors, Live, Notices

\* A move to a state of its own role keeps the actors' states typed.
LEMMA GotoIsTyped ==
    ASSUME PcTyped, NEW a \in Actors, NEW l,
           a \in Deliveries => l \in SenderStates,
           a \in Workers => l \in WorkerStates,
           Goto(a, l)
    PROVE  /\ PcTyped'
           /\ pc'[a] = l
           /\ \A b \in Actors : b # a => pc'[b] = pc[b]
BY ActorsAreApart DEF PcTyped, Goto

\* A file is a queued delivery, or there is none.
LEMMA FilesAreTyped ==
    /\ NoEntry \in Files
    /\ NoEntry.recoveryState = "none"
    /\ [retryCount |-> 0, recoveryState |-> "none"] \in QueuedDelivery
    /\ QueuedDelivery \subseteq Files
    /\ \A e \in Files : e # NoEntry <=> e \in QueuedDelivery
    /\ \A e \in QueuedDelivery :
          e.retryCount \in Nat /\ e.recoveryState \in States
BY DEF Files, NoEntry, QueuedDelivery, States

\* failDelivery's update makes a queued delivery of any file it is given.
LEMMA RetriesAreTyped ==
    ASSUME NEW e \in Files
    PROVE  /\ OneMoreRetry(e) \in QueuedDelivery
           /\ OneMoreRetry(e).retryCount = e.retryCount + 1
           /\ OneMoreRetry(e).recoveryState = e.recoveryState
BY DEF Files, NoEntry, QueuedDelivery, OneMoreRetry

\* The markers' updates change the state and nothing else.
LEMMA StatesAreTyped ==
    ASSUME NEW e \in QueuedDelivery, NEW s \in States
    PROVE  /\ WithState(e, s) \in QueuedDelivery
           /\ WithState(e, s).retryCount = e.retryCount
           /\ WithState(e, s).recoveryState = s
BY DEF QueuedDelivery, WithState, States

\* What an actor works on is a delivery.
LEMMA OwnEntry ==
    ASSUME TypeInv, NEW a \in Actors, a \in Workers => pc[a] \in AtWork
    PROVE  /\ Of(a) \in Deliveries
           /\ a \in Workers => Of(a) = current[a]
           /\ a \notin Workers => Of(a) = a
BY ActorsAreApart DEF TypeInv, WorkersKnowTheirEntry, Of

\* What has appeared stays visible, and a call shows its own message only.
LEMMA AppearingIsTyped ==
    ASSUME TypeOK, NEW d \in Deliveries, Appears(d) \/ UNCHANGED visible
    PROVE  /\ visible' \in [Deliveries -> 0 .. 2]
           /\ \A e \in Deliveries : visible[e] > 0 => visible'[e] > 0
           /\ \A e \in Deliveries : e # d => visible'[e] = visible[e]
           /\ Appears(d) => visible'[d] > 0
<1>1. CASE Appears(d)
  <2>1. \A v \in 0 .. 2 : (IF v = 2 THEN 2 ELSE v + 1) \in 1 .. 2
      OBVIOUS
  <2>. QED
      BY <1>1, <2>1 DEF TypeOK, Appears
<1>2. CASE ~Appears(d)
    BY <1>2 DEF TypeOK
<1>. QED
    BY <1>1, <1>2

\* The outcomes of a platform call, for the CASE over them.
LEMMA OutcomesAreKnown ==
    ASSUME NEW o \in Outcomes
    PROVE  o \in {"sent", "rejected", "permanent", "errorAfterSend", "nothing",
                  "aborted"}
BY OutcomesAssumption

\* A step is one of an actor, a deferred write or a crash.
LEMMA NextCases ==
    ASSUME Next
    PROVE  \/ \E a \in Actors : Acts(a)
           \/ \E r \in Recoveries, d \in Deliveries : DeferWrites(r, d)
           \/ Crash
<1>1. ASSUME NEW d \in Deliveries, SenderStep(d)
      PROVE  d \in Actors /\ Acts(d)
    BY <1>1, ActorsAreApart, Zenon DEF SenderStep, Acts
<1>2. ASSUME NEW w \in Workers, WorkerStep(w)
      PROVE  \/ w \in Actors /\ Acts(w)
             \/ \E r \in Recoveries, d \in Deliveries : DeferWrites(r, d)
    BY <1>2, ActorsAreApart, Zenon DEF WorkerStep, Acts
<1>3. ASSUME NEW w \in Workers, LoadPendingDeliveries(w)
      PROVE  w \in Actors /\ Acts(w)
    BY <1>3, ActorsAreApart, Zenon DEF Acts
<1>4. ASSUME NEW d \in Deliveries, EnqueueDelivery(d)
      PROVE  d \in Actors /\ Acts(d)
    BY <1>4, ActorsAreApart, Zenon DEF Acts
<1>. QED
    BY <1>1, <1>2, <1>3, <1>4, Zenon DEF Next

-----------------------------------------------------------------------------
(***************************************************************************)
(* Types.                                                                  *)
(***************************************************************************)

\* Every step of an actor keeps the types.
LEMMA ActorsKeepTypes ==
    ASSUME TypeInv, NEW a \in Actors, Acts(a)
    PROVE  TypeInv'
<1>. USE FilesAreTyped, ActorsAreApart DEF TypeInv, TypeOK
<1>1. ASSUME AckDelivery(a)
      PROVE  TypeInv'
  <2>1. PICK l \in {"scanning", "failing", "over"} :
              Goto(a, l) /\ (a \in Workers <=> l # "over")
      BY <1>1 DEF AckDelivery, Leave, Of, history, Notices
  <2>2. /\ PcTyped'
        /\ pc'[a] = l
        /\ \A b \in Actors : b # a => pc'[b] = pc[b]
      BY <1>1, <2>1, GotoIsTyped DEF PcTyped, SenderStates, WorkerStates
  <2>3. WritersHoldAFile' /\ WorkersKnowTheirEntry'
      BY <1>1, <2>1, <2>2
         DEF AckDelivery, Of, history, Notices, WritersHoldAFile,
             WorkersKnowTheirEntry, WriteStates, AtWork
  <2>. QED
      BY SMTT(30), <1>1, <2>2, <2>3
         DEF AckDelivery, Goto, Leave, Of, history, Notices, PcTyped, Live
<1>2. ASSUME FailDeliveryReads(a)
      PROVE  TypeInv'
  <2>1. PcTyped'
    <3>1. PICK l \in {"failingWrite", "scanning", "over"} :
              /\ Goto(a, l)
              /\ a \in Deliveries => l # "scanning"
              /\ a \in Workers => l # "over"
        BY <1>2 DEF FailDeliveryReads, Leave
    <3>. QED
        BY <3>1, GotoIsTyped DEF PcTyped, SenderStates, WorkerStates
  <2>2. WritersHoldAFile' /\ WorkersKnowTheirEntry'
      BY <1>2
         DEF FailDeliveryReads, Goto, Leave, Of, files, history, Notices,
             WritersHoldAFile, WorkersKnowTheirEntry, WriteStates, AtWork
  <2>3. Of(a) \in Deliveries
      BY <1>2, OwnEntry DEF FailDeliveryReads, AtWork
  <2>4. entryRead' \in [Actors -> Files]
      BY <1>2, <2>3 DEF FailDeliveryReads
  <2>5. entriesInProgress' \subseteq Deliveries
      BY <1>2 DEF FailDeliveryReads, Leave
  <2>. QED
      BY <1>2, <2>1, <2>2, <2>3, <2>4, <2>5
         DEF FailDeliveryReads, files, history, Notices, PcTyped, Live
<1>3. ASSUME FailDeliveryWrites(a)
      PROVE  TypeInv'
  <2>1. PcTyped'
      BY <1>3
         DEF FailDeliveryWrites, Leave, Of, history, Goto, Notices, PcTyped,
             SenderStates, WorkerStates
  <2>2. WritersHoldAFile' /\ WorkersKnowTheirEntry'
      BY <1>3
         DEF FailDeliveryWrites, Leave, Of, history, Goto, Notices,
             WritersHoldAFile, WorkersKnowTheirEntry, WriteStates, AtWork
  <2>3. pending' \in [Deliveries -> Files]
      BY <1>3, RetriesAreTyped DEF FailDeliveryWrites
  <2>. QED
      BY <1>3, <2>1, <2>2, <2>3
         DEF FailDeliveryWrites, Leave, history, Notices, PcTyped, Live
<1>4. ASSUME a \in Deliveries, EnqueueDelivery(a)
      PROVE  TypeInv'
  <2>1. PcTyped'
      BY <1>4
         DEF EnqueueDelivery, Goto, Live, history, Notices, PcTyped,
             SenderStates, WorkerStates
  <2>2. WritersHoldAFile' /\ WorkersKnowTheirEntry'
      BY <1>4
         DEF EnqueueDelivery, Goto, Live, history, Notices, WritersHoldAFile,
             WorkersKnowTheirEntry, WriteStates, AtWork
  <2>. QED
      BY <1>4, <2>1, <2>2
         DEF EnqueueDelivery, Goto, Live, history, Notices, PcTyped
<1>5. ASSUME a \in Live, ClaimLive(a)
      PROVE  TypeInv'
  <2>1. PcTyped'
      BY ZenonT(40), <1>5
         DEF ClaimLive, Goto, files, history, PcTyped, SenderStates,
             WorkerStates
  <2>2. WritersHoldAFile' /\ WorkersKnowTheirEntry'
      BY <1>5
         DEF ClaimLive, Goto, files, history, WritersHoldAFile,
             WorkersKnowTheirEntry, WriteStates, AtWork
  <2>. QED
      BY <1>5, <2>1, <2>2
         DEF ClaimLive, Goto, files, history, PcTyped, Live, Notices
<1>6. ASSUME a \in Live, Render(a)
      PROVE  TypeInv'
  <2>1. PcTyped'
      BY <1>6 DEF Render, Goto, files, PcTyped, SenderStates, WorkerStates
  <2>2. WritersHoldAFile' /\ WorkersKnowTheirEntry'
      BY <1>6
         DEF Render, Goto, files, WritersHoldAFile, WorkersKnowTheirEntry,
             WriteStates, AtWork
  <2>. QED
      BY <1>6, <2>1, <2>2 DEF Render, Goto, files, PcTyped, Live, Notices
<1>7. ASSUME a \in Live, MarkStartedReads(a)
      PROVE  TypeInv'
  <2>1. PcTyped'
      BY <1>7
         DEF MarkStartedReads, Goto, files, history, PcTyped, SenderStates,
             WorkerStates
  <2>2. WritersHoldAFile' /\ WorkersKnowTheirEntry'
      BY <1>7
         DEF MarkStartedReads, Goto, files, history, WritersHoldAFile,
             WorkersKnowTheirEntry, WriteStates, AtWork
  <2>. QED
      BY <1>7, <2>1, <2>2
         DEF MarkStartedReads, Goto, files, history, PcTyped, Live, Notices
<1>8. ASSUME a \in Live, MarkStartedWrites(a)
      PROVE  TypeInv'
  <2>1. PcTyped'
      BY <1>8
         DEF MarkStartedWrites, Goto, history, PcTyped, SenderStates,
             WorkerStates
  <2>2. WritersHoldAFile' /\ WorkersKnowTheirEntry'
      BY <1>8
         DEF MarkStartedWrites, Goto, history, WritersHoldAFile,
             WorkersKnowTheirEntry, WriteStates, AtWork
  <2>3. pending' \in [Deliveries -> Files]
      BY <1>8, StatesAreTyped
         DEF MarkStartedWrites, WritersHoldAFile, WriteStates, States
  <2>. QED
      BY <1>8, <2>1, <2>2, <2>3
         DEF MarkStartedWrites, history, PcTyped, Live, Notices
<1>9. ASSUME a \in Live, MarkUnknownReads(a)
      PROVE  TypeInv'
  <2>1. PICK l \in {"returnedWrite", "acking", "over"} : Goto(a, l)
      BY <1>9 DEF MarkUnknownReads, Leave, files, history, Of, Notices
  <2>2. /\ PcTyped'
        /\ pc'[a] = l
        /\ \A b \in Actors : b # a => pc'[b] = pc[b]
      BY <1>9, <2>1, GotoIsTyped DEF PcTyped, SenderStates, WorkerStates
  <2>3. WritersHoldAFile' /\ WorkersKnowTheirEntry'
      BY <1>9, <2>1, <2>2
         DEF MarkUnknownReads, Goto, Leave, files, history, Of, Notices,
             WritersHoldAFile, WorkersKnowTheirEntry, WriteStates, AtWork
  <2>. QED
      BY <1>9, <2>2, <2>3
         DEF MarkUnknownReads, Goto, Leave, files, history, Of, Notices,
             PcTyped, Live
<1>10. ASSUME a \in Live, MarkUnknownWrites(a)
      PROVE  TypeInv'
  <2>1. PcTyped'
      BY <1>10
         DEF MarkUnknownWrites, Goto, history, PcTyped, SenderStates,
             WorkerStates
  <2>2. WritersHoldAFile' /\ WorkersKnowTheirEntry'
      BY <1>10
         DEF MarkUnknownWrites, Goto, history, WritersHoldAFile,
             WorkersKnowTheirEntry, WriteStates, AtWork
  <2>3. pending' \in [Deliveries -> Files]
      BY <1>10, StatesAreTyped
         DEF MarkUnknownWrites, WritersHoldAFile, WriteStates, States
  <2>. QED
      BY <1>10, <2>1, <2>2, <2>3
         DEF MarkUnknownWrites, history, PcTyped, Live, Notices
<1>11. ASSUME a \in Live, NEW o \in Outcomes, SendLive(a, o)
      PROVE  TypeInv'
  <2>1. PICK l \in {"returned", "acking", "failing"} : Goto(a, l)
      BY <1>11, OutcomesAreKnown DEF SendLive, Appears, Live, files, Notices
  <2>2. /\ PcTyped'
        /\ pc'[a] = l
        /\ \A b \in Actors : b # a => pc'[b] = pc[b]
      BY <1>11, <2>1, GotoIsTyped DEF PcTyped, SenderStates, WorkerStates
  <2>3. WritersHoldAFile' /\ WorkersKnowTheirEntry'
      BY <1>11, <2>1, <2>2
         DEF SendLive, Appears, Live, files, Notices, WritersHoldAFile,
             WorkersKnowTheirEntry, WriteStates, AtWork
  <2>4. visible' \in [Deliveries -> 0 .. 2]
      BY <1>11, OutcomesAreKnown, AppearingIsTyped DEF SendLive
  <2>5. excused' \subseteq Deliveries /\ handedOver' \subseteq Live
      BY <1>11, OutcomesAreKnown DEF SendLive
  <2>. QED
      BY <1>11, <2>2, <2>3, <2>4, <2>5
         DEF SendLive, files, PcTyped, Live, Notices
<1>12. ASSUME a \in Notices, NEW o \in Outcomes, SendNotice(a, o)
      PROVE  TypeInv'
  <2>1. PcTyped'
      BY <1>12, OutcomesAreKnown
         DEF SendNotice, Goto, Appears, files, PcTyped, SenderStates,
             WorkerStates
  <2>2. WritersHoldAFile' /\ WorkersKnowTheirEntry'
      BY <1>12, OutcomesAreKnown
         DEF SendNotice, Goto, Appears, files, WritersHoldAFile,
             WorkersKnowTheirEntry, WriteStates, AtWork
  <2>3. visible' \in [Deliveries -> 0 .. 2]
      BY <1>12, AppearingIsTyped DEF SendNotice
  <2>. QED
      BY <1>12, <2>1, <2>2, <2>3 DEF SendNotice, files, PcTyped, Live, Notices
<1>13. ASSUME a \in Workers, LoadPendingDeliveries(a)
      PROVE  TypeInv'
  <2>1. PcTyped'
      BY <1>13
         DEF LoadPendingDeliveries, Goto, files, history, PcTyped,
             SenderStates, WorkerStates
  <2>2. WritersHoldAFile' /\ WorkersKnowTheirEntry'
      BY <1>13
         DEF LoadPendingDeliveries, Goto, files, history, WritersHoldAFile,
             WorkersKnowTheirEntry, WriteStates, AtWork
  <2>. QED
      BY <1>13, <2>1, <2>2
         DEF LoadPendingDeliveries, Goto, files, history, PcTyped, Live,
             Notices
<1>14. ASSUME a \in Workers, NEW d \in Deliveries, ClaimRecoveryEntry(a, d)
      PROVE  TypeInv'
  <2>1. PcTyped'
      BY <1>14
         DEF ClaimRecoveryEntry, Goto, files, history, PcTyped, SenderStates,
             WorkerStates
  <2>2. WritersHoldAFile' /\ WorkersKnowTheirEntry'
      BY <1>14
         DEF ClaimRecoveryEntry, Goto, files, history, WritersHoldAFile,
             WorkersKnowTheirEntry, WriteStates, AtWork
  <2>3. current' \in [Workers -> Deliveries \cup {"none"}]
      BY <1>14 DEF ClaimRecoveryEntry
  <2>4. todo' \in [Workers -> SUBSET Deliveries]
      BY <1>14 DEF ClaimRecoveryEntry
  <2>5. entriesInProgress' \subseteq Deliveries
      BY <1>14 DEF ClaimRecoveryEntry
  <2>. QED
      BY <1>14, <2>1, <2>2, <2>3, <2>4, <2>5
         DEF ClaimRecoveryEntry, files, history, PcTyped, Live, Notices
<1>15. ASSUME a \in Workers, RereadAfterClaim(a)
      PROVE  TypeInv'
  <2>1. PcTyped'
      BY ZenonT(40), <1>15
         DEF RereadAfterClaim, Goto, Leave, AbortScan, Untouched, Of, Notices,
             files, history, PcTyped, SenderStates, WorkerStates
  <2>2. WritersHoldAFile' /\ WorkersKnowTheirEntry'
      BY <1>15
         DEF RereadAfterClaim, Goto, Leave, AbortScan, Untouched, Of, Notices,
             files, history, WritersHoldAFile, WorkersKnowTheirEntry,
             WriteStates, AtWork
  <2>. QED
      BY <1>15, <2>1, <2>2
         DEF RereadAfterClaim, Goto, Leave, AbortScan, Untouched, Of, Notices,
             files, history, PcTyped, Live
<1>16. ASSUME a \in Workers, Reconcile(a)
      PROVE  TypeInv'
  <2>1. PcTyped'
      BY <1>16
         DEF Reconcile, Goto, Untouched, files, history, PcTyped, SenderStates,
             WorkerStates
  <2>2. WritersHoldAFile' /\ WorkersKnowTheirEntry'
      BY <1>16
         DEF Reconcile, Goto, Untouched, files, history, WritersHoldAFile,
             WorkersKnowTheirEntry, WriteStates, AtWork
  <2>. QED
      BY <1>16, <2>1, <2>2
         DEF Reconcile, Goto, Untouched, files, history, PcTyped, Live, Notices
<1>17. ASSUME a \in Workers, NEW o \in Outcomes, Replay(a, o)
      PROVE  TypeInv'
  <2>1. PcTyped'
      BY <1>17, OutcomesAreKnown
         DEF Replay, Goto, Appears, files, PcTyped, SenderStates, WorkerStates
  <2>2. WritersHoldAFile' /\ WorkersKnowTheirEntry'
      BY <1>17, OutcomesAreKnown
         DEF Replay, Goto, Appears, files, WritersHoldAFile,
             WorkersKnowTheirEntry, WriteStates, AtWork
  <2>3. current[a] \in Deliveries
      BY <1>17, OwnEntry DEF Replay, AtWork
  <2>4. visible' \in [Deliveries -> 0 .. 2]
      BY <1>17, <2>3, AppearingIsTyped DEF Replay
  <2>5. attempts' \in [Deliveries -> Nat]
      BY <1>17, <2>3 DEF Replay
  <2>6. excused' \subseteq Deliveries
      BY <1>17, <2>3 DEF Replay
  <2>. QED
      BY <1>17, <2>1, <2>2, <2>3, <2>4, <2>5, <2>6
         DEF Replay, files, PcTyped, Live, Notices
<1>18. ASSUME a \in Workers, MoveToFailed(a)
      PROVE  TypeInv'
  <2>1. PcTyped'
      BY ZenonT(40), <1>18
         DEF MoveToFailed, Leave, AbortScan, files, history, Goto, Of, Notices,
             PcTyped, SenderStates, WorkerStates
  <2>2. WritersHoldAFile' /\ WorkersKnowTheirEntry'
      BY <1>18
         DEF MoveToFailed, Leave, AbortScan, files, history, Goto, Of, Notices,
             WritersHoldAFile, WorkersKnowTheirEntry, WriteStates, AtWork
  <2>3. current[a] \in Deliveries
      BY <1>18, OwnEntry DEF MoveToFailed, AtWork
  <2>4. pending' \in [Deliveries -> Files] /\ failed' \subseteq Deliveries
      BY SMTT(30), <1>18, <2>3 DEF MoveToFailed, files
  <2>5. todo' \in [Workers -> SUBSET Deliveries]
      BY <1>18 DEF MoveToFailed, AbortScan
  <2>6. entriesInProgress' \subseteq Deliveries
      BY <1>18 DEF MoveToFailed, AbortScan, Leave
  <2>. QED
      BY <1>18, <2>1, <2>2, <2>3, <2>4, <2>5, <2>6
         DEF MoveToFailed, files, history, Notices, PcTyped, Live
<1>19. ASSUME a \in Workers, EndOfScan(a)
      PROVE  TypeInv'
  <2>1. PcTyped'
      BY <1>19
         DEF EndOfScan, Goto, Untouched, files, history, PcTyped, SenderStates,
             WorkerStates
  <2>2. WritersHoldAFile' /\ WorkersKnowTheirEntry'
      BY <1>19
         DEF EndOfScan, Goto, Untouched, files, history, WritersHoldAFile,
             WorkersKnowTheirEntry, WriteStates, AtWork
  <2>. QED
      BY <1>19, <2>1, <2>2
         DEF EndOfScan, Goto, Untouched, files, history, PcTyped, Live, Notices
<1>20. ASSUME a \in Recoveries, BudgetExceeded(a)
      PROVE  TypeInv'
  <2>1. PcTyped'
      BY <1>20
         DEF BudgetExceeded, Goto, Untouched, files, history, PcTyped,
             SenderStates, WorkerStates
  <2>2. WritersHoldAFile' /\ WorkersKnowTheirEntry'
      BY <1>20
         DEF BudgetExceeded, Goto, Untouched, files, history, WritersHoldAFile,
             WorkersKnowTheirEntry, WriteStates, AtWork
  <2>. QED
      BY <1>20, <2>1, <2>2
         DEF BudgetExceeded, Goto, Untouched, files, history, PcTyped, Live,
             Notices
<1>21. ASSUME a \in Recoveries, NEW d \in Deliveries, DeferReads(a, d)
      PROVE  TypeInv'
  <2>1. PcTyped'
      BY <1>21
         DEF DeferReads, files, history, PcTyped, SenderStates, WorkerStates
  <2>2. WritersHoldAFile' /\ WorkersKnowTheirEntry'
      BY <1>21
         DEF DeferReads, files, history, WritersHoldAFile,
             WorkersKnowTheirEntry, WriteStates, AtWork
  <2>3. deferring' \in [Recoveries -> [Deliveries -> Files]]
      BY <1>21 DEF DeferReads
  <2>4. todo' \in [Workers -> SUBSET Deliveries]
      BY <1>21 DEF DeferReads
  <2>. QED
      BY <1>21, <2>1, <2>2, <2>3, <2>4
         DEF DeferReads, files, history, PcTyped, Live, Notices
<1>. QED
    BY <1>1, <1>2, <1>3, <1>4, <1>5, <1>6, <1>7, <1>8, <1>9, <1>10, <1>11,
       <1>12, <1>13, <1>14, <1>15, <1>16, <1>17, <1>18, <1>19, <1>20, <1>21,
       Zenon
       DEF Acts

\* What deferRemainingEntriesForBudget writes back is a queued delivery.
LEMMA DeferredWritesKeepTypes ==
    ASSUME TypeInv, NEW r \in Recoveries, NEW d \in Deliveries,
           DeferWrites(r, d)
    PROVE  TypeInv'
<1>. USE DEF TypeInv, TypeOK, DeferWrites
<1>1. pending' \in [Deliveries -> Files]
    BY FilesAreTyped, RetriesAreTyped
<1>2. deferring' \in [Recoveries -> [Deliveries -> Files]]
    BY FilesAreTyped
<1>3. WritersHoldAFile' /\ WorkersKnowTheirEntry'
    BY DEF WritersHoldAFile, WorkersKnowTheirEntry
<1>. QED
    BY <1>1, <1>2, <1>3 DEF Live, Notices, history

\* A crash empties the memory of the process.
LEMMA CrashKeepsTypes ==
    ASSUME TypeInv, Crash
    PROVE  TypeInv'
<1>. USE FilesAreTyped, ActorsAreApart DEF TypeInv, TypeOK, Crash
<1>1. PcTyped'
    BY DEF PcTyped, SenderStates, WorkerStates
<1>2. WritersHoldAFile' /\ WorkersKnowTheirEntry'
    BY DEF WritersHoldAFile, WriteStates, WorkersKnowTheirEntry, AtWork
<1>3. /\ current' \in [Workers -> Deliveries \cup {"none"}]
      /\ todo' \in [Workers -> SUBSET Deliveries]
      /\ entryRead' \in [Actors -> Files]
      /\ deferring' \in [Recoveries -> [Deliveries -> Files]]
    OBVIOUS
<1>4. attempts' \in [Deliveries -> Nat] /\ crashes' \in Nat
    OBVIOUS
<1>. QED
    BY <1>1, <1>2, <1>3, <1>4 DEF PcTyped, files, Live, Notices

LEMMA TypeInvInit ==
    ASSUME Init
    PROVE  TypeInv
<1>. USE FilesAreTyped, ActorsAreApart DEF Init
<1>1. PcTyped
    BY DEF PcTyped, SenderStates, WorkerStates
<1>2. WritersHoldAFile /\ WorkersKnowTheirEntry
    BY DEF WritersHoldAFile, WriteStates, WorkersKnowTheirEntry, AtWork
<1>3. /\ entryRead \in [Actors -> Files]
      /\ deferring \in [Recoveries -> [Deliveries -> Files]]
      /\ pending \in [Deliveries -> Files]
    OBVIOUS
<1>4. /\ current \in [Workers -> Deliveries \cup {"none"}]
      /\ todo \in [Workers -> SUBSET Deliveries]
      /\ visible \in [Deliveries -> 0 .. 2]
      /\ attempts \in [Deliveries -> Nat]
    OBVIOUS
<1>. QED
    BY <1>1, <1>2, <1>3, <1>4 DEF TypeInv, TypeOK, PcTyped

LEMMA TypeInvStep ==
    ASSUME TypeInv, [Next]_vars
    PROVE  TypeInv'
<1>1. CASE Next
    BY <1>1, NextCases, ActorsKeepTypes, DeferredWritesKeepTypes,
       CrashKeepsTypes
<1>2. CASE UNCHANGED vars
    BY <1>2
       DEF vars, files, memory, history, TypeInv, TypeOK, WritersHoldAFile,
           WorkersKnowTheirEntry, Live, Notices
<1>. QED
    BY <1>1, <1>2

\* Every variable keeps its type, whatever crashes and failing file operations
\* come between.
THEOREM TypeCorrect == Spec => []TypeOK
<1>1. TypeInv => TypeOK
    BY DEF TypeInv
<1>. QED
    BY <1>1, TypeInvInit, TypeInvStep, PTL DEF Spec

-----------------------------------------------------------------------------
(***************************************************************************)
(* Claims.                                                                 *)
(***************************************************************************)

\* Whether actor a has a claim.
Claims(a) ==
    IF a \in Workers THEN pc[a] \in AtWork
    ELSE a \in Live /\ pc[a] \notin {"new", "enqueued", "over"}

\* A step of actor a is a step on its entry: it leaves the other actors and
\* the other entries alone.
OthersKeep(a) ==
    /\ \A b \in Actors : b # a => pc'[b] = pc[b] /\ entryRead'[b] = entryRead[b]
    /\ \A w \in Workers : w # a => current'[w] = current[w]
    /\ \A d \in Deliveries : d # Of(a) =>
         /\ pending'[d] = pending[d]
         /\ visible'[d] = visible[d]
         /\ attempts'[d] = attempts[d]
    /\ policy' = policy

\* It keeps the claim a has, or claims what nobody has, or gives its claim up.
ClaimStep(a) ==
    \/ /\ Claims(a) <=> Claims(a)'
       /\ Claims(a) => Of(a)' = Of(a)
       /\ entriesInProgress' = entriesInProgress
    \/ /\ ~Claims(a) /\ Claims(a)'
       /\ Of(a)' \notin entriesInProgress
       /\ entriesInProgress' = entriesInProgress \cup {Of(a)'}
    \/ /\ Claims(a) /\ ~Claims(a)'
       /\ entriesInProgress' = entriesInProgress \ {Of(a)}

\* Only with a claim does it change files, but for the first write of a file
\* and the senders of restart notices.
TouchesItsOwn(a) ==
    \/ Claims(a) \/ a \in Notices \/ pc[a] = "new"
    \/ UNCHANGED <<pending, visible, attempts>>

ActorStep(a) == OthersKeep(a) /\ ClaimStep(a) /\ TouchesItsOwn(a)

ClaimInv == TypeInv /\ ClaimsAreExclusive

LEMMA ClaimingMeans ==
    ASSUME TypeOK
    PROVE  Claiming = { a \in Actors : Claims(a) }
<1>1. \A w \in Workers :
         pc[w] \notin {"idle", "scanning", "deferring", "over"} <=>
             pc[w] \in AtWork
    BY DEF TypeOK, WorkerStates, AtWork
<1>. QED
    BY <1>1, ActorsAreApart DEF Claiming, Claims

LEMMA ActorsTakeActorSteps ==
    ASSUME TypeInv, NEW a \in Actors, Acts(a)
    PROVE  ActorStep(a)
<1>. USE ActorsAreApart DEF TypeInv, TypeOK, ActorStep
<1>1. ASSUME AckDelivery(a)
      PROVE  ActorStep(a)
  <2>1. OthersKeep(a)
      BY <1>1 DEF AckDelivery, Goto, Leave, Of, history, Notices, OthersKeep
  <2>2. ClaimStep(a)
      BY <1>1
         DEF AckDelivery, Goto, Leave, Of, history, Notices, ClaimStep, Claims,
             AtWork, Live
  <2>3. TouchesItsOwn(a)
      BY <1>1 DEF AckDelivery, history, TouchesItsOwn, Claims, AtWork
  <2>. QED
      BY <2>1, <2>2, <2>3
<1>2. ASSUME FailDeliveryReads(a)
      PROVE  ActorStep(a)
  <2>1. OthersKeep(a)
      BY <1>2
         DEF FailDeliveryReads, Goto, Leave, Of, files, history, Notices,
             OthersKeep
  <2>2. ClaimStep(a)
      BY <1>2
         DEF FailDeliveryReads, Goto, Leave, Of, files, history, Notices,
             ClaimStep, Claims, AtWork, Live
  <2>3. TouchesItsOwn(a)
      BY <1>2
         DEF FailDeliveryReads, files, history, TouchesItsOwn, Claims, AtWork
  <2>. QED
      BY <2>1, <2>2, <2>3
<1>3. ASSUME FailDeliveryWrites(a)
      PROVE  ActorStep(a)
  <2>1. OthersKeep(a)
      BY <1>3
         DEF FailDeliveryWrites, Leave, Of, history, Goto, Notices, OthersKeep
  <2>2. ClaimStep(a)
      BY <1>3
         DEF FailDeliveryWrites, Leave, Of, history, Goto, Notices, ClaimStep,
             Claims, AtWork, Live
  <2>3. TouchesItsOwn(a)
      BY <1>3 DEF FailDeliveryWrites, history, TouchesItsOwn, Claims, AtWork
  <2>. QED
      BY <2>1, <2>2, <2>3
<1>4. ASSUME a \in Deliveries, EnqueueDelivery(a)
      PROVE  ActorStep(a)
  <2>1. OthersKeep(a)
      BY <1>4 DEF EnqueueDelivery, Goto, Live, history, Notices, OthersKeep, Of
  <2>2. ClaimStep(a)
      BY <1>4
         DEF EnqueueDelivery, Goto, Live, history, Notices, ClaimStep, Claims,
             AtWork, Of
  <2>3. TouchesItsOwn(a)
      BY <1>4 DEF EnqueueDelivery, history, TouchesItsOwn, Claims, AtWork
  <2>. QED
      BY <2>1, <2>2, <2>3
<1>5. ASSUME a \in Live, ClaimLive(a)
      PROVE  ActorStep(a)
  <2>1. OthersKeep(a)
      BY <1>5 DEF ClaimLive, Goto, files, history, OthersKeep, Of
  <2>2. ClaimStep(a)
      BY <1>5
         DEF ClaimLive, Goto, files, history, ClaimStep, Claims, AtWork, Of,
             Live, Notices
  <2>3. TouchesItsOwn(a)
      BY <1>5 DEF ClaimLive, files, history, TouchesItsOwn, Claims, AtWork
  <2>. QED
      BY <2>1, <2>2, <2>3
<1>6. ASSUME a \in Live, Render(a)
      PROVE  ActorStep(a)
  <2>1. OthersKeep(a)
      BY <1>6 DEF Render, Goto, files, OthersKeep, Of
  <2>2. ClaimStep(a)
      BY <1>6
         DEF Render, Goto, files, ClaimStep, Claims, AtWork, Of, Live, Notices
  <2>3. TouchesItsOwn(a)
      BY <1>6 DEF Render, files, TouchesItsOwn, Claims, AtWork
  <2>. QED
      BY <2>1, <2>2, <2>3
<1>7. ASSUME a \in Live, MarkStartedReads(a)
      PROVE  ActorStep(a)
  <2>1. OthersKeep(a)
      BY <1>7 DEF MarkStartedReads, Goto, files, history, OthersKeep, Of
  <2>2. ClaimStep(a)
      BY <1>7
         DEF MarkStartedReads, Goto, files, history, ClaimStep, Claims, AtWork,
             Of, Live, Notices
  <2>3. TouchesItsOwn(a)
      BY <1>7
         DEF MarkStartedReads, files, history, TouchesItsOwn, Claims, AtWork
  <2>. QED
      BY <2>1, <2>2, <2>3
<1>8. ASSUME a \in Live, MarkStartedWrites(a)
      PROVE  ActorStep(a)
  <2>1. OthersKeep(a)
      BY <1>8 DEF MarkStartedWrites, Goto, history, OthersKeep, Of
  <2>2. ClaimStep(a)
      BY <1>8
         DEF MarkStartedWrites, Goto, history, ClaimStep, Claims, AtWork, Of,
             Live, Notices
  <2>3. TouchesItsOwn(a)
      BY <1>8 DEF MarkStartedWrites, history, TouchesItsOwn, Claims, AtWork
  <2>. QED
      BY <2>1, <2>2, <2>3
<1>9. ASSUME a \in Live, MarkUnknownReads(a)
      PROVE  ActorStep(a)
  <2>1. OthersKeep(a)
      BY <1>9
         DEF MarkUnknownReads, Goto, Leave, files, history, Of, Notices,
             OthersKeep
  <2>2. ClaimStep(a)
      BY <1>9
         DEF MarkUnknownReads, Goto, Leave, files, history, Of, Notices,
             ClaimStep, Claims, AtWork, Live
  <2>3. TouchesItsOwn(a)
      BY <1>9
         DEF MarkUnknownReads, files, history, TouchesItsOwn, Claims, AtWork
  <2>. QED
      BY <2>1, <2>2, <2>3
<1>10. ASSUME a \in Live, MarkUnknownWrites(a)
      PROVE  ActorStep(a)
  <2>1. OthersKeep(a)
      BY <1>10 DEF MarkUnknownWrites, Goto, history, OthersKeep, Of
  <2>2. ClaimStep(a)
      BY <1>10
         DEF MarkUnknownWrites, Goto, history, ClaimStep, Claims, AtWork, Of,
             Live, Notices
  <2>3. TouchesItsOwn(a)
      BY <1>10 DEF MarkUnknownWrites, history, TouchesItsOwn, Claims, AtWork
  <2>. QED
      BY <2>1, <2>2, <2>3
<1>11. ASSUME a \in Live, NEW o \in Outcomes, SendLive(a, o)
      PROVE  ActorStep(a)
  <2>1. OthersKeep(a)
      BY ZenonT(40), <1>11, OutcomesAreKnown
         DEF SendLive, Goto, Appears, Live, files, Notices, OthersKeep, Of
  <2>2. ClaimStep(a)
      BY ZenonT(40), <1>11, OutcomesAreKnown
         DEF SendLive, Goto, Live, files, Notices, ClaimStep, Claims, AtWork,
             Of
  <2>3. TouchesItsOwn(a)
      BY <1>11 DEF SendLive, files, TouchesItsOwn, Claims, AtWork
  <2>. QED
      BY <2>1, <2>2, <2>3
<1>12. ASSUME a \in Notices, NEW o \in Outcomes, SendNotice(a, o)
      PROVE  ActorStep(a)
  <2>1. OthersKeep(a)
      BY <1>12, OutcomesAreKnown
         DEF SendNotice, Goto, Appears, files, OthersKeep, Of
  <2>2. ClaimStep(a)
      BY <1>12, OutcomesAreKnown
         DEF SendNotice, Goto, files, ClaimStep, Claims, AtWork, Of, Live,
             Notices
  <2>3. TouchesItsOwn(a)
      BY <1>12 DEF SendNotice, files, TouchesItsOwn, Claims, AtWork
  <2>. QED
      BY <2>1, <2>2, <2>3
<1>13. ASSUME a \in Workers, LoadPendingDeliveries(a)
      PROVE  ActorStep(a)
  <2>1. OthersKeep(a)
      BY <1>13 DEF LoadPendingDeliveries, Goto, files, history, OthersKeep, Of
  <2>2. ClaimStep(a)
      BY <1>13
         DEF LoadPendingDeliveries, Goto, files, history, ClaimStep, Claims,
             AtWork, Of, Live, Notices
  <2>3. TouchesItsOwn(a)
      BY <1>13
         DEF LoadPendingDeliveries, files, history, TouchesItsOwn, Claims,
             AtWork
  <2>. QED
      BY <2>1, <2>2, <2>3
<1>14. ASSUME a \in Workers, NEW d \in Deliveries, ClaimRecoveryEntry(a, d)
      PROVE  ActorStep(a)
  <2>1. OthersKeep(a)
      BY <1>14 DEF ClaimRecoveryEntry, Goto, files, history, OthersKeep, Of
  <2>2. ClaimStep(a)
      BY <1>14
         DEF ClaimRecoveryEntry, Goto, files, history, ClaimStep, Claims,
             AtWork, Of, Live, Notices
  <2>3. TouchesItsOwn(a)
      BY <1>14
         DEF ClaimRecoveryEntry, files, history, TouchesItsOwn, Claims, AtWork
  <2>. QED
      BY <2>1, <2>2, <2>3
<1>15. ASSUME a \in Workers, RereadAfterClaim(a)
      PROVE  ActorStep(a)
  <2>1. OthersKeep(a)
      BY <1>15
         DEF RereadAfterClaim, Goto, Leave, AbortScan, Untouched, Of, Notices,
             files, history, OthersKeep
  <2>2. ClaimStep(a)
      BY <1>15
         DEF RereadAfterClaim, Goto, Leave, AbortScan, Untouched, Of, Notices,
             files, history, ClaimStep, Claims, AtWork, Live
  <2>3. TouchesItsOwn(a)
      BY <1>15
         DEF RereadAfterClaim, files, history, Untouched, TouchesItsOwn,
             Claims, AtWork
  <2>. QED
      BY <2>1, <2>2, <2>3
<1>16. ASSUME a \in Workers, Reconcile(a)
      PROVE  ActorStep(a)
  <2>1. OthersKeep(a)
      BY <1>16 DEF Reconcile, Goto, Untouched, files, history, OthersKeep, Of
  <2>2. ClaimStep(a)
      BY <1>16
         DEF Reconcile, Goto, Untouched, files, history, ClaimStep, Claims,
             AtWork, Of, Live, Notices
  <2>3. TouchesItsOwn(a)
      BY <1>16
         DEF Reconcile, files, history, Untouched, TouchesItsOwn, Claims,
             AtWork
  <2>. QED
      BY <2>1, <2>2, <2>3
<1>17. ASSUME a \in Workers, NEW o \in Outcomes, Replay(a, o)
      PROVE  ActorStep(a)
  <2>1. OthersKeep(a)
      BY <1>17, OutcomesAreKnown
         DEF Replay, Goto, Appears, files, OthersKeep, Of
  <2>2. ClaimStep(a)
      BY <1>17, OutcomesAreKnown
         DEF Replay, Goto, files, ClaimStep, Claims, AtWork, Of, Live, Notices
  <2>3. TouchesItsOwn(a)
      BY <1>17 DEF Replay, files, TouchesItsOwn, Claims, AtWork
  <2>. QED
      BY <2>1, <2>2, <2>3
<1>18. ASSUME a \in Workers, MoveToFailed(a)
      PROVE  ActorStep(a)
  <2>1. OthersKeep(a)
      BY <1>18
         DEF MoveToFailed, Leave, AbortScan, files, history, Goto, Of, Notices,
             OthersKeep
  <2>2. ClaimStep(a)
      BY <1>18
         DEF MoveToFailed, Leave, AbortScan, files, history, Goto, Of, Notices,
             ClaimStep, Claims, AtWork, Live
  <2>3. TouchesItsOwn(a)
      BY <1>18 DEF MoveToFailed, files, history, TouchesItsOwn, Claims, AtWork
  <2>. QED
      BY <2>1, <2>2, <2>3
<1>19. ASSUME a \in Workers, EndOfScan(a)
      PROVE  ActorStep(a)
  <2>1. OthersKeep(a)
      BY <1>19 DEF EndOfScan, Goto, Untouched, files, history, OthersKeep, Of
  <2>2. ClaimStep(a)
      BY <1>19
         DEF EndOfScan, Goto, Untouched, files, history, ClaimStep, Claims,
             AtWork, Of, Live, Notices
  <2>3. TouchesItsOwn(a)
      BY <1>19
         DEF EndOfScan, files, history, Untouched, TouchesItsOwn, Claims,
             AtWork
  <2>. QED
      BY <2>1, <2>2, <2>3
<1>20. ASSUME a \in Recoveries, BudgetExceeded(a)
      PROVE  ActorStep(a)
  <2>1. OthersKeep(a)
      BY <1>20
         DEF BudgetExceeded, Goto, Untouched, files, history, OthersKeep, Of
  <2>2. ClaimStep(a)
      BY <1>20
         DEF BudgetExceeded, Goto, Untouched, files, history, ClaimStep,
             Claims, AtWork, Of, Live, Notices
  <2>3. TouchesItsOwn(a)
      BY <1>20
         DEF BudgetExceeded, files, history, Untouched, TouchesItsOwn, Claims,
             AtWork
  <2>. QED
      BY <2>1, <2>2, <2>3
<1>21. ASSUME a \in Recoveries, NEW d \in Deliveries, DeferReads(a, d)
      PROVE  ActorStep(a)
  <2>1. OthersKeep(a)
      BY <1>21 DEF DeferReads, files, history, OthersKeep, Of
  <2>2. ClaimStep(a)
      BY <1>21
         DEF DeferReads, files, history, ClaimStep, Claims, AtWork, Of, Live,
             Notices
  <2>3. TouchesItsOwn(a)
      BY <1>21 DEF DeferReads, files, history, TouchesItsOwn, Claims, AtWork
  <2>. QED
      BY <2>1, <2>2, <2>3
<1>. QED
    BY <1>1, <1>2, <1>3, <1>4, <1>5, <1>6, <1>7, <1>8, <1>9, <1>10, <1>11,
       <1>12, <1>13, <1>14, <1>15, <1>16, <1>17, <1>18, <1>19, <1>20, <1>21,
       Zenon
       DEF Acts

\* Whoever has a claim keeps it, and its entry, through a step of another.
LEMMA ClaimsAreKept ==
    ASSUME TypeInv, TypeOK', NEW a \in Actors, ActorStep(a)
    PROVE  \A b \in Actors : b # a =>
              /\ Claims(b)' <=> Claims(b)
              /\ Of(b)' = Of(b)
BY ActorsAreApart DEF ActorStep, OthersKeep, Claims, Of, Live, Notices

LEMMA ClaimInvStep ==
    ASSUME ClaimInv, [Next]_vars
    PROVE  ClaimInv'
<1>1. TypeInv /\ TypeInv' /\ TypeOK /\ TypeOK'
    BY TypeInvStep DEF ClaimInv, TypeInv
<1>2. Claiming = { a \in Actors : Claims(a) }
    BY <1>1, ClaimingMeans
<1>3. Claiming' = { a \in Actors : Claims(a)' }
  <2>1. \A w \in Workers :
           pc'[w] \notin {"idle", "scanning", "deferring", "over"} <=>
               pc'[w] \in AtWork
      BY <1>1 DEF TypeOK, WorkerStates, AtWork
  <2>. QED
      BY <2>1, ActorsAreApart DEF Claiming, Claims, Live, Notices
<1>4. ASSUME NEW a \in Actors, Acts(a)
      PROVE  ClaimInv'
  <2>1. ActorStep(a)
      BY <1>1, <1>4, ActorsTakeActorSteps
  <2>2. \A b \in Actors : b # a =>
           /\ Claims(b)' <=> Claims(b)
           /\ Of(b)' = Of(b)
      BY <1>1, <2>1, ClaimsAreKept
  <2>3. ClaimStep(a)
      BY <2>1 DEF ActorStep
  <2>4. ClaimsAreExclusive'
      BY <1>2, <1>3, <2>2, <2>3 DEF ClaimInv, ClaimsAreExclusive, ClaimStep
  <2>. QED
      BY <1>1, <2>4 DEF ClaimInv
<1>5. ASSUME pc' = pc, current' = current, policy' = policy,
             entriesInProgress' = entriesInProgress
      PROVE  ClaimInv'
    BY <1>1, <1>5 DEF ClaimInv, ClaimsAreExclusive, Claiming, Of, Live, Notices
<1>6. CASE Crash
  <2>1. \A a \in Actors : ~Claims(a)'
      BY <1>1, <1>6, ActorsAreApart DEF Crash, Claims, AtWork, TypeOK
  <2>2. Claiming' = {} /\ entriesInProgress' = {}
      BY <1>3, <1>6, <2>1 DEF Crash
  <2>3. { Of(a) : a \in Claiming }' = {}
      BY <2>2
  <2>. QED
      BY <1>1, <2>2, <2>3 DEF ClaimInv, ClaimsAreExclusive
<1>7. ASSUME NEW r \in Recoveries, NEW d \in Deliveries, DeferWrites(r, d)
      PROVE  ClaimInv'
    BY <1>5, <1>7 DEF DeferWrites
<1>8. CASE UNCHANGED vars
    BY <1>5, <1>8 DEF vars, files, memory, history
<1>. QED
    BY <1>4, <1>6, <1>7, <1>8, NextCases

LEMMA ClaimInvInit ==
    ASSUME Init
    PROVE  ClaimInv
<1>1. TypeInv
    BY TypeInvInit
<1>2. Claiming = {}
    BY ActorsAreApart DEF Init, Claiming
<1>. QED
    BY <1>1, <1>2 DEF ClaimInv, ClaimsAreExclusive, Init

\* Live sends, recovery and drains never work on one entry at once, and no
\* claim outlives its owner: with any crashes and failing file operations.
THEOREM ClaimsStayExclusive == Spec => []ClaimsAreExclusive
<1>1. ClaimInv => ClaimsAreExclusive
    BY DEF ClaimInv
<1>. QED
    BY <1>1, ClaimInvInit, ClaimInvStep, PTL DEF Spec

-----------------------------------------------------------------------------
(***************************************************************************)
(* Nothing queued is lost.                                                 *)
(***************************************************************************)

\* Why a delivery may leave the queue for good.
Accounted(d) == visible[d] > 0 \/ d \in excused \/ d \in bestEffort

AcknowledgedForAReason ==
    \A a \in Actors :
        pc[a] \in {"returned", "returnedWrite", "acking"} => Accounted(Of(a))

LossInv == TypeInv /\ AcknowledgedForAReason /\ NoDeliveryLost

\* What has been accounted for stays so through a platform call.
LEMMA SendingKeepsAccounts ==
    ASSUME TypeOK, NEW d \in Deliveries, Appears(d) \/ UNCHANGED visible,
           excused \subseteq excused', UNCHANGED bestEffort
    PROVE  /\ \A e \in Deliveries : Accounted(e) => Accounted(e)'
           /\ Appears(d) => Accounted(d)'
BY AppearingIsTyped DEF Accounted

\* A step of actor a that keeps all accounts, and brings a to acknowledge its
\* entry only if that is accounted for.
LEMMA AcknowledgingKeepsReasons ==
    ASSUME TypeInv, NEW a \in Actors, OthersKeep(a), AcknowledgedForAReason,
           \A e \in Deliveries : Accounted(e) => Accounted(e)',
           pc'[a] \in {"returned", "returnedWrite", "acking"} =>
               Accounted(Of(a))'
    PROVE  AcknowledgedForAReason'
<1>1. SUFFICES ASSUME NEW b \in Actors, b # a,
                      pc'[b] \in {"returned", "returnedWrite", "acking"}
               PROVE  Accounted(Of(b))'
    BY DEF AcknowledgedForAReason
<1>2. pc'[b] = pc[b] /\ Of(b)' = Of(b)
    BY <1>1 DEF OthersKeep, Of
<1>3. Of(b) \in Deliveries /\ Accounted(Of(b))
    BY <1>1, <1>2, OwnEntry
       DEF TypeInv, TypeOK, WorkerStates, AtWork, AcknowledgedForAReason
<1>. QED
    BY <1>2, <1>3 DEF Accounted

LEMMA ActorsLoseNothing ==
    ASSUME LossInv, NEW a \in Actors, Acts(a)
    PROVE  AcknowledgedForAReason' /\ NoDeliveryLost'
<1>. USE FilesAreTyped, ActorsAreApart DEF LossInv, TypeInv, TypeOK
<1>. DEFINE Kept == AcknowledgedForAReason' /\ NoDeliveryLost'
<1>1. ASSUME AckDelivery(a)
      PROVE  Kept
  <2>1. AcknowledgedForAReason'
      BY <1>1, OwnEntry
         DEF AckDelivery, Goto, Leave, Of, history, Notices,
             AcknowledgedForAReason, Accounted, AtWork
  <2>2. NoDeliveryLost'
      BY <1>1, OwnEntry
         DEF AckDelivery, Goto, Leave, Of, history, Notices, NoDeliveryLost,
             Accounted, AcknowledgedForAReason, AtWork
  <2>. QED
      BY <2>1, <2>2
<1>2. ASSUME FailDeliveryReads(a)
      PROVE  Kept
  <2>1. AcknowledgedForAReason'
      BY <1>2, OwnEntry
         DEF FailDeliveryReads, Goto, Leave, Of, files, history, Notices,
             AcknowledgedForAReason, Accounted, AtWork
  <2>2. NoDeliveryLost'
      BY <1>2
         DEF FailDeliveryReads, Goto, Leave, Of, files, history, Notices,
             NoDeliveryLost, Accounted
  <2>. QED
      BY <2>1, <2>2
<1>3. ASSUME FailDeliveryWrites(a)
      PROVE  Kept
  <2>1. AcknowledgedForAReason'
      BY <1>3, OwnEntry
         DEF FailDeliveryWrites, Leave, Of, history, Goto, Notices,
             AcknowledgedForAReason, Accounted, AtWork
  <2>2. NoDeliveryLost'
      BY <1>3, RetriesAreTyped
         DEF FailDeliveryWrites, Leave, Of, history, Goto, Notices,
             NoDeliveryLost, Accounted
  <2>. QED
      BY <2>1, <2>2
<1>4. ASSUME a \in Deliveries, EnqueueDelivery(a)
      PROVE  Kept
  <2>1. AcknowledgedForAReason'
      BY <1>4
         DEF EnqueueDelivery, Goto, Live, history, Notices,
             AcknowledgedForAReason, Accounted, Of, AtWork
  <2>2. NoDeliveryLost'
      BY <1>4
         DEF EnqueueDelivery, Goto, Live, history, Notices, NoDeliveryLost,
             Accounted
  <2>. QED
      BY <2>1, <2>2
<1>5. ASSUME a \in Live, ClaimLive(a)
      PROVE  Kept
  <2>1. AcknowledgedForAReason'
      BY <1>5
         DEF ClaimLive, Goto, files, history, AcknowledgedForAReason,
             Accounted, Of, AtWork
  <2>2. NoDeliveryLost'
      BY <1>5 DEF ClaimLive, Goto, files, history, NoDeliveryLost, Accounted
  <2>. QED
      BY <2>1, <2>2
<1>6. ASSUME a \in Live, Render(a)
      PROVE  Kept
  <2>1. AcknowledgedForAReason'
      BY <1>6
         DEF Render, Goto, files, AcknowledgedForAReason, Accounted, Of, AtWork
  <2>2. NoDeliveryLost'
      BY <1>6 DEF Render, Goto, files, NoDeliveryLost, Accounted
  <2>. QED
      BY <2>1, <2>2
<1>7. ASSUME a \in Live, MarkStartedReads(a)
      PROVE  Kept
  <2>1. AcknowledgedForAReason'
      BY <1>7
         DEF MarkStartedReads, Goto, files, history, AcknowledgedForAReason,
             Accounted, Of, AtWork
  <2>2. NoDeliveryLost'
      BY <1>7
         DEF MarkStartedReads, Goto, files, history, NoDeliveryLost, Accounted
  <2>. QED
      BY <2>1, <2>2
<1>8. ASSUME a \in Live, MarkStartedWrites(a)
      PROVE  Kept
  <2>1. AcknowledgedForAReason'
      BY <1>8
         DEF MarkStartedWrites, Goto, history, AcknowledgedForAReason,
             Accounted, Of, AtWork
  <2>2. NoDeliveryLost'
      BY <1>8, StatesAreTyped
         DEF MarkStartedWrites, Goto, history, NoDeliveryLost, Accounted,
             WritersHoldAFile, WriteStates, States
  <2>. QED
      BY <2>1, <2>2
<1>9. ASSUME a \in Live, MarkUnknownReads(a)
      PROVE  Kept
  <2>1. AcknowledgedForAReason'
      BY <1>9
         DEF MarkUnknownReads, Goto, Leave, files, history, Of, Notices,
             AcknowledgedForAReason, Accounted, AtWork
  <2>2. NoDeliveryLost'
      BY <1>9
         DEF MarkUnknownReads, Goto, Leave, files, history, Of, Notices,
             NoDeliveryLost, Accounted
  <2>. QED
      BY <2>1, <2>2
<1>10. ASSUME a \in Live, MarkUnknownWrites(a)
      PROVE  Kept
  <2>1. AcknowledgedForAReason'
      BY <1>10
         DEF MarkUnknownWrites, Goto, history, AcknowledgedForAReason,
             Accounted, Of, AtWork
  <2>2. NoDeliveryLost'
      BY <1>10, StatesAreTyped
         DEF MarkUnknownWrites, Goto, history, NoDeliveryLost, Accounted,
             WritersHoldAFile, WriteStates, States
  <2>. QED
      BY <2>1, <2>2
<1>11. ASSUME a \in Live, NEW o \in Outcomes, SendLive(a, o)
      PROVE  Kept
  <2>1. Appears(a) \/ UNCHANGED visible
      BY <1>11, OutcomesAreKnown DEF SendLive
  <2>2. \A e \in Deliveries : Accounted(e) => Accounted(e)'
      BY <1>11, <2>1, OutcomesAreKnown, SendingKeepsAccounts DEF SendLive
  <2>3. pc'[a] \in {"returned", "returnedWrite", "acking"} =>
            Accounted(Of(a))'
      BY <1>11, <2>1, OutcomesAreKnown, SendingKeepsAccounts
         DEF SendLive, Goto, Accounted, Of
  <2>4. AcknowledgedForAReason'
      BY <1>11, <2>2, <2>3, AcknowledgingKeepsReasons, ActorsTakeActorSteps
         DEF ActorStep
  <2>5. NoDeliveryLost'
      BY <1>11, <2>2, OutcomesAreKnown
         DEF SendLive, Goto, files, NoDeliveryLost, Accounted
  <2>. QED
      BY <2>4, <2>5
<1>12. ASSUME a \in Notices, NEW o \in Outcomes, SendNotice(a, o)
      PROVE  Kept
  <2>1. Appears(a) \/ UNCHANGED visible
      BY <1>12, OutcomesAreKnown DEF SendNotice
  <2>2. \A e \in Deliveries : Accounted(e) => Accounted(e)'
      BY <1>12, <2>1, OutcomesAreKnown, SendingKeepsAccounts
         DEF SendNotice, history
  <2>3. pc'[a] \in {"returned", "returnedWrite", "acking"} =>
            Accounted(Of(a))'
      BY <1>12, <2>1, OutcomesAreKnown, SendingKeepsAccounts
         DEF SendNotice, Goto, Accounted, Of
  <2>4. AcknowledgedForAReason'
      BY <1>12, <2>2, <2>3, AcknowledgingKeepsReasons, ActorsTakeActorSteps
         DEF ActorStep
  <2>5. NoDeliveryLost'
      BY <1>12, <2>2 DEF SendNotice, Goto, files, NoDeliveryLost, Accounted
  <2>. QED
      BY <2>4, <2>5
<1>13. ASSUME a \in Workers, LoadPendingDeliveries(a)
      PROVE  Kept
  <2>1. AcknowledgedForAReason'
      BY <1>13
         DEF LoadPendingDeliveries, Goto, files, history,
             AcknowledgedForAReason, Accounted, Of, AtWork
  <2>2. NoDeliveryLost'
      BY <1>13
         DEF LoadPendingDeliveries, Goto, files, history, NoDeliveryLost,
             Accounted
  <2>. QED
      BY <2>1, <2>2
<1>14. ASSUME a \in Workers, NEW d \in Deliveries, ClaimRecoveryEntry(a, d)
      PROVE  Kept
  <2>1. AcknowledgedForAReason'
      BY <1>14
         DEF ClaimRecoveryEntry, Goto, files, history, AcknowledgedForAReason,
             Accounted, Of, AtWork
  <2>2. NoDeliveryLost'
      BY <1>14
         DEF ClaimRecoveryEntry, Goto, files, history, NoDeliveryLost,
             Accounted
  <2>. QED
      BY <2>1, <2>2
<1>15. ASSUME a \in Workers, RereadAfterClaim(a)
      PROVE  Kept
  <2>1. AcknowledgedForAReason'
      BY <1>15, OwnEntry
         DEF RereadAfterClaim, Goto, Leave, AbortScan, Untouched, Of, Notices,
             files, history, AcknowledgedForAReason, Accounted, AtWork
  <2>2. NoDeliveryLost'
      BY <1>15
         DEF RereadAfterClaim, Goto, Leave, AbortScan, Untouched, Of, Notices,
             files, history, NoDeliveryLost, Accounted
  <2>. QED
      BY <2>1, <2>2
<1>16. ASSUME a \in Workers, Reconcile(a)
      PROVE  Kept
  <2>1. AcknowledgedForAReason'
      BY <1>16, OwnEntry
         DEF Reconcile, Goto, Untouched, files, history,
             AcknowledgedForAReason, Accounted, Of, AtWork
  <2>2. NoDeliveryLost'
      BY <1>16
         DEF Reconcile, Goto, Untouched, files, history, NoDeliveryLost,
             Accounted
  <2>. QED
      BY <2>1, <2>2
<1>17. ASSUME a \in Workers, NEW o \in Outcomes, Replay(a, o)
      PROVE  Kept
  <2>0. current[a] \in Deliveries
      BY <1>17, OwnEntry DEF Replay, AtWork
  <2>1. Appears(current[a]) \/ UNCHANGED visible
      BY <1>17, OutcomesAreKnown DEF Replay
  <2>2. \A e \in Deliveries : Accounted(e) => Accounted(e)'
      BY <1>17, <2>0, <2>1, OutcomesAreKnown, SendingKeepsAccounts
         DEF Replay, history
  <2>3. pc'[a] \in {"returned", "returnedWrite", "acking"} =>
            Accounted(Of(a))'
      BY <1>17, <2>0, <2>1, OutcomesAreKnown, SendingKeepsAccounts
         DEF Replay, Goto, Accounted, Of
  <2>4. AcknowledgedForAReason'
      BY <1>17, <2>2, <2>3, AcknowledgingKeepsReasons, ActorsTakeActorSteps
         DEF ActorStep
  <2>5. NoDeliveryLost'
      BY <1>17, <2>2 DEF Replay, Goto, files, NoDeliveryLost, Accounted
  <2>. QED
      BY <2>4, <2>5
<1>18. ASSUME a \in Workers, MoveToFailed(a)
      PROVE  Kept
  <2>1. AcknowledgedForAReason'
      BY <1>18, OwnEntry
         DEF MoveToFailed, Leave, AbortScan, files, history, Goto, Of, Notices,
             AcknowledgedForAReason, Accounted, AtWork
  <2>2. NoDeliveryLost'
      BY <1>18, OwnEntry
         DEF MoveToFailed, Leave, AbortScan, files, history, Goto, Of, Notices,
             NoDeliveryLost, Accounted, AtWork
  <2>. QED
      BY <2>1, <2>2
<1>19. ASSUME a \in Workers, EndOfScan(a)
      PROVE  Kept
  <2>1. AcknowledgedForAReason'
      BY <1>19
         DEF EndOfScan, Goto, Untouched, files, history,
             AcknowledgedForAReason, Accounted, Of, AtWork
  <2>2. NoDeliveryLost'
      BY <1>19
         DEF EndOfScan, Goto, Untouched, files, history, NoDeliveryLost,
             Accounted
  <2>. QED
      BY <2>1, <2>2
<1>20. ASSUME a \in Recoveries, BudgetExceeded(a)
      PROVE  Kept
  <2>1. AcknowledgedForAReason'
      BY <1>20
         DEF BudgetExceeded, Goto, Untouched, files, history,
             AcknowledgedForAReason, Accounted, Of, AtWork
  <2>2. NoDeliveryLost'
      BY <1>20
         DEF BudgetExceeded, Goto, Untouched, files, history, NoDeliveryLost,
             Accounted
  <2>. QED
      BY <2>1, <2>2
<1>21. ASSUME a \in Recoveries, NEW d \in Deliveries, DeferReads(a, d)
      PROVE  Kept
  <2>1. AcknowledgedForAReason'
      BY <1>21
         DEF DeferReads, files, history, AcknowledgedForAReason, Accounted, Of,
             AtWork
  <2>2. NoDeliveryLost'
      BY <1>21 DEF DeferReads, files, history, NoDeliveryLost, Accounted
  <2>. QED
      BY <2>1, <2>2
<1>. QED
    BY <1>1, <1>2, <1>3, <1>4, <1>5, <1>6, <1>7, <1>8, <1>9, <1>10, <1>11,
       <1>12, <1>13, <1>14, <1>15, <1>16, <1>17, <1>18, <1>19, <1>20, <1>21,
       Zenon
       DEF Acts

LEMMA LossInvStep ==
    ASSUME LossInv, [Next]_vars
    PROVE  LossInv'
<1>1. TypeInv /\ TypeInv'
    BY TypeInvStep DEF LossInv
<1>2. ASSUME NEW a \in Actors, Acts(a)
      PROVE  LossInv'
    BY <1>1, <1>2, ActorsLoseNothing DEF LossInv
<1>3. ASSUME NEW r \in Recoveries, NEW d \in Deliveries, DeferWrites(r, d)
      PROVE  LossInv'
  <2>1. AcknowledgedForAReason'
      BY <1>3 DEF DeferWrites, history, LossInv, AcknowledgedForAReason,
                  Accounted, Of
  <2>2. OneMoreRetry(deferring[r][d]) # NoEntry
      BY <1>1, FilesAreTyped, RetriesAreTyped DEF TypeInv, TypeOK
  <2>3. NoDeliveryLost'
      BY <1>1, <1>3, <2>2
         DEF DeferWrites, history, LossInv, NoDeliveryLost, TypeInv, TypeOK
  <2>. QED
      BY <1>1, <2>1, <2>3 DEF LossInv
<1>4. CASE Crash
  <2>1. AcknowledgedForAReason'
      BY <1>4, ActorsAreApart DEF Crash, AcknowledgedForAReason
  <2>2. NoDeliveryLost'
      BY <1>4, ActorsAreApart DEF Crash, files, LossInv, NoDeliveryLost
  <2>. QED
      BY <1>1, <2>1, <2>2 DEF LossInv
<1>5. CASE UNCHANGED vars
    BY <1>1, <1>5
       DEF vars, files, memory, history, LossInv, AcknowledgedForAReason,
           NoDeliveryLost, Accounted, Of
<1>. QED
    BY <1>2, <1>3, <1>4, <1>5, NextCases

LEMMA LossInvInit ==
    ASSUME Init
    PROVE  LossInv
BY TypeInvInit, ActorsAreApart
   DEF Init, LossInv, AcknowledgedForAReason, NoDeliveryLost

\* A queued delivery is in the queue or in failed/ until its message is
\* visible, or there was nothing to send: whatever crashes, races of live
\* sends, recovery, deferrals and drains, and failing file operations come
\* between.
THEOREM NothingQueuedIsLost == Spec => []NoDeliveryLost
<1>1. LossInv => NoDeliveryLost
    BY DEF LossInv
<1>. QED
    BY <1>1, LossInvInit, LossInvStep, PTL DEF Spec

-----------------------------------------------------------------------------
(***************************************************************************)
(* Marks: as long as no recovery runs out of time.  Its deferral writes    *)
(* files it has not claimed, from what it read before.                     *)
(***************************************************************************)

NothingIsDeferred ==
    \A r \in Recoveries :
        /\ pc[r] # "deferring"
        /\ \A d \in Deliveries : deferring[r][d] = NoEntry

\* Before its file is written a delivery is nowhere.
NewOnesAreUnknown ==
    \A d \in Deliveries :
        pc[d] = "new" =>
            /\ pending[d] = NoEntry
            /\ d \notin handedOver
            /\ visible[d] = 0
            /\ attempts[d] = 0
            /\ \A w \in Workers :
                  d \notin todo[w] /\ (pc[w] \in AtWork => current[w] # d)

\* Only live sends are marked.
NoticesAreNotMarked ==
    /\ \A d \in Notices : pending[d].recoveryState = "none"
    /\ \A a \in Actors :
         pc[a] \in WriteStates /\ Of(a) \in Notices =>
             entryRead[a].recoveryState = "none"

\* What the holder of a claim will write back is what the file says now.
HeldFileIsCurrent(a) ==
    Claims(a) /\ Of(a) \in Live /\ pc[a] \in WriteStates =>
        entryRead[a] = pending[Of(a)]

ReplayIsSound(a) ==
    a \in Workers /\ pc[a] = "sending" =>
        pending[Of(a)].recoveryState = "none" \/ visible[Of(a)] = 0

MarkedBeforeTheCall ==
    \A d \in Live :
        /\ policy[d] = "required"
        /\ d \in handedOver \/ pc[d] = "sending"
        /\ pending[d] # NoEntry
        => pending[d].recoveryState # "none"

MarkInv ==
    /\ ClaimInv
    /\ NothingIsDeferred
    /\ NewOnesAreUnknown
    /\ NoticesAreNotMarked
    /\ \A a \in Actors : HeldFileIsCurrent(a) /\ ReplayIsSound(a)
    /\ MarkedBeforeTheCall

\* A claim protects the entry of a live send from every step of another actor.
LEMMA ClaimsProtect ==
    ASSUME ClaimInv, NewOnesAreUnknown, NEW a \in Actors, ActorStep(a),
           NEW b \in Actors, b # a, Claims(b), Of(b) \in Live
    PROVE  /\ pending'[Of(b)] = pending[Of(b)]
           /\ visible'[Of(b)] = visible[Of(b)]
           /\ attempts'[Of(b)] = attempts[Of(b)]
<1>1. CASE Of(a) # Of(b)
    BY <1>1, ActorsAreApart DEF ActorStep, OthersKeep
<1>2. CASE Of(a) = Of(b)
  <2>1. ~Claims(a)
      BY <1>2, ClaimingMeans DEF ClaimInv, TypeInv, ClaimsAreExclusive
  <2>2. a \notin Notices
      BY <1>2, ActorsAreApart DEF Of
  <2>3. pc[a] # "new"
    <3>1. SUFFICES ASSUME pc[a] = "new"
                   PROVE  FALSE
        OBVIOUS
    <3>2. a \in Deliveries /\ a \notin Workers
        BY <3>1, ActorsAreApart DEF ClaimInv, TypeInv, TypeOK, WorkerStates
    <3>3. b \in Workers /\ pc[b] \in AtWork /\ current[b] = a
        BY <1>2, <3>2 DEF Of, Claims
    <3>. QED
        BY <3>1, <3>2, <3>3 DEF NewOnesAreUnknown
  <2>. QED
      BY <2>1, <2>2, <2>3 DEF ActorStep, TouchesItsOwn
<1>. QED
    BY <1>1, <1>2

\* What a step of actor a makes of its own entry.
OwnMarks(a) ==
    /\ NothingIsDeferred'
    /\ HeldFileIsCurrent(a)'
    /\ ReplayIsSound(a)'
    /\ NewOnesAreUnknown'
    /\ NoticesAreNotMarked'
    /\ MarkedBeforeTheCall'

LEMMA ActorsKeepMarks ==
    ASSUME MarkInv, BudgetEnds = FALSE, NEW a \in Actors, Acts(a)
    PROVE  OwnMarks(a)
<1>. USE FilesAreTyped, ActorsAreApart DEF MarkInv, ClaimInv, TypeInv, TypeOK
<1>0. ActorStep(a) /\ OthersKeep(a)
    BY ActorsTakeActorSteps DEF ActorStep
<1>1. ASSUME AckDelivery(a)
      PROVE  OwnMarks(a)
  <2>6. NothingIsDeferred'
      BY <1>1 DEF NothingIsDeferred, AckDelivery, Goto, Leave
  <2>1. HeldFileIsCurrent(a)'
      BY <1>1
         DEF AckDelivery, Goto, Leave, Of, history, Notices, HeldFileIsCurrent,
             Claims, WriteStates, Live
  <2>2. ReplayIsSound(a)'
      BY <1>1 DEF AckDelivery, Goto, Leave, Of, history, Notices, ReplayIsSound
  <2>3. NewOnesAreUnknown'
      BY <1>1, <1>0
         DEF AckDelivery, Goto, Leave, Of, history, Notices, NewOnesAreUnknown,
             OthersKeep, AtWork
  <2>4. NoticesAreNotMarked'
      BY <1>1, <1>0
         DEF AckDelivery, Goto, Leave, Of, history, Notices,
             NoticesAreNotMarked, OthersKeep, Live, WriteStates
  <2>5. MarkedBeforeTheCall'
      BY <1>1, <1>0
         DEF AckDelivery, Goto, Leave, Of, history, Notices,
             MarkedBeforeTheCall, Live, HeldFileIsCurrent, Claims, AtWork,
             WriteStates
  <2>. QED
      BY <2>1, <2>2, <2>3, <2>4, <2>5, <2>6 DEF OwnMarks
<1>2. ASSUME FailDeliveryReads(a)
      PROVE  OwnMarks(a)
  <2>6. NothingIsDeferred'
      BY <1>2 DEF NothingIsDeferred, FailDeliveryReads, Goto, Leave
  <2>1. HeldFileIsCurrent(a)'
      BY <1>2
         DEF FailDeliveryReads, Goto, Leave, Of, files, history, Notices,
             HeldFileIsCurrent, Claims, WriteStates, Live
  <2>2. ReplayIsSound(a)'
      BY <1>2
         DEF FailDeliveryReads, Goto, Leave, Of, files, history, Notices,
             ReplayIsSound
  <2>3. NewOnesAreUnknown'
      BY <1>2, <1>0
         DEF FailDeliveryReads, Goto, Leave, Of, files, history, Notices,
             NewOnesAreUnknown, OthersKeep, AtWork
  <2>4. NoticesAreNotMarked'
      BY <1>2, <1>0
         DEF FailDeliveryReads, Goto, Leave, Of, files, history, Notices,
             NoticesAreNotMarked, OthersKeep, Live, WriteStates
  <2>5. MarkedBeforeTheCall'
      BY <1>2, <1>0
         DEF FailDeliveryReads, Goto, Leave, Of, files, history, Notices,
             MarkedBeforeTheCall, Live, HeldFileIsCurrent, Claims, AtWork,
             WriteStates
  <2>. QED
      BY <2>1, <2>2, <2>3, <2>4, <2>5, <2>6 DEF OwnMarks
<1>3. ASSUME FailDeliveryWrites(a)
      PROVE  OwnMarks(a)
  <2>0. /\ Of(a) \in Deliveries
        /\ pending' = [pending EXCEPT ![Of(a)] = OneMoreRetry(entryRead[a])]
        /\ OneMoreRetry(entryRead[a]).recoveryState =
               entryRead[a].recoveryState
      BY <1>3, OwnEntry, RetriesAreTyped DEF FailDeliveryWrites, AtWork
  <2>6. NothingIsDeferred'
      BY <1>3, <2>0 DEF NothingIsDeferred, FailDeliveryWrites, Leave, Goto
  <2>1. HeldFileIsCurrent(a)'
      BY <1>3, <2>0
         DEF FailDeliveryWrites, Leave, Of, history, Goto, Notices,
             HeldFileIsCurrent, Claims, WriteStates, Live
  <2>2. ReplayIsSound(a)'
      BY <1>3, <2>0
         DEF FailDeliveryWrites, Leave, Of, history, Goto, Notices,
             ReplayIsSound
  <2>3. NewOnesAreUnknown'
      BY <1>3, <1>0, <2>0
         DEF FailDeliveryWrites, Leave, Of, history, Goto, Notices,
             NewOnesAreUnknown, OthersKeep, AtWork
  <2>4. NoticesAreNotMarked'
      BY <1>3, <1>0, <2>0, RetriesAreTyped
         DEF FailDeliveryWrites, Leave, Of, history, Goto, Notices,
             NoticesAreNotMarked, OthersKeep, Live, WriteStates,
             WritersHoldAFile, States
  <2>5. Of(a) \in Live =>
            entryRead[a] = pending[Of(a)] /\ entryRead[a] # NoEntry
      BY <1>3
         DEF FailDeliveryWrites, HeldFileIsCurrent, Claims, AtWork,
             WritersHoldAFile, WriteStates, Of
  <2>7. \A d \in Live : d # Of(a) => pending'[d] = pending[d]
      BY <1>0, <2>0 DEF OthersKeep
  <2>8. handedOver' = handedOver /\ policy' = policy
      BY <1>3 DEF FailDeliveryWrites, history
  <2>9. \A d \in Deliveries : pc'[d] = "sending" => pc[d] = "sending"
      BY <1>3 DEF FailDeliveryWrites, Leave, Goto
  <2>10. MarkedBeforeTheCall'
      BY <2>0, <2>5, <2>7, <2>8, <2>9 DEF MarkedBeforeTheCall, Live, Notices
  <2>. QED
      BY <2>1, <2>2, <2>3, <2>4, <2>6, <2>10 DEF OwnMarks
<1>4. ASSUME a \in Deliveries, EnqueueDelivery(a)
      PROVE  OwnMarks(a)
  <2>6. NothingIsDeferred'
      BY <1>4 DEF NothingIsDeferred, EnqueueDelivery, Goto
  <2>1. HeldFileIsCurrent(a)'
      BY <1>4
         DEF EnqueueDelivery, Goto, Live, history, Notices, HeldFileIsCurrent,
             Claims, WriteStates, Of
  <2>2. ReplayIsSound(a)'
      BY <1>4
         DEF EnqueueDelivery, Goto, Live, history, Notices, ReplayIsSound, Of
  <2>3. NewOnesAreUnknown'
      BY <1>4, <1>0
         DEF EnqueueDelivery, Goto, Live, history, Notices, NewOnesAreUnknown,
             OthersKeep, Of, AtWork
  <2>4. NoticesAreNotMarked'
      BY <1>4, <1>0
         DEF EnqueueDelivery, Goto, Live, history, Notices,
             NoticesAreNotMarked, OthersKeep, Of, WriteStates
  <2>5. MarkedBeforeTheCall'
      BY <1>4, <1>0
         DEF EnqueueDelivery, Goto, Live, history, Notices,
             MarkedBeforeTheCall, Of, HeldFileIsCurrent, Claims, AtWork,
             WriteStates, NewOnesAreUnknown
  <2>. QED
      BY <2>1, <2>2, <2>3, <2>4, <2>5, <2>6 DEF OwnMarks
<1>5. ASSUME a \in Live, ClaimLive(a)
      PROVE  OwnMarks(a)
  <2>6. NothingIsDeferred'
      BY <1>5 DEF NothingIsDeferred, ClaimLive, Goto
  <2>1. HeldFileIsCurrent(a)'
      BY <1>5
         DEF ClaimLive, Goto, files, history, HeldFileIsCurrent, Claims,
             WriteStates, Of, Live, Notices
  <2>2. ReplayIsSound(a)'
      BY <1>5 DEF ClaimLive, Goto, files, history, ReplayIsSound, Of
  <2>3. NewOnesAreUnknown'
      BY <1>5, <1>0
         DEF ClaimLive, Goto, files, history, NewOnesAreUnknown, OthersKeep,
             Of, AtWork
  <2>4. NoticesAreNotMarked'
      BY <1>5, <1>0
         DEF ClaimLive, Goto, files, history, NoticesAreNotMarked, OthersKeep,
             Of, Live, Notices, WriteStates
  <2>5. MarkedBeforeTheCall'
      BY <1>5, <1>0
         DEF ClaimLive, Goto, files, history, MarkedBeforeTheCall, Of, Live,
             Notices, HeldFileIsCurrent, Claims, AtWork, WriteStates
  <2>. QED
      BY <2>1, <2>2, <2>3, <2>4, <2>5, <2>6 DEF OwnMarks
<1>6. ASSUME a \in Live, Render(a)
      PROVE  OwnMarks(a)
  <2>6. NothingIsDeferred'
      BY <1>6 DEF NothingIsDeferred, Render, Goto
  <2>1. HeldFileIsCurrent(a)'
      BY <1>6
         DEF Render, Goto, files, HeldFileIsCurrent, Claims, WriteStates, Of,
             Live, Notices
  <2>2. ReplayIsSound(a)'
      BY <1>6 DEF Render, Goto, files, ReplayIsSound, Of
  <2>3. NewOnesAreUnknown'
      BY <1>6, <1>0
         DEF Render, Goto, files, NewOnesAreUnknown, OthersKeep, Of, AtWork
  <2>4. NoticesAreNotMarked'
      BY <1>6, <1>0
         DEF Render, Goto, files, NoticesAreNotMarked, OthersKeep, Of, Live,
             Notices, WriteStates
  <2>5. MarkedBeforeTheCall'
      BY <1>6, <1>0
         DEF Render, Goto, files, MarkedBeforeTheCall, Of, Live, Notices,
             HeldFileIsCurrent, Claims, AtWork, WriteStates
  <2>. QED
      BY <2>1, <2>2, <2>3, <2>4, <2>5, <2>6 DEF OwnMarks
<1>7. ASSUME a \in Live, MarkStartedReads(a)
      PROVE  OwnMarks(a)
  <2>6. NothingIsDeferred'
      BY <1>7 DEF NothingIsDeferred, MarkStartedReads, Goto
  <2>1. HeldFileIsCurrent(a)'
      BY <1>7
         DEF MarkStartedReads, Goto, files, history, HeldFileIsCurrent, Claims,
             WriteStates, Of, Live, Notices
  <2>2. ReplayIsSound(a)'
      BY <1>7 DEF MarkStartedReads, Goto, files, history, ReplayIsSound, Of
  <2>3. NewOnesAreUnknown'
      BY <1>7, <1>0
         DEF MarkStartedReads, Goto, files, history, NewOnesAreUnknown,
             OthersKeep, Of, AtWork
  <2>4. NoticesAreNotMarked'
      BY <1>7, <1>0
         DEF MarkStartedReads, Goto, files, history, NoticesAreNotMarked,
             OthersKeep, Of, Live, Notices, WriteStates
  <2>5. MarkedBeforeTheCall'
      BY <1>7, <1>0
         DEF MarkStartedReads, Goto, files, history, MarkedBeforeTheCall, Of,
             Live, Notices, HeldFileIsCurrent, Claims, AtWork, WriteStates
  <2>. QED
      BY <2>1, <2>2, <2>3, <2>4, <2>5, <2>6 DEF OwnMarks
<1>8. ASSUME a \in Live, MarkStartedWrites(a)
      PROVE  OwnMarks(a)
  <2>6. NothingIsDeferred'
      BY <1>8 DEF NothingIsDeferred, MarkStartedWrites, Goto
  <2>1. HeldFileIsCurrent(a)'
      BY <1>8
         DEF MarkStartedWrites, Goto, history, HeldFileIsCurrent, Claims,
             WriteStates, Of, Live, Notices
  <2>2. ReplayIsSound(a)'
      BY <1>8 DEF MarkStartedWrites, Goto, history, ReplayIsSound, Of
  <2>3. NewOnesAreUnknown'
      BY <1>8, <1>0
         DEF MarkStartedWrites, Goto, history, NewOnesAreUnknown, OthersKeep,
             Of, AtWork
  <2>4. NoticesAreNotMarked'
      BY <1>8, <1>0, StatesAreTyped
         DEF MarkStartedWrites, Goto, history, NoticesAreNotMarked, OthersKeep,
             Of, Live, Notices, WriteStates, WritersHoldAFile, States
  <2>5. MarkedBeforeTheCall'
      BY <1>8, <1>0, StatesAreTyped
         DEF MarkStartedWrites, Goto, history, MarkedBeforeTheCall, Of, Live,
             Notices, HeldFileIsCurrent, Claims, AtWork, WriteStates,
             WritersHoldAFile, States
  <2>. QED
      BY <2>1, <2>2, <2>3, <2>4, <2>5, <2>6 DEF OwnMarks
<1>9. ASSUME a \in Live, MarkUnknownReads(a)
      PROVE  OwnMarks(a)
  <2>6. NothingIsDeferred'
      BY <1>9 DEF NothingIsDeferred, MarkUnknownReads, Goto, Leave
  <2>1. HeldFileIsCurrent(a)'
      BY <1>9
         DEF MarkUnknownReads, Goto, Leave, files, history, Of, Notices,
             HeldFileIsCurrent, Claims, WriteStates, Live
  <2>2. ReplayIsSound(a)'
      BY <1>9
         DEF MarkUnknownReads, Goto, Leave, files, history, Of, Notices,
             ReplayIsSound
  <2>3. NewOnesAreUnknown'
      BY <1>9, <1>0
         DEF MarkUnknownReads, Goto, Leave, files, history, Of, Notices,
             NewOnesAreUnknown, OthersKeep, AtWork
  <2>4. NoticesAreNotMarked'
      BY <1>9, <1>0
         DEF MarkUnknownReads, Goto, Leave, files, history, Of, Notices,
             NoticesAreNotMarked, OthersKeep, Live, WriteStates
  <2>5. MarkedBeforeTheCall'
      BY <1>9, <1>0
         DEF MarkUnknownReads, Goto, Leave, files, history, Of, Notices,
             MarkedBeforeTheCall, Live, HeldFileIsCurrent, Claims, AtWork,
             WriteStates
  <2>. QED
      BY <2>1, <2>2, <2>3, <2>4, <2>5, <2>6 DEF OwnMarks
<1>10. ASSUME a \in Live, MarkUnknownWrites(a)
      PROVE  OwnMarks(a)
  <2>6. NothingIsDeferred'
      BY <1>10 DEF NothingIsDeferred, MarkUnknownWrites, Goto
  <2>1. HeldFileIsCurrent(a)'
      BY <1>10
         DEF MarkUnknownWrites, Goto, history, HeldFileIsCurrent, Claims,
             WriteStates, Of, Live, Notices
  <2>2. ReplayIsSound(a)'
      BY <1>10 DEF MarkUnknownWrites, Goto, history, ReplayIsSound, Of
  <2>3. NewOnesAreUnknown'
      BY <1>10, <1>0
         DEF MarkUnknownWrites, Goto, history, NewOnesAreUnknown, OthersKeep,
             Of, AtWork
  <2>4. NoticesAreNotMarked'
      BY <1>10, <1>0, StatesAreTyped
         DEF MarkUnknownWrites, Goto, history, NoticesAreNotMarked, OthersKeep,
             Of, Live, Notices, WriteStates, WritersHoldAFile, States
  <2>5. MarkedBeforeTheCall'
      BY <1>10, <1>0, StatesAreTyped
         DEF MarkUnknownWrites, Goto, history, MarkedBeforeTheCall, Of, Live,
             Notices, HeldFileIsCurrent, Claims, AtWork, WriteStates,
             WritersHoldAFile, States
  <2>. QED
      BY <2>1, <2>2, <2>3, <2>4, <2>5, <2>6 DEF OwnMarks
<1>11. ASSUME a \in Live, NEW o \in Outcomes, SendLive(a, o)
      PROVE  OwnMarks(a)
  <2>0. PICK l \in {"returned", "acking", "failing"} : Goto(a, l)
      BY <1>11, OutcomesAreKnown DEF SendLive
  <2>6. NothingIsDeferred'
      BY <1>11, <2>0 DEF NothingIsDeferred, SendLive, Goto
  <2>1. HeldFileIsCurrent(a)'
      BY <1>11, <2>0, OutcomesAreKnown
         DEF SendLive, Goto, Appears, Live, files, Notices, HeldFileIsCurrent,
             Claims, WriteStates, Of
  <2>2. ReplayIsSound(a)'
      BY <1>11, <2>0, OutcomesAreKnown
         DEF SendLive, Goto, Appears, Live, files, Notices, ReplayIsSound, Of
  <2>3. NewOnesAreUnknown'
      BY <1>11, <1>0, <2>0, OutcomesAreKnown
         DEF SendLive, Goto, Appears, Live, files, Notices, NewOnesAreUnknown,
             OthersKeep, Of, AtWork
  <2>4. NoticesAreNotMarked'
      BY <1>11, <1>0, <2>0, OutcomesAreKnown
         DEF SendLive, Goto, Appears, Live, files, Notices,
             NoticesAreNotMarked, OthersKeep, Of, WriteStates
  <2>5. MarkedBeforeTheCall'
      BY <1>11, <1>0, <2>0, OutcomesAreKnown
         DEF SendLive, Goto, Appears, Live, files, Notices,
             MarkedBeforeTheCall, Of, HeldFileIsCurrent, Claims, AtWork,
             WriteStates
  <2>. QED
      BY <2>1, <2>2, <2>3, <2>4, <2>5, <2>6 DEF OwnMarks
<1>12. ASSUME a \in Notices, NEW o \in Outcomes, SendNotice(a, o)
      PROVE  OwnMarks(a)
  <2>6. NothingIsDeferred'
      BY <1>12 DEF NothingIsDeferred, SendNotice, Goto
  <2>1. HeldFileIsCurrent(a)'
      BY <1>12, OutcomesAreKnown
         DEF SendNotice, Goto, Appears, files, HeldFileIsCurrent, Claims,
             WriteStates, Of, Live, Notices
  <2>2. ReplayIsSound(a)'
      BY <1>12, OutcomesAreKnown
         DEF SendNotice, Goto, Appears, files, ReplayIsSound, Of
  <2>3. NewOnesAreUnknown'
      BY <1>12, <1>0, OutcomesAreKnown
         DEF SendNotice, Goto, Appears, files, NewOnesAreUnknown, OthersKeep,
             Of, AtWork
  <2>4. NoticesAreNotMarked'
      BY <1>12, <1>0, OutcomesAreKnown
         DEF SendNotice, Goto, Appears, files, NoticesAreNotMarked, OthersKeep,
             Of, Live, Notices, WriteStates
  <2>5. MarkedBeforeTheCall'
      BY <1>12, <1>0, OutcomesAreKnown
         DEF SendNotice, Goto, Appears, files, MarkedBeforeTheCall, Of, Live,
             Notices, HeldFileIsCurrent, Claims, AtWork, WriteStates
  <2>. QED
      BY <2>1, <2>2, <2>3, <2>4, <2>5, <2>6 DEF OwnMarks
<1>13. ASSUME a \in Workers, LoadPendingDeliveries(a)
      PROVE  OwnMarks(a)
  <2>6. NothingIsDeferred'
      BY <1>13 DEF NothingIsDeferred, LoadPendingDeliveries, Goto
  <2>1. HeldFileIsCurrent(a)'
      BY <1>13
         DEF LoadPendingDeliveries, Goto, files, history, HeldFileIsCurrent,
             Claims, WriteStates, Of, Live, Notices
  <2>2. ReplayIsSound(a)'
      BY <1>13
         DEF LoadPendingDeliveries, Goto, files, history, ReplayIsSound, Of
  <2>3. NewOnesAreUnknown'
      BY <1>13, <1>0
         DEF LoadPendingDeliveries, Goto, files, history, NewOnesAreUnknown,
             OthersKeep, Of, AtWork
  <2>4. NoticesAreNotMarked'
      BY <1>13, <1>0
         DEF LoadPendingDeliveries, Goto, files, history, NoticesAreNotMarked,
             OthersKeep, Of, Live, Notices, WriteStates
  <2>5. MarkedBeforeTheCall'
      BY <1>13, <1>0
         DEF LoadPendingDeliveries, Goto, files, history, MarkedBeforeTheCall,
             Of, Live, Notices, HeldFileIsCurrent, Claims, AtWork, WriteStates
  <2>. QED
      BY <2>1, <2>2, <2>3, <2>4, <2>5, <2>6 DEF OwnMarks
<1>14. ASSUME a \in Workers, NEW d \in Deliveries, ClaimRecoveryEntry(a, d)
      PROVE  OwnMarks(a)
  <2>6. NothingIsDeferred'
      BY <1>14 DEF NothingIsDeferred, ClaimRecoveryEntry, Goto
  <2>1. HeldFileIsCurrent(a)'
      BY <1>14
         DEF ClaimRecoveryEntry, Goto, files, history, HeldFileIsCurrent,
             Claims, WriteStates, Of, Live, Notices
  <2>2. ReplayIsSound(a)'
      BY <1>14 DEF ClaimRecoveryEntry, Goto, files, history, ReplayIsSound, Of
  <2>3. NewOnesAreUnknown'
      BY <1>14, <1>0
         DEF ClaimRecoveryEntry, Goto, files, history, NewOnesAreUnknown,
             OthersKeep, Of, AtWork
  <2>4. NoticesAreNotMarked'
      BY <1>14, <1>0
         DEF ClaimRecoveryEntry, Goto, files, history, NoticesAreNotMarked,
             OthersKeep, Of, Live, Notices, WriteStates
  <2>5. MarkedBeforeTheCall'
      BY <1>14, <1>0
         DEF ClaimRecoveryEntry, Goto, files, history, MarkedBeforeTheCall, Of,
             Live, Notices, HeldFileIsCurrent, Claims, AtWork, WriteStates
  <2>. QED
      BY <2>1, <2>2, <2>3, <2>4, <2>5, <2>6 DEF OwnMarks
<1>15. ASSUME a \in Workers, RereadAfterClaim(a)
      PROVE  OwnMarks(a)
  <2>6. NothingIsDeferred'
      BY <1>15
         DEF NothingIsDeferred, RereadAfterClaim, Goto, Leave, AbortScan,
             Untouched
  <2>1. HeldFileIsCurrent(a)'
      BY <1>15
         DEF RereadAfterClaim, Goto, Leave, AbortScan, Untouched, Of, Notices,
             files, history, HeldFileIsCurrent, Claims, WriteStates, Live
  <2>2. ReplayIsSound(a)'
      BY <1>15
         DEF RereadAfterClaim, Goto, Leave, AbortScan, Untouched, Of, Notices,
             files, history, ReplayIsSound
  <2>3. NewOnesAreUnknown'
      BY <1>15, <1>0
         DEF RereadAfterClaim, Goto, Leave, AbortScan, Untouched, Of, Notices,
             files, history, NewOnesAreUnknown, OthersKeep, AtWork
  <2>4. NoticesAreNotMarked'
      BY <1>15, <1>0
         DEF RereadAfterClaim, Goto, Leave, AbortScan, Untouched, Of, Notices,
             files, history, NoticesAreNotMarked, OthersKeep, Live, WriteStates
  <2>5. MarkedBeforeTheCall'
      BY <1>15, <1>0
         DEF RereadAfterClaim, Goto, Leave, AbortScan, Untouched, Of, Notices,
             files, history, MarkedBeforeTheCall, Live, HeldFileIsCurrent,
             Claims, AtWork, WriteStates
  <2>. QED
      BY <2>1, <2>2, <2>3, <2>4, <2>5, <2>6 DEF OwnMarks
<1>16. ASSUME a \in Workers, Reconcile(a)
      PROVE  OwnMarks(a)
  <2>0. current[a] \in Deliveries
      BY <1>16, OwnEntry DEF Reconcile, AtWork
  <2>6. NothingIsDeferred'
      BY <1>16, <2>0 DEF NothingIsDeferred, Reconcile, Goto, Untouched
  <2>1. HeldFileIsCurrent(a)'
      BY <1>16, <2>0
         DEF Reconcile, Goto, Untouched, files, history, HeldFileIsCurrent,
             Claims, WriteStates, Of, Live, Notices
  <2>2. ReplayIsSound(a)'
      BY <1>16, <2>0
         DEF Reconcile, Goto, Untouched, files, history, ReplayIsSound, Of
  <2>3. NewOnesAreUnknown'
      BY <1>16, <1>0, <2>0
         DEF Reconcile, Goto, Untouched, files, history, NewOnesAreUnknown,
             OthersKeep, Of, AtWork
  <2>4. NoticesAreNotMarked'
      BY <1>16, <1>0, <2>0
         DEF Reconcile, Goto, Untouched, files, history, NoticesAreNotMarked,
             OthersKeep, Of, Live, Notices, WriteStates
  <2>5. MarkedBeforeTheCall'
      BY <1>16, <1>0, <2>0
         DEF Reconcile, Goto, Untouched, files, history, MarkedBeforeTheCall,
             Of, Live, Notices, HeldFileIsCurrent, Claims, AtWork, WriteStates
  <2>. QED
      BY <2>1, <2>2, <2>3, <2>4, <2>5, <2>6 DEF OwnMarks
<1>17. ASSUME a \in Workers, NEW o \in Outcomes, Replay(a, o)
      PROVE  OwnMarks(a)
  <2>6. NothingIsDeferred'
      BY <1>17 DEF NothingIsDeferred, Replay, Goto
  <2>1. HeldFileIsCurrent(a)'
      BY <1>17, OutcomesAreKnown
         DEF Replay, Goto, Appears, files, HeldFileIsCurrent, Claims,
             WriteStates, Of, Live, Notices
  <2>2. ReplayIsSound(a)'
      BY <1>17, OutcomesAreKnown
         DEF Replay, Goto, Appears, files, ReplayIsSound, Of
  <2>3. NewOnesAreUnknown'
      BY <1>17, <1>0, OutcomesAreKnown
         DEF Replay, Goto, Appears, files, NewOnesAreUnknown, OthersKeep, Of,
             AtWork
  <2>4. NoticesAreNotMarked'
      BY <1>17, <1>0, OutcomesAreKnown
         DEF Replay, Goto, Appears, files, NoticesAreNotMarked, OthersKeep, Of,
             Live, Notices, WriteStates
  <2>5. MarkedBeforeTheCall'
      BY <1>17, <1>0, OutcomesAreKnown
         DEF Replay, Goto, Appears, files, MarkedBeforeTheCall, Of, Live,
             Notices, HeldFileIsCurrent, Claims, AtWork, WriteStates
  <2>. QED
      BY <2>1, <2>2, <2>3, <2>4, <2>5, <2>6 DEF OwnMarks
<1>18. ASSUME a \in Workers, MoveToFailed(a)
      PROVE  OwnMarks(a)
  <2>6. NothingIsDeferred'
      BY <1>18 DEF NothingIsDeferred, MoveToFailed, Leave, AbortScan, Goto
  <2>1. HeldFileIsCurrent(a)'
      BY <1>18
         DEF MoveToFailed, Leave, AbortScan, files, history, Goto, Of, Notices,
             HeldFileIsCurrent, Claims, WriteStates, Live
  <2>2. ReplayIsSound(a)'
      BY <1>18
         DEF MoveToFailed, Leave, AbortScan, files, history, Goto, Of, Notices,
             ReplayIsSound
  <2>3. NewOnesAreUnknown'
      BY <1>18, <1>0
         DEF MoveToFailed, Leave, AbortScan, files, history, Goto, Of, Notices,
             NewOnesAreUnknown, OthersKeep, AtWork
  <2>4. NoticesAreNotMarked'
      BY <1>18, <1>0
         DEF MoveToFailed, Leave, AbortScan, files, history, Goto, Of, Notices,
             NoticesAreNotMarked, OthersKeep, Live, WriteStates
  <2>5. MarkedBeforeTheCall'
      BY <1>18, <1>0
         DEF MoveToFailed, Leave, AbortScan, files, history, Goto, Of, Notices,
             MarkedBeforeTheCall, Live, HeldFileIsCurrent, Claims, AtWork,
             WriteStates
  <2>. QED
      BY <2>1, <2>2, <2>3, <2>4, <2>5, <2>6 DEF OwnMarks
<1>19. ASSUME a \in Workers, EndOfScan(a)
      PROVE  OwnMarks(a)
  <2>6. NothingIsDeferred'
      BY <1>19 DEF NothingIsDeferred, EndOfScan, Goto, Untouched
  <2>1. HeldFileIsCurrent(a)'
      BY <1>19
         DEF EndOfScan, Goto, Untouched, files, history, HeldFileIsCurrent,
             Claims, WriteStates, Of, Live, Notices
  <2>2. ReplayIsSound(a)'
      BY <1>19
         DEF EndOfScan, Goto, Untouched, files, history, ReplayIsSound, Of
  <2>3. NewOnesAreUnknown'
      BY <1>19, <1>0
         DEF EndOfScan, Goto, Untouched, files, history, NewOnesAreUnknown,
             OthersKeep, Of, AtWork
  <2>4. NoticesAreNotMarked'
      BY <1>19, <1>0
         DEF EndOfScan, Goto, Untouched, files, history, NoticesAreNotMarked,
             OthersKeep, Of, Live, Notices, WriteStates
  <2>5. MarkedBeforeTheCall'
      BY <1>19, <1>0
         DEF EndOfScan, Goto, Untouched, files, history, MarkedBeforeTheCall,
             Of, Live, Notices, HeldFileIsCurrent, Claims, AtWork, WriteStates
  <2>. QED
      BY <2>1, <2>2, <2>3, <2>4, <2>5, <2>6 DEF OwnMarks
<1>20. ASSUME a \in Recoveries, BudgetExceeded(a)
      PROVE  OwnMarks(a)
  <2>6. NothingIsDeferred'
      BY <1>20 DEF NothingIsDeferred, BudgetExceeded, Goto, Untouched
  <2>1. HeldFileIsCurrent(a)'
      BY <1>20
         DEF BudgetExceeded, Goto, Untouched, files, history,
             HeldFileIsCurrent, Claims, WriteStates, Of, Live, Notices
  <2>2. ReplayIsSound(a)'
      BY <1>20
         DEF BudgetExceeded, Goto, Untouched, files, history, ReplayIsSound, Of
  <2>3. NewOnesAreUnknown'
      BY <1>20, <1>0
         DEF BudgetExceeded, Goto, Untouched, files, history,
             NewOnesAreUnknown, OthersKeep, Of, AtWork
  <2>4. NoticesAreNotMarked'
      BY <1>20, <1>0
         DEF BudgetExceeded, Goto, Untouched, files, history,
             NoticesAreNotMarked, OthersKeep, Of, Live, Notices, WriteStates
  <2>5. MarkedBeforeTheCall'
      BY <1>20, <1>0
         DEF BudgetExceeded, Goto, Untouched, files, history,
             MarkedBeforeTheCall, Of, Live, Notices, HeldFileIsCurrent, Claims,
             AtWork, WriteStates
  <2>. QED
      BY <2>1, <2>2, <2>3, <2>4, <2>5, <2>6 DEF OwnMarks
<1>21. ASSUME a \in Recoveries, NEW d \in Deliveries, DeferReads(a, d)
      PROVE  OwnMarks(a)
  <2>6. NothingIsDeferred'
      BY <1>21 DEF NothingIsDeferred, DeferReads
  <2>1. HeldFileIsCurrent(a)'
      BY <1>21
         DEF DeferReads, files, history, HeldFileIsCurrent, Claims,
             WriteStates, Of, Live, Notices
  <2>2. ReplayIsSound(a)'
      BY <1>21 DEF DeferReads, files, history, ReplayIsSound, Of
  <2>3. NewOnesAreUnknown'
      BY <1>21, <1>0
         DEF DeferReads, files, history, NewOnesAreUnknown, OthersKeep, Of,
             AtWork
  <2>4. NoticesAreNotMarked'
      BY <1>21, <1>0
         DEF DeferReads, files, history, NoticesAreNotMarked, OthersKeep, Of,
             Live, Notices, WriteStates
  <2>5. MarkedBeforeTheCall'
      BY <1>21, <1>0
         DEF DeferReads, files, history, MarkedBeforeTheCall, Of, Live,
             Notices, HeldFileIsCurrent, Claims, AtWork, WriteStates
  <2>. QED
      BY <2>1, <2>2, <2>3, <2>4, <2>5, <2>6 DEF OwnMarks
<1>. QED
    BY <1>1, <1>2, <1>3, <1>4, <1>5, <1>6, <1>7, <1>8, <1>9, <1>10, <1>11,
       <1>12, <1>13, <1>14, <1>15, <1>16, <1>17, <1>18, <1>19, <1>20, <1>21,
       Zenon
       DEF Acts

\* A crash forgets who was about to send, and changes no file.
LEMMA CrashKeepsMarks ==
    ASSUME MarkInv, Crash
    PROVE  /\ NothingIsDeferred'
           /\ NewOnesAreUnknown'
           /\ NoticesAreNotMarked'
           /\ \A a \in Actors : HeldFileIsCurrent(a)' /\ ReplayIsSound(a)'
           /\ MarkedBeforeTheCall'
<1>. USE ActorsAreApart DEF Crash, files, MarkInv
<1>1. \A a \in Actors : pc'[a] \in {"idle", "new", "over"}
    OBVIOUS
<1>2. NothingIsDeferred'
    BY <1>1 DEF NothingIsDeferred
<1>3. NewOnesAreUnknown'
    BY <1>1 DEF NewOnesAreUnknown, AtWork
<1>4. NoticesAreNotMarked'
    BY <1>1 DEF NoticesAreNotMarked, WriteStates, Notices
<1>5. \A a \in Actors : HeldFileIsCurrent(a)' /\ ReplayIsSound(a)'
    BY <1>1 DEF HeldFileIsCurrent, ReplayIsSound, WriteStates
<1>6. MarkedBeforeTheCall'
    BY <1>1 DEF MarkedBeforeTheCall, Live, Notices
<1>. QED
    BY <1>2, <1>3, <1>4, <1>5, <1>6

LEMMA MarkInvStep ==
    ASSUME MarkInv, BudgetEnds = FALSE, [Next]_vars
    PROVE  MarkInv'
<1>1. ClaimInv /\ ClaimInv' /\ TypeInv /\ TypeInv' /\ TypeOK'
    BY ClaimInvStep DEF MarkInv, ClaimInv, TypeInv
<1>2. ASSUME NEW a \in Actors, Acts(a)
      PROVE  MarkInv'
  <2>1. ActorStep(a) /\ OthersKeep(a)
      BY <1>1, <1>2, ActorsTakeActorSteps DEF ActorStep
  <2>2. OwnMarks(a)
      BY <1>2, ActorsKeepMarks
  <2>3. ASSUME NEW b \in Actors, b # a
        PROVE  HeldFileIsCurrent(b)' /\ ReplayIsSound(b)'
    <3>1. /\ Claims(b)' <=> Claims(b)
          /\ Of(b)' = Of(b)
          /\ pc'[b] = pc[b]
          /\ entryRead'[b] = entryRead[b]
          /\ Live' = Live
          /\ HeldFileIsCurrent(b) /\ ReplayIsSound(b)
        BY <1>1, <2>1, <2>3, ClaimsAreKept
           DEF OthersKeep, Live, Notices, MarkInv
    <3>2. CASE Claims(b) /\ Of(b) \in Live
      <4>1. /\ pending'[Of(b)] = pending[Of(b)]
            /\ visible'[Of(b)] = visible[Of(b)]
          BY <1>1, <2>1, <2>3, <3>2, ClaimsProtect DEF MarkInv
      <4>. QED
          BY <3>1, <4>1 DEF HeldFileIsCurrent, ReplayIsSound
    <3>3. CASE Claims(b) /\ Of(b) \notin Live
      <4>1. HeldFileIsCurrent(b)'
          BY <3>1, <3>3 DEF HeldFileIsCurrent
      <4>2. Of(b) \in Notices
          BY <1>1, <3>3, OwnEntry, ActorsAreApart DEF Claims, Live
      <4>3. pending'[Of(b)].recoveryState = "none"
          BY <2>1, <2>2, <4>2
             DEF OwnMarks, NoticesAreNotMarked, OthersKeep, Notices
      <4>4. ReplayIsSound(b)'
          BY <3>1, <4>3 DEF ReplayIsSound
      <4>. QED
          BY <4>1, <4>4
    <3>4. CASE ~Claims(b)
        BY <3>1, <3>4 DEF HeldFileIsCurrent, ReplayIsSound, Claims, AtWork
    <3>. QED
        BY <3>2, <3>3, <3>4
  <2>. QED
      BY <1>1, <2>2, <2>3 DEF MarkInv, OwnMarks
<1>3. CASE Crash
    BY <1>1, <1>3, CrashKeepsMarks DEF MarkInv
<1>4. ASSUME NEW r \in Recoveries, NEW d \in Deliveries, DeferWrites(r, d)
      PROVE  FALSE
    BY <1>4 DEF DeferWrites, MarkInv, NothingIsDeferred
<1>5. CASE UNCHANGED vars
  <2>. USE <1>5 DEF vars, files, memory, history, MarkInv
  <2>1. NothingIsDeferred' /\ NewOnesAreUnknown'
      BY DEF NothingIsDeferred, NewOnesAreUnknown
  <2>2. NoticesAreNotMarked' /\ MarkedBeforeTheCall'
      BY DEF NoticesAreNotMarked, MarkedBeforeTheCall, Of, Live, Notices
  <2>3. \A a \in Actors : HeldFileIsCurrent(a)' /\ ReplayIsSound(a)'
      BY DEF HeldFileIsCurrent, ReplayIsSound, Claims, Of, Live, Notices
  <2>. QED
      BY <1>1, <2>1, <2>2, <2>3
<1>. QED
    BY <1>2, <1>3, <1>4, <1>5, NextCases

LEMMA MarkInvInit ==
    ASSUME Init
    PROVE  MarkInv
<1>. USE ActorsAreApart DEF Init
<1>1. \A a \in Actors : pc[a] \in {"idle", "new"}
    OBVIOUS
<1>2. NothingIsDeferred /\ NewOnesAreUnknown
    BY <1>1 DEF NothingIsDeferred, NewOnesAreUnknown, AtWork
<1>3. NoticesAreNotMarked /\ MarkedBeforeTheCall
    BY <1>1, FilesAreTyped
       DEF NoticesAreNotMarked, MarkedBeforeTheCall, WriteStates
<1>4. \A a \in Actors : HeldFileIsCurrent(a) /\ ReplayIsSound(a)
    BY <1>1 DEF HeldFileIsCurrent, ReplayIsSound, WriteStates
<1>. QED
    BY <1>2, <1>3, <1>4, ClaimInvInit DEF MarkInv

\* As long as no recovery runs out of time: a required live send that has
\* called the platform is marked in its file for as long as there is one.
THEOREM StartedSendsAreMarked ==
    ASSUME BudgetEnds = FALSE
    PROVE  Spec => []RequiredSendsAreMarked
<1>1. MarkInv => RequiredSendsAreMarked
    BY DEF MarkInv, MarkedBeforeTheCall, ClaimInv, TypeInv, TypeOK,
           RequiredSendsAreMarked
<1>2. MarkInv /\ [Next]_vars => MarkInv'
    BY MarkInvStep
<1>. QED
    BY <1>1, <1>2, MarkInvInit, PTL DEF Spec

\* As long as no recovery runs out of time: a worker sends an entry that is
\* marked as started only if its message is not visible, whoever sent it and
\* crashed before.
THEOREM MarkedEntriesAreNotReplayedBlindly ==
    ASSUME BudgetEnds = FALSE
    PROVE  Spec => []NoBlindReplayOfMarked
<1>1. MarkInv => NoBlindReplayOfMarked
    BY ActorsAreApart DEF MarkInv, ReplayIsSound, NoBlindReplayOfMarked, Of
<1>2. MarkInv /\ [Next]_vars => MarkInv'
    BY MarkInvStep
<1>. QED
    BY <1>1, <1>2, MarkInvInit, PTL DEF Spec

-----------------------------------------------------------------------------
(***************************************************************************)
(* What leaves the queue does not come back, as long as no recovery runs   *)
(* out of time and no restart notice, which is sent without a claim, is in *)
(* the queue.                                                              *)
(***************************************************************************)

LEMMA EveryDeliveryIsLive ==
    ASSUME TypeOK, "notice" \notin Policies
    PROVE  Live = Deliveries /\ Notices = {}
BY DEF TypeOK, Live, Notices

LEMMA ActorsBringNothingBack ==
    ASSUME MarkInv, "notice" \notin Policies, NEW a \in Actors, Acts(a),
           NEW d \in Deliveries, pc[d] # "new", pending[d] = NoEntry
    PROVE  pending'[d] = NoEntry
<1>. USE ActorsAreApart DEF MarkInv, ClaimInv, TypeInv, TypeOK
<1>0. CASE Of(a) # d
    BY <1>0, ActorsTakeActorSteps DEF ActorStep, OthersKeep
<1>. SUFFICES ASSUME Of(a) = d
              PROVE  pending'[d] = NoEntry
    BY <1>0
<1>1. ASSUME AckDelivery(a)
      PROVE  pending'[d] = NoEntry
    BY <1>1 DEF AckDelivery, Of
<1>2. ASSUME FailDeliveryReads(a)
      PROVE  pending'[d] = NoEntry
    BY <1>2 DEF FailDeliveryReads, files, Of
<1>3. ASSUME FailDeliveryWrites(a)
      PROVE  pending'[d] = NoEntry
    BY <1>3, EveryDeliveryIsLive
       DEF FailDeliveryWrites, HeldFileIsCurrent, Claims, AtWork, WriteStates,
           WritersHoldAFile, Of
<1>4. ASSUME a \in Deliveries, EnqueueDelivery(a)
      PROVE  pending'[d] = NoEntry
    BY <1>4 DEF EnqueueDelivery, Of
<1>5. ASSUME a \in Live, ClaimLive(a)
      PROVE  pending'[d] = NoEntry
    BY <1>5 DEF ClaimLive, files, Of
<1>6. ASSUME a \in Live, Render(a)
      PROVE  pending'[d] = NoEntry
    BY <1>6 DEF Render, files, Of
<1>7. ASSUME a \in Live, MarkStartedReads(a)
      PROVE  pending'[d] = NoEntry
    BY <1>7 DEF MarkStartedReads, files, Of
<1>8. ASSUME a \in Live, MarkStartedWrites(a)
      PROVE  pending'[d] = NoEntry
    BY <1>8, EveryDeliveryIsLive
       DEF MarkStartedWrites, HeldFileIsCurrent, Claims, AtWork, WriteStates,
           WritersHoldAFile, Of
<1>9. ASSUME a \in Live, MarkUnknownReads(a)
      PROVE  pending'[d] = NoEntry
    BY <1>9 DEF MarkUnknownReads, files, Of
<1>10. ASSUME a \in Live, MarkUnknownWrites(a)
      PROVE  pending'[d] = NoEntry
    BY <1>10, EveryDeliveryIsLive
       DEF MarkUnknownWrites, HeldFileIsCurrent, Claims, AtWork, WriteStates,
           WritersHoldAFile, Of
<1>11. ASSUME a \in Live, NEW o \in Outcomes, SendLive(a, o)
      PROVE  pending'[d] = NoEntry
    BY <1>11 DEF SendLive, files, Of
<1>12. ASSUME a \in Notices, NEW o \in Outcomes, SendNotice(a, o)
      PROVE  pending'[d] = NoEntry
    BY <1>12 DEF SendNotice, files, Of
<1>13. ASSUME a \in Workers, LoadPendingDeliveries(a)
      PROVE  pending'[d] = NoEntry
    BY <1>13 DEF LoadPendingDeliveries, files, Of
<1>14. ASSUME a \in Workers, NEW e \in Deliveries, ClaimRecoveryEntry(a, e)
      PROVE  pending'[d] = NoEntry
    BY <1>14 DEF ClaimRecoveryEntry, files, Of
<1>15. ASSUME a \in Workers, RereadAfterClaim(a)
      PROVE  pending'[d] = NoEntry
    BY <1>15 DEF RereadAfterClaim, files, Untouched, Of
<1>16. ASSUME a \in Workers, Reconcile(a)
      PROVE  pending'[d] = NoEntry
    BY <1>16 DEF Reconcile, files, Untouched, Of
<1>17. ASSUME a \in Workers, NEW o \in Outcomes, Replay(a, o)
      PROVE  pending'[d] = NoEntry
    BY <1>17 DEF Replay, files, Of
<1>18. ASSUME a \in Workers, MoveToFailed(a)
      PROVE  pending'[d] = NoEntry
    BY <1>18 DEF MoveToFailed, files, Of
<1>19. ASSUME a \in Workers, EndOfScan(a)
      PROVE  pending'[d] = NoEntry
    BY <1>19 DEF EndOfScan, files, Untouched, Of
<1>20. ASSUME a \in Recoveries, BudgetExceeded(a)
      PROVE  pending'[d] = NoEntry
    BY <1>20 DEF BudgetExceeded, files, Untouched, Of
<1>21. ASSUME a \in Recoveries, NEW e \in Deliveries, DeferReads(a, e)
      PROVE  pending'[d] = NoEntry
    BY <1>21 DEF DeferReads, files, Of
<1>. QED
    BY <1>1, <1>2, <1>3, <1>4, <1>5, <1>6, <1>7, <1>8, <1>9, <1>10, <1>11,
       <1>12, <1>13, <1>14, <1>15, <1>16, <1>17, <1>18, <1>19, <1>20, <1>21,
       Zenon
       DEF Acts

\* As long as no recovery runs out of time and all deliveries are live sends:
\* no update of a file overtakes the acknowledgement, or the move to failed/,
\* by another actor.
THEOREM WhatIsGoneStaysGone ==
    ASSUME BudgetEnds = FALSE, "notice" \notin Policies
    PROVE  Spec => GoneStaysGone
<1>1. ASSUME MarkInv, Next
      PROVE  \A d \in Deliveries :
                pc[d] # "new" /\ pending[d] = NoEntry => pending'[d] = NoEntry
  <2>1. \A r \in Recoveries, d \in Deliveries : ~DeferWrites(r, d)
      BY <1>1 DEF DeferWrites, MarkInv, NothingIsDeferred
  <2>2. CASE Crash
      BY <2>2 DEF Crash, files
  <2>. QED
      BY <1>1, <2>1, <2>2, ActorsBringNothingBack, NextCases
<1>2. MarkInv /\ [Next]_vars =>
         [\A d \in Deliveries :
            pc[d] # "new" /\ pending[d] = NoEntry => pending'[d] = NoEntry]_vars
    BY <1>1
<1>3. MarkInv /\ [Next]_vars => MarkInv'
    BY MarkInvStep
<1>. QED
    BY <1>2, <1>3, MarkInvInit, PTL DEF Spec, GoneStaysGone

-----------------------------------------------------------------------------
(***************************************************************************)
(* Who is at an entry.                                                     *)
(***************************************************************************)

\* Somebody has claimed d and is in one of the given states.
Someone(d, states) ==
    \E a \in Actors : Claims(a) /\ Of(a) = d /\ pc[a] \in states

LEMMA NobodyElse ==
    ASSUME ClaimInv, NEW a \in Actors, Claims(a), NEW states,
           Someone(Of(a), states)
    PROVE  pc[a] \in states
BY ClaimingMeans DEF ClaimInv, TypeInv, ClaimsAreExclusive, Someone

LEMMA SomeoneStays ==
    ASSUME TypeInv, TypeOK', NEW a \in Actors, ActorStep(a),
           NEW d \in Deliveries, NEW states, Someone(d, states),
           Claims(a) /\ Of(a) = d /\ pc[a] \in states =>
               Claims(a)' /\ Of(a)' = d /\ pc'[a] \in states
    PROVE  Someone(d, states)'
<1>1. PICK b \in Actors : Claims(b) /\ Of(b) = d /\ pc[b] \in states
    BY DEF Someone
<1>2. CASE b = a
    BY <1>1, <1>2 DEF Someone
<1>3. CASE b # a
    BY <1>1, <1>3, ClaimsAreKept DEF ActorStep, OthersKeep, Someone
<1>. QED
    BY <1>2, <1>3

-----------------------------------------------------------------------------
(***************************************************************************)
(* Replays are bounded: on a disk that works.                              *)
(***************************************************************************)

\* What the process asks of its surroundings for the rest.
Calm ==
    /\ BudgetEnds = FALSE
    /\ DiskFaults = FALSE
    /\ "notice" \notin Policies

Failing == {"failing", "failingWrite"}

\* An attempt that failed is in the file, or its worker is about to write it.
Counted(d) ==
    /\ attempts[d] =< MaxRetries
    /\ pending[d] # NoEntry =>
         /\ attempts[d] =< pending[d].retryCount + 1
         /\ Someone(d, Failing) \/ attempts[d] =< pending[d].retryCount

\* A worker sends what may still be tried.
MayBeTried(a) ==
    a \in Workers /\ pc[a] \in {"reconciling", "sending"} =>
        /\ pending[Of(a)] # NoEntry
        /\ pending[Of(a)].retryCount < MaxRetries

CountInv ==
    /\ MarkInv
    /\ \A d \in Deliveries : Counted(d)
    /\ \A a \in Actors : MayBeTried(a)

\* Files and attempts untouched, nobody stops failing: the counts stay right.
LEMMA CountsStay ==
    ASSUME TypeInv, TypeOK', NEW a \in Actors, ActorStep(a),
           NEW d \in Deliveries, Counted(d),
           pending'[d] = NoEntry \/ pending'[d] = pending[d],
           attempts'[d] = attempts[d],
           pending'[d] # NoEntry /\ Of(a) = d /\ pc[a] \in Failing =>
               Claims(a)' /\ pc'[a] \in Failing
    PROVE  Counted(d)'
<1>1. CASE pending'[d] = NoEntry
    BY <1>1 DEF Counted
<1>2. CASE pending'[d] # NoEntry
  <2>1. Claims(a) /\ Of(a) = d /\ pc[a] \in Failing =>
           Claims(a)' /\ Of(a)' = d /\ pc'[a] \in Failing
      BY <1>2 DEF ActorStep, ClaimStep
  <2>2. Someone(d, Failing) => Someone(d, Failing)'
      BY <2>1, SomeoneStays
  <2>. QED
      BY <1>2, <2>2 DEF Counted
<1>. QED
    BY <1>1, <1>2

\* Neither do the markers' writes, which keep the count of the file.
LEMMA MarkingKeepsCounts ==
    ASSUME TypeInv, TypeOK', NEW a \in Actors, ActorStep(a),
           NEW d \in Deliveries, Counted(d),
           pending[d] # NoEntry,
           pending'[d].retryCount = pending[d].retryCount,
           attempts'[d] = attempts[d], Of(a) = d => pc[a] \notin Failing
    PROVE  Counted(d)'
<1>1. Someone(d, Failing) => Someone(d, Failing)'
    BY SomeoneStays
<1>. QED
    BY <1>1 DEF Counted

LEMMA ActorsCount ==
    ASSUME CountInv, TypeInv', Calm, NEW a \in Actors, Acts(a),
           NEW d \in Deliveries, Of(a) = d
    PROVE  Counted(d)'
<1>. TypeInv /\ TypeOK' /\ ActorStep(a)
    BY ActorsTakeActorSteps DEF CountInv, MarkInv, ClaimInv, TypeInv
<1>. Counted(d)
    BY DEF CountInv
<1>. DEFINE Kept == Counted(d)'
<1>1. ASSUME AckDelivery(a)
      PROVE  Kept
  <2>1. pending'[d] = NoEntry /\ attempts'[d] = attempts[d]
      BY <1>1 DEF AckDelivery, history, Calm, TypeInv, TypeOK
  <2>. QED
      BY <2>1, CountsStay
<1>2. ASSUME FailDeliveryReads(a)
      PROVE  Kept
  <2>1. pending' = pending /\ attempts' = attempts
      BY <1>2 DEF FailDeliveryReads, files, history
  <2>2. pending[d] # NoEntry => pc'[a] = "failingWrite" /\ Of(a)' = Of(a)
      BY <1>2 DEF FailDeliveryReads, Goto, Calm, Of, TypeInv, TypeOK
  <2>3. Claims(a) /\ pending[d] # NoEntry => Claims(a)'
      BY <1>2, <2>2, EveryDeliveryIsLive, ActorsAreApart
         DEF FailDeliveryReads, Claims, AtWork, Calm, TypeInv, Live, Notices
  <2>4. Claims(a)
      BY <1>2, EveryDeliveryIsLive, ActorsAreApart
         DEF FailDeliveryReads, Claims, AtWork, Calm, TypeInv
  <2>. QED
      BY <2>1, <2>2, <2>3, <2>4, CountsStay DEF Failing
<1>3. ASSUME FailDeliveryWrites(a)
      PROVE  Kept
  <2>1. entryRead[a] = pending[d] /\ entryRead[a] # NoEntry
      BY <1>3, EveryDeliveryIsLive, ActorsAreApart
         DEF FailDeliveryWrites, CountInv, MarkInv, HeldFileIsCurrent, Claims,
             AtWork, WriteStates, WritersHoldAFile, TypeInv, Calm
  <2>2. /\ pending'[d].retryCount = pending[d].retryCount + 1
        /\ attempts' = attempts
      BY <1>3, <2>1, RetriesAreTyped
         DEF FailDeliveryWrites, history, TypeInv, TypeOK
  <2>. QED
      BY <2>1, <2>2, FilesAreTyped DEF Counted, TypeInv, TypeOK
<1>4. ASSUME a \in Deliveries, EnqueueDelivery(a)
      PROVE  Kept
  <2>1. d = a /\ attempts[d] = 0
      BY <1>4, ActorsAreApart
         DEF EnqueueDelivery, CountInv, MarkInv, NewOnesAreUnknown, Of
  <2>2. /\ pending'[d].retryCount = 0
        /\ attempts' = attempts
      BY <1>4, <2>1 DEF EnqueueDelivery, history, TypeInv, TypeOK
  <2>. QED
      BY <2>1, <2>2, BoundsAssumption DEF Counted
<1>5. ASSUME a \in Live, ClaimLive(a)
      PROVE  Kept
  <2>1. pending' = pending /\ attempts' = attempts
      BY <1>5 DEF ClaimLive, files, history
  <2>2. pc[a] \notin Failing
      BY <1>5 DEF ClaimLive, Failing
  <2>. QED
      BY <2>1, <2>2, CountsStay
<1>6. ASSUME a \in Live, Render(a)
      PROVE  Kept
  <2>1. pending' = pending /\ attempts' = attempts
      BY <1>6 DEF Render, files
  <2>2. pc[a] \notin Failing
      BY <1>6 DEF Render, Failing
  <2>. QED
      BY <2>1, <2>2, CountsStay
<1>7. ASSUME a \in Live, MarkStartedReads(a)
      PROVE  Kept
  <2>1. pending' = pending /\ attempts' = attempts
      BY <1>7 DEF MarkStartedReads, files, history
  <2>2. pc[a] \notin Failing
      BY <1>7 DEF MarkStartedReads, Failing
  <2>. QED
      BY <2>1, <2>2, CountsStay
<1>8. ASSUME a \in Live, MarkStartedWrites(a)
      PROVE  Kept
  <2>1. /\ Of(a) = a
        /\ entryRead[a] = pending[a]
        /\ entryRead[a] # NoEntry
      BY <1>8, ActorsAreApart
         DEF MarkStartedWrites, CountInv, MarkInv, HeldFileIsCurrent, Claims,
             AtWork, WriteStates, WritersHoldAFile, TypeInv, Of
  <2>2. /\ pending'[a].retryCount = pending[a].retryCount
        /\ attempts' = attempts
      BY <1>8, <2>1, StatesAreTyped, FilesAreTyped, ActorsAreApart
         DEF MarkStartedWrites, history, TypeInv, TypeOK, States
  <2>. QED
      BY <1>8, <2>1, <2>2, MarkingKeepsCounts DEF MarkStartedWrites, Failing
<1>9. ASSUME a \in Live, MarkUnknownReads(a)
      PROVE  Kept
  <2>1. pending' = pending /\ attempts' = attempts
      BY <1>9 DEF MarkUnknownReads, files, history
  <2>2. pc[a] \notin Failing
      BY <1>9 DEF MarkUnknownReads, Failing
  <2>. QED
      BY <2>1, <2>2, CountsStay
<1>10. ASSUME a \in Live, MarkUnknownWrites(a)
      PROVE  Kept
  <2>1. /\ Of(a) = a
        /\ entryRead[a] = pending[a]
        /\ entryRead[a] # NoEntry
      BY <1>10, ActorsAreApart
         DEF MarkUnknownWrites, CountInv, MarkInv, HeldFileIsCurrent, Claims,
             AtWork, WriteStates, WritersHoldAFile, TypeInv, Of
  <2>2. /\ pending'[a].retryCount = pending[a].retryCount
        /\ attempts' = attempts
      BY <1>10, <2>1, StatesAreTyped, FilesAreTyped, ActorsAreApart
         DEF MarkUnknownWrites, history, TypeInv, TypeOK, States
  <2>. QED
      BY <1>10, <2>1, <2>2, MarkingKeepsCounts DEF MarkUnknownWrites, Failing
<1>11. ASSUME a \in Live, NEW o \in Outcomes, SendLive(a, o)
      PROVE  Kept
  <2>1. pending' = pending /\ attempts' = attempts
      BY <1>11 DEF SendLive, files
  <2>2. pc[a] \notin Failing
      BY <1>11 DEF SendLive, Failing
  <2>. QED
      BY <2>1, <2>2, CountsStay
<1>12. ASSUME a \in Notices, NEW o \in Outcomes, SendNotice(a, o)
      PROVE  Kept
  <2>1. pending' = pending /\ attempts' = attempts
      BY <1>12 DEF SendNotice, files
  <2>2. pc[a] \notin Failing
      BY <1>12 DEF SendNotice, Failing
  <2>. QED
      BY <2>1, <2>2, CountsStay
<1>13. ASSUME a \in Workers, LoadPendingDeliveries(a)
      PROVE  Kept
  <2>1. pending' = pending /\ attempts' = attempts
      BY <1>13 DEF LoadPendingDeliveries, files, history
  <2>2. pc[a] \notin Failing
      BY <1>13 DEF LoadPendingDeliveries, Failing
  <2>. QED
      BY <2>1, <2>2, CountsStay
<1>14. ASSUME a \in Workers, NEW e \in Deliveries, ClaimRecoveryEntry(a, e)
      PROVE  Kept
  <2>1. pending' = pending /\ attempts' = attempts
      BY <1>14 DEF ClaimRecoveryEntry, files, history
  <2>2. pc[a] \notin Failing
      BY <1>14 DEF ClaimRecoveryEntry, Failing
  <2>. QED
      BY <2>1, <2>2, CountsStay
<1>15. ASSUME a \in Workers, RereadAfterClaim(a)
      PROVE  Kept
  <2>1. pending' = pending /\ attempts' = attempts
      BY <1>15 DEF RereadAfterClaim, files, history, Untouched
  <2>2. pc[a] \notin Failing
      BY <1>15 DEF RereadAfterClaim, Failing
  <2>. QED
      BY <2>1, <2>2, CountsStay
<1>16. ASSUME a \in Workers, Reconcile(a)
      PROVE  Kept
  <2>1. pending' = pending /\ attempts' = attempts
      BY <1>16 DEF Reconcile, files, history, Untouched
  <2>2. pc[a] \notin Failing
      BY <1>16 DEF Reconcile, Failing
  <2>. QED
      BY <2>1, <2>2, CountsStay
<1>17. ASSUME a \in Workers, NEW o \in Outcomes, Replay(a, o)
      PROVE  Kept
  <2>1. Claims(a) /\ a \in Workers
      BY <1>17 DEF Replay, Claims, AtWork
  <2>2. ~Someone(d, Failing)
      BY <1>17, <2>1, NobodyElse DEF Replay, Failing, CountInv, MarkInv
  <2>3. /\ pending[d] # NoEntry
        /\ pending[d].retryCount < MaxRetries
      BY <1>17 DEF Replay, CountInv, MayBeTried
  <2>4. pending' = pending /\ current' = current
      BY <1>17 DEF Replay, files
  <2>5. \/ attempts'[d] = attempts[d]
        \/ /\ attempts'[d] = attempts[d] + 1
           /\ pc'[a] = "failing"
      BY <1>17, <2>1, ActorsAreApart DEF Replay, Goto, Of, TypeInv, TypeOK
  <2>6. pc'[a] = "failing" => Someone(d, Failing)'
      BY <2>1, <2>4 DEF Someone, Claims, AtWork, Failing, Of
  <2>. QED
      BY <2>2, <2>3, <2>4, <2>5, <2>6, FilesAreTyped, BoundsAssumption
         DEF Counted, TypeInv, TypeOK
<1>18. ASSUME a \in Workers, MoveToFailed(a)
      PROVE  Kept
  <2>1. /\ pending'[d] = NoEntry
        /\ attempts'[d] = attempts[d]
      BY <1>18 DEF MoveToFailed, files, history, Calm, TypeInv, TypeOK, Of
  <2>. QED
      BY <2>1, CountsStay
<1>19. ASSUME a \in Workers, EndOfScan(a)
      PROVE  Kept
  <2>1. pending' = pending /\ attempts' = attempts
      BY <1>19 DEF EndOfScan, files, history, Untouched
  <2>2. pc[a] \notin Failing
      BY <1>19 DEF EndOfScan, Failing
  <2>. QED
      BY <2>1, <2>2, CountsStay
<1>20. ASSUME a \in Recoveries, BudgetExceeded(a)
      PROVE  Kept
  <2>1. pending' = pending /\ attempts' = attempts
      BY <1>20 DEF BudgetExceeded, files, history, Untouched
  <2>2. pc[a] \notin Failing
      BY <1>20 DEF BudgetExceeded, Failing
  <2>. QED
      BY <2>1, <2>2, CountsStay
<1>21. ASSUME a \in Recoveries, NEW e \in Deliveries, DeferReads(a, e)
      PROVE  Kept
  <2>1. pending' = pending /\ attempts' = attempts
      BY <1>21 DEF DeferReads, files, history
  <2>2. pc[a] \notin Failing
      BY <1>21 DEF DeferReads, Failing
  <2>. QED
      BY <2>1, <2>2, CountsStay
<1>. QED
    BY <1>1, <1>2, <1>3, <1>4, <1>5, <1>6, <1>7, <1>8, <1>9, <1>10, <1>11,
       <1>12, <1>13, <1>14, <1>15, <1>16, <1>17, <1>18, <1>19, <1>20, <1>21,
       Zenon
       DEF Acts

LEMMA ActorsTryWhatTheyMay ==
    ASSUME CountInv, Calm, NEW a \in Actors, Acts(a)
    PROVE  MayBeTried(a)'
<1>. USE FilesAreTyped, ActorsAreApart
     DEF CountInv, MarkInv, ClaimInv, TypeInv, TypeOK
<1>. DEFINE Kept == MayBeTried(a)'
<1>1. ASSUME AckDelivery(a)
      PROVE  Kept
    BY <1>1 DEF AckDelivery, history, Goto, Leave, MayBeTried, Of
<1>2. ASSUME FailDeliveryReads(a)
      PROVE  Kept
    BY <1>2 DEF FailDeliveryReads, files, history, Goto, Leave, MayBeTried, Of
<1>3. ASSUME FailDeliveryWrites(a)
      PROVE  Kept
    BY <1>3 DEF FailDeliveryWrites, history, Goto, Leave, MayBeTried, Of
<1>4. ASSUME a \in Deliveries, EnqueueDelivery(a)
      PROVE  Kept
    BY <1>4 DEF EnqueueDelivery, history, Goto, MayBeTried, Of
<1>5. ASSUME a \in Live, ClaimLive(a)
      PROVE  Kept
    BY <1>5 DEF ClaimLive, files, history, Goto, MayBeTried, Of
<1>6. ASSUME a \in Live, Render(a)
      PROVE  Kept
    BY <1>6 DEF Render, files, Goto, MayBeTried, Of
<1>7. ASSUME a \in Live, MarkStartedReads(a)
      PROVE  Kept
    BY <1>7 DEF MarkStartedReads, files, history, Goto, MayBeTried, Of
<1>8. ASSUME a \in Live, MarkStartedWrites(a)
      PROVE  Kept
    BY <1>8 DEF MarkStartedWrites, history, Goto, MayBeTried, Of
<1>9. ASSUME a \in Live, MarkUnknownReads(a)
      PROVE  Kept
    BY <1>9 DEF MarkUnknownReads, files, history, Goto, Leave, MayBeTried, Of
<1>10. ASSUME a \in Live, MarkUnknownWrites(a)
      PROVE  Kept
    BY <1>10 DEF MarkUnknownWrites, history, Goto, MayBeTried, Of
<1>11. ASSUME a \in Live, NEW o \in Outcomes, SendLive(a, o)
      PROVE  Kept
    BY <1>11, OutcomesAreKnown DEF SendLive, files, Goto, MayBeTried, Of
<1>12. ASSUME a \in Notices, NEW o \in Outcomes, SendNotice(a, o)
      PROVE  Kept
    BY <1>12, OutcomesAreKnown DEF SendNotice, files, Goto, MayBeTried, Of
<1>13. ASSUME a \in Workers, LoadPendingDeliveries(a)
      PROVE  Kept
    BY <1>13 DEF LoadPendingDeliveries, files, history, Goto, MayBeTried, Of
<1>14. ASSUME a \in Workers, NEW d \in Deliveries, ClaimRecoveryEntry(a, d)
      PROVE  Kept
    BY <1>14 DEF ClaimRecoveryEntry, files, history, Goto, MayBeTried, Of
<1>15. ASSUME a \in Workers, RereadAfterClaim(a)
      PROVE  Kept
    BY <1>15
       DEF RereadAfterClaim, files, history, Untouched, Goto, Leave, AbortScan,
           MayBeTried, Of
<1>16. ASSUME a \in Workers, Reconcile(a)
      PROVE  Kept
    BY <1>16 DEF Reconcile, files, history, Untouched, Goto, MayBeTried, Of
<1>17. ASSUME a \in Workers, NEW o \in Outcomes, Replay(a, o)
      PROVE  Kept
    BY <1>17, OutcomesAreKnown DEF Replay, files, Goto, MayBeTried, Of
<1>18. ASSUME a \in Workers, MoveToFailed(a)
      PROVE  Kept
    BY <1>18
       DEF MoveToFailed, files, history, Goto, Leave, AbortScan, MayBeTried, Of
<1>19. ASSUME a \in Workers, EndOfScan(a)
      PROVE  Kept
    BY <1>19 DEF EndOfScan, files, history, Untouched, Goto, MayBeTried, Of
<1>20. ASSUME a \in Recoveries, BudgetExceeded(a)
      PROVE  Kept
    BY <1>20
       DEF BudgetExceeded, files, history, Untouched, Goto, MayBeTried, Of
<1>21. ASSUME a \in Recoveries, NEW d \in Deliveries, DeferReads(a, d)
      PROVE  Kept
    BY <1>21 DEF DeferReads, files, history, MayBeTried, Of
<1>. QED
    BY <1>1, <1>2, <1>3, <1>4, <1>5, <1>6, <1>7, <1>8, <1>9, <1>10, <1>11,
       <1>12, <1>13, <1>14, <1>15, <1>16, <1>17, <1>18, <1>19, <1>20, <1>21,
       Zenon
       DEF Acts

LEMMA CrashResetsCounts ==
    ASSUME CountInv, Crash
    PROVE  /\ \A d \in Deliveries : Counted(d)'
           /\ \A a \in Actors : MayBeTried(a)'
<1>. USE FilesAreTyped, ActorsAreApart
     DEF CountInv, MarkInv, ClaimInv, TypeInv, TypeOK, Crash, files
<1>1. \A d \in Deliveries : Counted(d)'
    BY BoundsAssumption DEF Counted
<1>2. \A a \in Actors : MayBeTried(a)'
    BY DEF MayBeTried
<1>. QED
    BY <1>1, <1>2

LEMMA CountInvStep ==
    ASSUME CountInv, Calm, [Next]_vars
    PROVE  CountInv'
<1>1. MarkInv /\ MarkInv' /\ ClaimInv /\ TypeInv /\ TypeInv'
    BY MarkInvStep DEF CountInv, Calm, MarkInv, ClaimInv
<1>2. ASSUME NEW a \in Actors, Acts(a)
      PROVE  CountInv'
  <2>0. ActorStep(a) /\ Live = Deliveries
      BY <1>1, <1>2, ActorsTakeActorSteps, EveryDeliveryIsLive DEF Calm, TypeInv
  <2>1. ASSUME NEW d \in Deliveries
        PROVE  Counted(d)'
    <3>1. CASE Of(a) = d
        BY <1>1, <1>2, <3>1, ActorsCount
    <3>2. CASE Of(a) # d
        BY <1>1, <2>0, <3>2, CountsStay
           DEF ActorStep, OthersKeep, CountInv, TypeInv
    <3>. QED
        BY <3>1, <3>2
  <2>2. ASSUME NEW b \in Actors
        PROVE  MayBeTried(b)'
    <3>1. CASE b = a
        BY <1>2, <3>1, ActorsTryWhatTheyMay
    <3>2. CASE b # a
      <4>1. SUFFICES ASSUME b \in Workers, pc[b] \in {"reconciling", "sending"}
                     PROVE  MayBeTried(b)'
          BY <2>0, <3>2 DEF MayBeTried, ActorStep, OthersKeep
      <4>2. Claims(b) /\ Of(b) \in Live /\ Of(b)' = Of(b)
          BY <1>1, <2>0, <3>2, <4>1, OwnEntry
             DEF Claims, AtWork, Of, ActorStep, OthersKeep
      <4>3. pending'[Of(b)] = pending[Of(b)]
          BY <1>1, <2>0, <3>2, <4>2, ClaimsProtect DEF MarkInv
      <4>. QED
          BY <4>1, <4>2, <4>3 DEF CountInv, MayBeTried
    <3>. QED
        BY <3>1, <3>2
  <2>. QED
      BY <1>1, <2>1, <2>2 DEF CountInv
<1>3. CASE Crash
    BY <1>1, <1>3, CrashResetsCounts DEF CountInv
<1>4. ASSUME NEW r \in Recoveries, NEW d \in Deliveries, DeferWrites(r, d)
      PROVE  FALSE
    BY <1>1, <1>4 DEF DeferWrites, MarkInv, NothingIsDeferred
<1>5. CASE UNCHANGED vars
  <2>. USE <1>5 DEF vars, files, memory, history, Claims, Of, Live, Notices
  <2>1. ASSUME NEW d \in Deliveries
        PROVE  Counted(d)'
      BY DEF CountInv, Counted, Someone
  <2>2. ASSUME NEW b \in Actors
        PROVE  MayBeTried(b)'
      BY DEF CountInv, MayBeTried
  <2>. QED
      BY <1>1, <2>1, <2>2 DEF CountInv
<1>. QED
    BY <1>2, <1>3, <1>4, <1>5, NextCases

LEMMA CountInvInit ==
    ASSUME Init
    PROVE  CountInv
<1>1. \A d \in Deliveries : Counted(d)
    BY BoundsAssumption DEF Init, Counted
<1>2. \A a \in Actors : MayBeTried(a)
    BY ActorsAreApart DEF Init, MayBeTried
<1>. QED
    BY <1>1, <1>2, MarkInvInit DEF CountInv

\* As long as no recovery runs out of time, the disk works and all deliveries
\* are live sends: a poisoned entry is replayed at most MaxRetries times in a
\* process, however many workers there are.
THEOREM ReplaysStayBounded ==
    ASSUME Calm
    PROVE  Spec => []ReplaysAreBounded
<1>1. CountInv => ReplaysAreBounded
    BY DEF CountInv, Counted, ReplaysAreBounded
<1>2. CountInv /\ [Next]_vars => CountInv'
    BY CountInvStep
<1>. QED
    BY <1>1, <1>2, CountInvInit, PTL DEF Spec

-----------------------------------------------------------------------------
(***************************************************************************)
(* Nobody sees a message twice: for required sends, in one process, on a   *)
(* platform that shows what it takes and nothing else.                     *)
(***************************************************************************)

Honest ==
    /\ Calm
    /\ CrashCap = 0
    /\ Policies \subseteq {"required"}
    /\ "errorAfterSend" \notin Outcomes

\* States between a call that showed the message and the acknowledgement.
Sent == {"returned", "returnedWrite", "acking"}

\* An entry still queued is visible only while somebody is acknowledging it.
Shown(d) ==
    /\ visible[d] =< 1
    /\ visible[d] > 0 /\ pending[d] # NoEntry => Someone(d, Sent)

HasItsFile(a) == a \in Live /\ pc[a] = "sending" => pending[a] # NoEntry

OnceInv ==
    /\ CountInv
    /\ \A d \in Deliveries : Shown(d)
    /\ \A a \in Actors : HasItsFile(a)

\* Nothing appears, nothing comes back, nobody stops acknowledging.
LEMMA ShowingStays ==
    ASSUME TypeInv, TypeOK', NEW a \in Actors, ActorStep(a),
           NEW d \in Deliveries, Shown(d), visible'[d] = visible[d],
           pending[d] = NoEntry => pending'[d] = NoEntry,
           pending'[d] # NoEntry /\ Of(a) = d /\ pc[a] \in Sent =>
               Claims(a)' /\ pc'[a] \in Sent
    PROVE  Shown(d)'
<1>1. CASE pending'[d] = NoEntry
    BY <1>1 DEF Shown
<1>2. CASE pending'[d] # NoEntry
  <2>1. Claims(a) /\ Of(a) = d /\ pc[a] \in Sent =>
           Claims(a)' /\ Of(a)' = d /\ pc'[a] \in Sent
      BY <1>2 DEF ActorStep, ClaimStep
  <2>2. Someone(d, Sent) => Someone(d, Sent)'
      BY <2>1, SomeoneStays
  <2>. QED
      BY <1>2, <2>2 DEF Shown
<1>. QED
    BY <1>1, <1>2

\* A call from a state in which nobody acknowledges shows the message once.
LEMMA CallsShowOnce ==
    ASSUME CountInv, TypeInv, TypeOK', NEW a \in Actors, ActorStep(a),
           NEW d \in Deliveries, Of(a) = d, Shown(d), Claims(a),
           pc[a] = "sending", pending[d] # NoEntry, pending' = pending,
           \/ visible'[d] = visible[d]
           \/ Appears(d) /\ pc'[a] \in Sent /\ Claims(a)'
    PROVE  Shown(d)'
<1>1. ~Someone(d, Sent)
    BY NobodyElse DEF CountInv, MarkInv, Sent
<1>2. visible[d] = 0
  <2>1. visible[d] \in 0 .. 2
      BY DEF TypeInv, TypeOK
  <2>. QED
      BY <1>1, <2>1 DEF Shown
<1>3. CASE visible'[d] = visible[d]
    BY <1>2, <1>3 DEF Shown
<1>4. CASE Appears(d) /\ pc'[a] \in Sent /\ Claims(a)'
  <2>1. visible'[d] = 1
      BY <1>2, <1>4 DEF Appears, TypeInv, TypeOK
  <2>2. Of(a)' = d
      BY <1>4 DEF ActorStep, ClaimStep
  <2>3. Someone(d, Sent)'
      BY <1>4, <2>2, ActorsAreApart DEF Someone
  <2>. QED
      BY <2>1, <2>3 DEF Shown
<1>. QED
    BY <1>3, <1>4

LEMMA ActorsShowOnce ==
    ASSUME OnceInv, TypeInv', Honest, NEW a \in Actors, Acts(a),
           NEW d \in Deliveries, Of(a) = d
    PROVE  Shown(d)'
<1>. /\ TypeInv /\ TypeOK' /\ ActorStep(a)
     /\ Shown(d) /\ CountInv /\ MarkInv
     /\ Live = Deliveries /\ Notices = {}
    BY ActorsTakeActorSteps, EveryDeliveryIsLive
       DEF OnceInv, CountInv, MarkInv, ClaimInv, TypeInv, Honest, Calm
<1>0. pc[d] # "new" /\ pending[d] = NoEntry => pending'[d] = NoEntry
    BY ActorsBringNothingBack DEF Honest, Calm
<1>. DEFINE Kept == Shown(d)'
<1>. HIDE DEF Kept
<1>1. ASSUME AckDelivery(a)
      PROVE  Kept
  <2>1. pending'[d] = NoEntry /\ visible' = visible
      BY <1>1 DEF AckDelivery, history, Calm, TypeInv, TypeOK, Honest
  <2>. QED
      BY <2>1, ShowingStays DEF Kept
<1>2. ASSUME FailDeliveryReads(a)
      PROVE  Kept
  <2>1. visible' = visible
      BY <1>2 DEF FailDeliveryReads, history
  <2>2. pc[a] \notin Sent
      BY <1>2 DEF FailDeliveryReads, Sent
  <2>3. pending' = pending
      BY <1>2 DEF FailDeliveryReads, files
  <2>. QED
      BY <1>0, <2>1, <2>2, <2>3, ShowingStays DEF Kept
<1>3. ASSUME FailDeliveryWrites(a)
      PROVE  Kept
  <2>1. visible' = visible
      BY <1>3 DEF FailDeliveryWrites, history
  <2>2. pc[a] \notin Sent
      BY <1>3 DEF FailDeliveryWrites, Sent
  <2>3. Claims(a)
      BY <1>3, ActorsAreApart DEF FailDeliveryWrites, Claims, AtWork
  <2>4. pending[d] # NoEntry
      BY <1>3, <2>3, ActorsAreApart
         DEF FailDeliveryWrites, MarkInv, HeldFileIsCurrent, WriteStates,
             WritersHoldAFile, TypeInv
  <2>. QED
      BY <2>1, <2>2, <2>4, ShowingStays DEF Kept
<1>4. ASSUME a \in Deliveries, EnqueueDelivery(a)
      PROVE  Kept
  <2>1. visible' = visible /\ visible[d] = 0
      BY <1>4, ActorsAreApart
         DEF EnqueueDelivery, history, MarkInv, NewOnesAreUnknown, Of
  <2>. QED
      BY <2>1 DEF Kept, Shown
<1>5. ASSUME a \in Live, ClaimLive(a)
      PROVE  Kept
  <2>1. visible' = visible
      BY <1>5 DEF ClaimLive, history
  <2>2. pc[a] \notin Sent
      BY <1>5 DEF ClaimLive, Sent
  <2>3. d = a /\ pc[a] # "new"
      BY <1>5, ActorsAreApart DEF ClaimLive, Of
  <2>. QED
      BY <1>0, <2>1, <2>2, <2>3, ShowingStays DEF Kept
<1>6. ASSUME a \in Live, Render(a)
      PROVE  Kept
  <2>1. visible' = visible
      BY <1>6 DEF Render, history
  <2>2. pc[a] \notin Sent
      BY <1>6 DEF Render, Sent
  <2>3. d = a /\ pc[a] # "new"
      BY <1>6, ActorsAreApart DEF Render, Of
  <2>. QED
      BY <1>0, <2>1, <2>2, <2>3, ShowingStays DEF Kept
<1>7. ASSUME a \in Live, MarkStartedReads(a)
      PROVE  Kept
  <2>1. visible' = visible
      BY <1>7 DEF MarkStartedReads, history
  <2>2. pc[a] \notin Sent
      BY <1>7 DEF MarkStartedReads, Sent
  <2>3. d = a /\ pc[a] # "new"
      BY <1>7, ActorsAreApart DEF MarkStartedReads, Of
  <2>. QED
      BY <1>0, <2>1, <2>2, <2>3, ShowingStays DEF Kept
<1>8. ASSUME a \in Live, MarkStartedWrites(a)
      PROVE  Kept
  <2>1. visible' = visible
      BY <1>8 DEF MarkStartedWrites, history
  <2>2. pc[a] \notin Sent
      BY <1>8 DEF MarkStartedWrites, Sent
  <2>3. d = a /\ pc[a] # "new"
      BY <1>8, ActorsAreApart DEF MarkStartedWrites, Of
  <2>. QED
      BY <1>0, <2>1, <2>2, <2>3, ShowingStays DEF Kept
<1>9. ASSUME a \in Live, MarkUnknownReads(a)
      PROVE  Kept
  <2>1. visible' = visible /\ pending' = pending /\ d = a /\ pc[a] # "new"
      BY <1>9, ActorsAreApart DEF MarkUnknownReads, history, files, Of
  <2>2. pending[d] # NoEntry => pc'[a] = "returnedWrite" /\ Claims(a)'
      BY <1>9, <2>1, ActorsAreApart
         DEF MarkUnknownReads, Goto, Honest, Calm, TypeInv, TypeOK, Claims,
             Live, Notices
  <2>. QED
      BY <1>0, <2>1, <2>2, ShowingStays DEF Kept, Sent
<1>10. ASSUME a \in Live, MarkUnknownWrites(a)
      PROVE  Kept
  <2>1. visible' = visible /\ d = a /\ pc[a] # "new"
      BY <1>10, ActorsAreApart DEF MarkUnknownWrites, history, Of
  <2>2. pc'[a] = "acking" /\ Claims(a)'
      BY <1>10, <2>1, ActorsAreApart
         DEF MarkUnknownWrites, Goto, TypeInv, TypeOK, Claims, Live, Notices
  <2>. QED
      BY <1>0, <2>1, <2>2, ShowingStays DEF Kept, Sent
<1>11. ASSUME a \in Live, NEW o \in Outcomes, SendLive(a, o)
      PROVE  Kept
  <2>1. pending' = pending /\ d = a /\ pc[a] = "sending" /\ policy' = policy
      BY <1>11, ActorsAreApart DEF SendLive, files, Of
  <2>2. Claims(a) /\ pending[d] # NoEntry
      BY <1>11, <2>1, ActorsAreApart DEF Claims, OnceInv, HasItsFile
  <2>3. \/ visible' = visible
        \/ Appears(d) /\ pc'[a] \in Sent
      BY <1>11, <2>1, OutcomesAreKnown
         DEF SendLive, Goto, TypeInv, TypeOK, Honest, Sent
  <2>4. pc'[a] \in Sent => Claims(a)'
      BY <2>1, ActorsAreApart DEF Claims, Live, Notices, Sent
  <2>. QED
      BY <2>1, <2>2, <2>3, <2>4, CallsShowOnce DEF Kept
<1>12. ASSUME a \in Notices, NEW o \in Outcomes, SendNotice(a, o)
      PROVE  Kept
    BY <1>12
<1>13. ASSUME a \in Workers, LoadPendingDeliveries(a)
      PROVE  Kept
  <2>1. visible' = visible
      BY <1>13 DEF LoadPendingDeliveries, history
  <2>2. pc[a] \notin Sent
      BY <1>13 DEF LoadPendingDeliveries, Sent
  <2>3. pending' = pending
      BY <1>13 DEF LoadPendingDeliveries, files, history
  <2>. QED
      BY <1>0, <2>1, <2>2, <2>3, ShowingStays DEF Kept
<1>14. ASSUME a \in Workers, NEW e \in Deliveries, ClaimRecoveryEntry(a, e)
      PROVE  Kept
  <2>1. visible' = visible
      BY <1>14 DEF ClaimRecoveryEntry, history
  <2>2. pc[a] \notin Sent
      BY <1>14 DEF ClaimRecoveryEntry, Sent
  <2>3. pending' = pending
      BY <1>14 DEF ClaimRecoveryEntry, files, history
  <2>. QED
      BY <1>0, <2>1, <2>2, <2>3, ShowingStays DEF Kept
<1>15. ASSUME a \in Workers, RereadAfterClaim(a)
      PROVE  Kept
  <2>1. visible' = visible
      BY <1>15 DEF RereadAfterClaim, history, Untouched
  <2>2. pc[a] \notin Sent
      BY <1>15 DEF RereadAfterClaim, Sent
  <2>3. pending' = pending
      BY <1>15 DEF RereadAfterClaim, files, history, Untouched
  <2>. QED
      BY <1>0, <2>1, <2>2, <2>3, ShowingStays DEF Kept
<1>16. ASSUME a \in Workers, Reconcile(a)
      PROVE  Kept
  <2>1. visible' = visible
      BY <1>16 DEF Reconcile, history, Untouched
  <2>2. pc[a] \notin Sent
      BY <1>16 DEF Reconcile, Sent
  <2>3. pending' = pending
      BY <1>16 DEF Reconcile, files, history, Untouched
  <2>. QED
      BY <1>0, <2>1, <2>2, <2>3, ShowingStays DEF Kept
<1>17. ASSUME a \in Workers, NEW o \in Outcomes, Replay(a, o)
      PROVE  Kept
  <2>1. /\ pending' = pending /\ a \in Workers /\ pc[a] = "sending"
        /\ current[a] = d
      BY <1>17, ActorsAreApart DEF Replay, files, Of
  <2>2. Claims(a) /\ pending[d] # NoEntry
      BY <1>17, <2>1 DEF Claims, AtWork, CountInv, MayBeTried
  <2>3. \/ visible' = visible
        \/ Appears(d) /\ pc'[a] = "acking"
      BY <1>17, <2>1 DEF Replay, Goto, TypeInv, TypeOK, Honest
  <2>4. pc'[a] = "acking" => Claims(a)'
      BY <2>1 DEF Claims, AtWork
  <2>. QED
      BY <2>1, <2>2, <2>3, <2>4, CallsShowOnce DEF Kept, Sent
<1>18. ASSUME a \in Workers, MoveToFailed(a)
      PROVE  Kept
  <2>1. visible' = visible
      BY <1>18 DEF MoveToFailed, history
  <2>2. pc[a] \notin Sent
      BY <1>18 DEF MoveToFailed, Sent
  <2>3. pending[d] = NoEntry => pending'[d] = NoEntry
      BY <1>18 DEF MoveToFailed, Of, files, TypeInv, TypeOK
  <2>. QED
      BY <1>0, <2>1, <2>2, <2>3, ShowingStays DEF Kept
<1>19. ASSUME a \in Workers, EndOfScan(a)
      PROVE  Kept
  <2>1. visible' = visible
      BY <1>19 DEF EndOfScan, history, Untouched
  <2>2. pc[a] \notin Sent
      BY <1>19 DEF EndOfScan, Sent
  <2>3. pending' = pending
      BY <1>19 DEF EndOfScan, files, history, Untouched
  <2>. QED
      BY <1>0, <2>1, <2>2, <2>3, ShowingStays DEF Kept
<1>20. ASSUME a \in Recoveries, BudgetExceeded(a)
      PROVE  Kept
  <2>1. visible' = visible
      BY <1>20 DEF BudgetExceeded, history, Untouched
  <2>2. pc[a] \notin Sent
      BY <1>20 DEF BudgetExceeded, Sent
  <2>3. pending' = pending
      BY <1>20 DEF BudgetExceeded, files, history, Untouched
  <2>. QED
      BY <1>0, <2>1, <2>2, <2>3, ShowingStays DEF Kept
<1>21. ASSUME a \in Recoveries, NEW e \in Deliveries, DeferReads(a, e)
      PROVE  Kept
  <2>1. visible' = visible
      BY <1>21 DEF DeferReads, history
  <2>2. pc[a] \notin Sent
      BY <1>21 DEF DeferReads, Sent
  <2>3. pending' = pending
      BY <1>21 DEF DeferReads, files, history
  <2>. QED
      BY <1>0, <2>1, <2>2, <2>3, ShowingStays DEF Kept
<1>. QED
    BY <1>1, <1>2, <1>3, <1>4, <1>5, <1>6, <1>7, <1>8, <1>9, <1>10, <1>11,
       <1>12, <1>13, <1>14, <1>15, <1>16, <1>17, <1>18, <1>19, <1>20, <1>21,
       Zenon
       DEF Acts, Kept

LEMMA ActorsHaveTheirFiles ==
    ASSUME OnceInv, Honest, NEW a \in Actors, Acts(a)
    PROVE  HasItsFile(a)'
<1>. USE FilesAreTyped, ActorsAreApart
     DEF OnceInv, CountInv, MarkInv, ClaimInv, TypeInv, TypeOK
<1>. DEFINE Kept == HasItsFile(a)'
<1>1. ASSUME AckDelivery(a)
      PROVE  Kept
    BY <1>1
       DEF AckDelivery, history, Of, Goto, Leave, HasItsFile, Live, Notices,
           Honest
<1>2. ASSUME FailDeliveryReads(a)
      PROVE  Kept
    BY <1>2
       DEF FailDeliveryReads, files, history, Of, Goto, Leave, HasItsFile,
           Live, Notices, Honest
<1>3. ASSUME FailDeliveryWrites(a)
      PROVE  Kept
    BY <1>3
       DEF FailDeliveryWrites, history, Of, Goto, Leave, HasItsFile, Live,
           Notices, Honest
<1>4. ASSUME a \in Deliveries, EnqueueDelivery(a)
      PROVE  Kept
    BY <1>4
       DEF EnqueueDelivery, history, Goto, HasItsFile, Live, Notices, Honest
<1>5. ASSUME a \in Live, ClaimLive(a)
      PROVE  Kept
    BY <1>5
       DEF ClaimLive, files, history, Goto, HasItsFile, Live, Notices, Honest
<1>6. ASSUME a \in Live, Render(a)
      PROVE  Kept
    BY <1>6 DEF Render, files, Goto, HasItsFile, Live, Notices, Honest
<1>7. ASSUME a \in Live, MarkStartedReads(a)
      PROVE  Kept
    BY <1>7
       DEF MarkStartedReads, files, history, Goto, HasItsFile, Live, Notices,
           Honest
<1>8. ASSUME a \in Live, MarkStartedWrites(a)
      PROVE  Kept
  <2>1. entryRead[a] # NoEntry
      BY <1>8 DEF MarkStartedWrites, WritersHoldAFile, WriteStates
  <2>. QED
      BY <1>8, <2>1, StatesAreTyped DEF MarkStartedWrites, HasItsFile, States
<1>9. ASSUME a \in Live, MarkUnknownReads(a)
      PROVE  Kept
    BY <1>9
       DEF MarkUnknownReads, files, history, Of, Goto, Leave, HasItsFile, Live,
           Notices, Honest
<1>10. ASSUME a \in Live, MarkUnknownWrites(a)
      PROVE  Kept
    BY <1>10
       DEF MarkUnknownWrites, history, Goto, HasItsFile, Live, Notices, Honest
<1>11. ASSUME a \in Live, NEW o \in Outcomes, SendLive(a, o)
      PROVE  Kept
    BY <1>11, OutcomesAreKnown
       DEF SendLive, files, Goto, HasItsFile, Live, Notices, Honest
<1>12. ASSUME a \in Notices, NEW o \in Outcomes, SendNotice(a, o)
      PROVE  Kept
    BY <1>12, OutcomesAreKnown
       DEF SendNotice, files, Goto, HasItsFile, Live, Notices, Honest
<1>13. ASSUME a \in Workers, LoadPendingDeliveries(a)
      PROVE  Kept
    BY <1>13
       DEF LoadPendingDeliveries, files, history, Goto, HasItsFile, Live,
           Notices, Honest
<1>14. ASSUME a \in Workers, NEW d \in Deliveries, ClaimRecoveryEntry(a, d)
      PROVE  Kept
    BY <1>14
       DEF ClaimRecoveryEntry, files, history, Goto, HasItsFile, Live, Notices,
           Honest
<1>15. ASSUME a \in Workers, RereadAfterClaim(a)
      PROVE  Kept
    BY <1>15
       DEF RereadAfterClaim, files, history, Untouched, Of, Goto, Leave,
           AbortScan, HasItsFile, Live, Notices, Honest
<1>16. ASSUME a \in Workers, Reconcile(a)
      PROVE  Kept
    BY <1>16
       DEF Reconcile, files, history, Untouched, Goto, HasItsFile, Live,
           Notices, Honest
<1>17. ASSUME a \in Workers, NEW o \in Outcomes, Replay(a, o)
      PROVE  Kept
    BY <1>17, OutcomesAreKnown
       DEF Replay, files, Goto, HasItsFile, Live, Notices, Honest
<1>18. ASSUME a \in Workers, MoveToFailed(a)
      PROVE  Kept
    BY <1>18
       DEF MoveToFailed, files, history, Of, Goto, Leave, AbortScan,
           HasItsFile, Live, Notices, Honest
<1>19. ASSUME a \in Workers, EndOfScan(a)
      PROVE  Kept
    BY <1>19
       DEF EndOfScan, files, history, Untouched, Goto, HasItsFile, Live,
           Notices, Honest
<1>20. ASSUME a \in Recoveries, BudgetExceeded(a)
      PROVE  Kept
    BY <1>20
       DEF BudgetExceeded, files, history, Untouched, Goto, HasItsFile, Live,
           Notices, Honest
<1>21. ASSUME a \in Recoveries, NEW d \in Deliveries, DeferReads(a, d)
      PROVE  Kept
    BY <1>21 DEF DeferReads, files, history, HasItsFile, Live, Notices, Honest
<1>. QED
    BY <1>1, <1>2, <1>3, <1>4, <1>5, <1>6, <1>7, <1>8, <1>9, <1>10, <1>11,
       <1>12, <1>13, <1>14, <1>15, <1>16, <1>17, <1>18, <1>19, <1>20, <1>21,
       Zenon
       DEF Acts

LEMMA OnceInvStep ==
    ASSUME OnceInv, Honest, [Next]_vars
    PROVE  OnceInv'
<1>1. CountInv /\ CountInv' /\ MarkInv /\ ClaimInv /\ TypeInv /\ TypeInv'
    BY CountInvStep DEF OnceInv, CountInv, MarkInv, ClaimInv, Honest
<1>2. ASSUME NEW a \in Actors, Acts(a)
      PROVE  OnceInv'
  <2>0. /\ ActorStep(a) /\ Live = Deliveries /\ Live' = Live
      BY <1>1, <1>2, ActorsTakeActorSteps, EveryDeliveryIsLive
         DEF Honest, Calm, TypeInv, ActorStep, OthersKeep, Live, Notices
  <2>1. ASSUME NEW d \in Deliveries
        PROVE  Shown(d)'
    <3>1. CASE Of(a) = d
        BY <1>1, <1>2, <3>1, ActorsShowOnce
    <3>2. CASE Of(a) # d
        BY <1>1, <2>0, <3>2, ShowingStays
           DEF ActorStep, OthersKeep, OnceInv, TypeInv
    <3>. QED
        BY <3>1, <3>2
  <2>2. ASSUME NEW b \in Actors
        PROVE  HasItsFile(b)'
    <3>1. CASE b = a
        BY <1>2, <3>1, ActorsHaveTheirFiles
    <3>2. CASE b # a
      <4>1. SUFFICES ASSUME b \in Live, pc[b] = "sending"
                     PROVE  pending'[b] # NoEntry
          BY <2>0, <3>2 DEF HasItsFile, ActorStep, OthersKeep
      <4>2. Claims(b) /\ Of(b) = b
          BY <2>0, <4>1, ActorsAreApart DEF Claims, Of
      <4>3. pending'[b] = pending[b]
          BY <1>1, <2>0, <3>2, <4>1, <4>2, ClaimsProtect DEF MarkInv
      <4>. QED
          BY <4>1, <4>3 DEF OnceInv, HasItsFile
    <3>. QED
        BY <3>1, <3>2
  <2>. QED
      BY <1>1, <2>1, <2>2 DEF OnceInv
<1>3. ~Crash
    BY <1>1 DEF Crash, Honest, TypeInv, TypeOK
<1>4. ASSUME NEW r \in Recoveries, NEW d \in Deliveries, DeferWrites(r, d)
      PROVE  FALSE
    BY <1>1, <1>4 DEF DeferWrites, MarkInv, NothingIsDeferred
<1>5. CASE UNCHANGED vars
  <2>. USE <1>5 DEF vars, files, memory, history, Claims, Of, Live, Notices
  <2>1. ASSUME NEW d \in Deliveries
        PROVE  Shown(d)'
      BY DEF OnceInv, Shown, Someone
  <2>2. ASSUME NEW b \in Actors
        PROVE  HasItsFile(b)'
      BY DEF OnceInv, HasItsFile
  <2>. QED
      BY <1>1, <2>1, <2>2 DEF OnceInv
<1>. QED
    BY <1>2, <1>3, <1>4, <1>5, NextCases

LEMMA OnceInvInit ==
    ASSUME Init
    PROVE  OnceInv
<1>1. \A d \in Deliveries : Shown(d)
    BY DEF Init, Shown
<1>2. \A a \in Actors : HasItsFile(a)
    BY ActorsAreApart DEF Init, HasItsFile
<1>. QED
    BY <1>1, <1>2, CountInvInit DEF OnceInv

\* Required sends, in one process whose disk works and whose recovery has time
\* enough, on a platform that shows what it takes and nothing else: whatever
\* live sends, recovery and drains do in whatever order, nobody sees a message
\* twice.
THEOREM NobodySeesAMessageTwice ==
    ASSUME Honest
    PROVE  Spec => []NoDuplicate
<1>1. OnceInv => NoDuplicate
    BY DEF OnceInv, Shown, NoDuplicate
<1>2. OnceInv /\ [Next]_vars => OnceInv'
    BY OnceInvStep
<1>. QED
    BY <1>1, <1>2, OnceInvInit, PTL DEF Spec
=============================================================================
