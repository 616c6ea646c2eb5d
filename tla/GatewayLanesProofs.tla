------------------------- MODULE GatewayLanesProofs -------------------------
(***************************************************************************)
(* The safety invariants of GatewayLanes, proved for every set of runs,    *)
(* mix of kinds, sequence of configurations and number of lanes.           *)
(*                                                                         *)
(* All but one of the gateway's steps are steps of CommandQueue, whose     *)
(* invariant IInv they keep for that reason; the exception sets the slots  *)
(* of several lanes at once.  What the gateway adds is about the order in  *)
(* which the entries of a run move (RunsNest) and the slots of the lanes   *)
(* of sessions (SessionSlots).                                             *)
(***************************************************************************)
EXTENDS GatewayLanes, CommandQueueProofs

Busy == {"queued", "running", "settled", "timedOut"}

\* What a run submits goes to the lanes of its kind.
OnItsPath ==
    \A r \in Runs, i \in 1 .. 3 :
        phase[<<r, i>>] # "new" =>
            /\ runKind[r] # "none"
            /\ i =< Depth(r)
            /\ phase[<<r, i>>] # "refused" =>
                  entry[<<r, i>>].lane = LanePath(r)[i]

\* A task that executes was started, and an outer one is still listened to.
OuterIsHeard ==
    \A r \in Runs, i \in 1 .. 3 :
        <<r, i>> \in executing =>
            /\ phase[<<r, i>>] # "new"
            /\ i < Depth(r) => phase[<<r, i>>] = "running"

\* It does not settle while the innermost one is under way.
InnerIsAwaited ==
    \A r \in Runs, i \in 1 .. 3 :
        i + 1 = Depth(r) /\ phase[<<r, i + 1>>] \in Busy =>
            phase[<<r, i>>] = "running"

RunsNest == OnItsPath /\ OuterIsHeard /\ InnerIsAwaited

\* The lane of a session has one slot, and one task in it.
SessionSlots ==
    \A l \in Lanes \ GlobalLanes :
        maxConcurrent[l] = 1 /\ Cardinality(activeTaskIds[l]) =< 1

SuspendersRun ==
    \A r \in Runs : suspension[r] # "none" => runKind[r] # "none"

GInv ==
    /\ IInv
    /\ GatewayTypeOK
    /\ RunsNest
    /\ SessionSlots
    /\ SuspendersRun
    /\ PausedLaneResumes
-----------------------------------------------------------------------------
(***************************************************************************)
(* The lanes and the entries of a run.                                     *)
(***************************************************************************)

\* A run takes the lane of its session before one of the global lanes, which
\* is the innermost.
LEMMA PathProperties ==
    ASSUME GatewayTypeOK, NEW r \in Runs
    PROVE  /\ Depth(r) \in 1 .. 3
           /\ \A i \in 1 .. Depth(r) : LanePath(r)[i] \in Lanes
           /\ runKind[r] # "none" =>
                 /\ Depth(r) \in 2 .. 3
                 /\ LanePath(r)[Depth(r)] \in GlobalLanes
                 /\ LanePath(r)[Depth(r) - 1] = SessionLane[r]
           /\ runKind[r] = "cron" => Depth(r) = 3
           /\ SessionLane[r] \in Lanes \ GlobalLanes
<1>1. runKind[r] \in RunKinds
    BY RunsAssumption DEF GatewayTypeOK
<1>2. SessionLane[r] \in Lanes \ GlobalLanes
    BY RunsAssumption
<1>3. GlobalLanes \subseteq Lanes
    BY GlobalLanesAssumption
<1>4. CASE runKind[r] = "none"
  <2>1. LanePath(r) = <<SessionLane[r]>>
    BY <1>4 DEF LanePath
  <2>. QED
    BY <1>2, <1>4, <2>1 DEF Depth
<1>5. CASE runKind[r] \in {"reply", "subagent"}
  <2>1. PICK g \in {"main", "subagent"} : LanePath(r) = <<SessionLane[r], g>>
    BY <1>5 DEF LanePath, ResolveGlobalLane
  <2>2. g \in GlobalLanes
    BY DEF GlobalLanes
  <2>. QED
    BY <1>2, <1>3, <1>5, <2>1, <2>2 DEF Depth
<1>6. CASE runKind[r] = "cron"
  <2>1. LanePath(r) = <<"cron", SessionLane[r], "cron-nested">>
    BY <1>6 DEF LanePath, ResolveGlobalLane
  <2>2. {"cron", "cron-nested"} \subseteq GlobalLanes
    BY DEF GlobalLanes
  <2>. QED
    BY <1>2, <1>3, <1>6, <2>1, <2>2 DEF Depth
<1>. QED
    BY <1>1, <1>4, <1>5, <1>6 DEF RunKinds

\* Its kind, hence its lanes, never change.
LEMMA PathsStay ==
    ASSUME runKind' = runKind, NEW r
    PROVE  Depth(r)' = Depth(r) /\ LanePath(r)' = LanePath(r)
BY DEF Depth, LanePath

\* An entry is a call of a run.
LEMMA EntriesOfRuns ==
    /\ \A r \in Runs, i \in 1 .. 3 : <<r, i>> \in Entries
    /\ \A e \in Entries : \E r \in Runs, i \in 1 .. 3 : e = <<r, i>>
BY RunsAssumption

-----------------------------------------------------------------------------
(***************************************************************************)
(* How an entry may move in a step: by itself, because it was submitted,   *)
(* or because its task settled or was given up on.                         *)
(***************************************************************************)

Advances(e) ==
    \/ phase'[e] = phase[e]
    \/ phase[e] = "queued" /\ phase'[e] \in {"running", "cleared"}
    \/ phase[e] \in {"settled", "timedOut"} /\ phase'[e] = "done"

Submitted(r, i) ==
    /\ phase[<<r, i>>] = "new"
    /\ phase'[<<r, i>>] \in {"refused", "queued", "running"}
    /\ runKind[r] # "none"
    /\ i =< Depth(r)
    /\ phase'[<<r, i>>] # "refused" => entry'[<<r, i>>].lane = LanePath(r)[i]
    /\ i > 1 => phase'[<<r, i - 1>>] = "running"

Settled(r, i) ==
    /\ phase[<<r, i>>] = "running"
    /\ phase'[<<r, i>>] = "settled"
    /\ <<r, i>> \notin executing'
    /\ i + 1 = Depth(r) => phase'[<<r, i + 1>>] \notin Busy

GivenUp(r, i) ==
    /\ phase[<<r, i>>] = "running"
    /\ phase'[<<r, i>>] = "timedOut"
    /\ i = Depth(r)

StartsToExecute(e) ==
    e \in executing' => e \in executing \/ phase'[e] = "running"

RunsMove ==
    /\ \A e \in Entries : StartsToExecute(e)
    /\ \A r \in Runs, i \in 1 .. 3 :
          \/ Advances(<<r, i>>)
          \/ Submitted(r, i)
          \/ Settled(r, i)
          \/ GivenUp(r, i)

\* drainLane starts what is queued; the operation that called it may have
\* submitted an entry, and nothing else moves.
LEMMA PumpsAdvance ==
    ASSUME IInv, NEW subjects, Pumps(subjects), NEW e \in Entries
    PROVE  /\ StartsToExecute(e)
           /\ \/ Advances(e)
              \/ /\ e \in subjects
                 /\ phase[e] = "new"
                 /\ phase'[e] \in {"queued", "running"}
<1>1. PICK q, active, phases :
           \E pumped \in SUBSET Lanes :
               PumpsFrom(subjects, pumped, q, active, phases)
    BY DEF Pumps
<1>2. PICK pumped \in SUBSET Lanes :
           PumpsFrom(subjects, pumped, q, active, phases)
    BY <1>1
<1>3. /\ PumpOutcome(pumped, q, active, phases)
      /\ Admission(q, active, phases)
    BY <1>2, DrainLanesPreserves, DrainLanesAdmits DEF PumpsFrom
<1>4. phase'[e] # phases[e] => phases[e] = "queued" /\ phase'[e] = "running"
    BY <1>3 DEF PumpOutcome
<1>5. StartsToExecute(e)
    BY <1>3, <1>4 DEF Admission, StartsToExecute
<1>6. \/ phases[e] = phase[e]
      \/ e \in subjects /\ phase[e] = "new" /\ phases[e] = "queued"
      \/ phase[e] \in {"settled", "timedOut"} /\ phases[e] = "done"
    BY <1>2 DEF PumpsFrom
<1>. QED
    BY <1>4, <1>5, <1>6 DEF Advances

\* In such steps the entries of a run stay nested.
LEMMA RunsStayNested ==
    ASSUME GatewayTypeOK, RunsNest, runKind' = runKind, ContractMoves, RunsMove
    PROVE  RunsNest'
<1>. USE DEF RunsNest
<1>1. ASSUME NEW r \in Runs, NEW i \in 1 .. 3
      PROVE  /\ <<r, i>> \in Entries
             /\ StartsToExecute(<<r, i>>)
             /\ phase[<<r, i>>] # "new" => entry'[<<r, i>>] = entry[<<r, i>>]
             /\ \/ Advances(<<r, i>>)
                \/ Submitted(r, i)
                \/ Settled(r, i)
                \/ GivenUp(r, i)
    BY EntriesOfRuns DEF RunsMove, ContractMoves, MovesOrStays
<1>2. ASSUME NEW r \in Runs
      PROVE  Depth(r)' = Depth(r) /\ LanePath(r)' = LanePath(r)
    BY PathsStay
<1>3. OnItsPath'
  <2>. SUFFICES ASSUME NEW r \in Runs, NEW i \in 1 .. 3,
                       phase'[<<r, i>>] # "new"
                PROVE  /\ runKind'[r] # "none"
                       /\ i =< Depth(r)'
                       /\ phase'[<<r, i>>] # "refused" =>
                             entry'[<<r, i>>].lane = LanePath(r)'[i]
    BY DEF OnItsPath
  <2>0. runKind' = runKind /\ Depth(r)' = Depth(r) /\ LanePath(r)' = LanePath(r)
    BY <1>2
  <2>1. CASE Submitted(r, i)
    BY <2>0, <2>1 DEF Submitted
  <2>2. CASE ~Submitted(r, i)
    <3>1. /\ phase[<<r, i>>] # "new"
          /\ phase'[<<r, i>>] # "refused" => phase[<<r, i>>] # "refused"
      BY <1>1, <2>2 DEF Advances, Settled, GivenUp
    <3>. QED
      BY <1>1, <2>0, <3>1 DEF OnItsPath
  <2>. QED
    BY <2>1, <2>2
<1>4. OuterIsHeard'
  <2>. SUFFICES ASSUME NEW r \in Runs, NEW i \in 1 .. 3,
                       <<r, i>> \in executing'
                PROVE  /\ phase'[<<r, i>>] # "new"
                       /\ i < Depth(r) => phase'[<<r, i>>] = "running"
    BY <1>2 DEF OuterIsHeard
  <2>1. CASE phase'[<<r, i>>] = "running"
    BY <2>1
  <2>2. CASE <<r, i>> \in executing
    <3>1. /\ phase[<<r, i>>] # "new"
          /\ i < Depth(r) => phase[<<r, i>>] = "running"
      BY <2>2 DEF OuterIsHeard
    <3>2. i < Depth(r) => i # Depth(r)
      BY PathProperties
    <3>3. phase'[<<r, i>>] # "new"
      BY <1>1, <3>1 DEF Advances, Submitted, Settled, GivenUp
    <3>4. ASSUME i < Depth(r) PROVE phase'[<<r, i>>] = "running"
      BY <1>1, <2>2, <3>1, <3>2, <3>4
      DEF Advances, Submitted, Settled, GivenUp
    <3>. QED
      BY <3>3, <3>4
  <2>. QED
    BY <1>1, <2>1, <2>2 DEF StartsToExecute
<1>5. InnerIsAwaited'
  <2>. SUFFICES ASSUME NEW r \in Runs, NEW i \in 1 .. 3,
                       i + 1 = Depth(r), phase'[<<r, i + 1>>] \in Busy
                PROVE  phase'[<<r, i>>] = "running"
    BY <1>2 DEF InnerIsAwaited
  <2>1. i + 1 \in 1 .. 3 /\ (i + 1) - 1 = i /\ i + 1 > 1 /\ i # Depth(r)
    BY PathProperties
  <2>2. CASE Submitted(r, i + 1)
    BY <2>1, <2>2 DEF Submitted
  <2>3. CASE ~Submitted(r, i + 1)
    <3>1. phase[<<r, i + 1>>] \in Busy
      BY <1>1, <2>1, <2>3 DEF Advances, Settled, GivenUp, Busy
    <3>2. phase[<<r, i>>] = "running"
      BY <3>1 DEF InnerIsAwaited
    <3>3. ~Submitted(r, i) /\ ~Settled(r, i) /\ ~GivenUp(r, i)
      BY <2>1, <3>2 DEF Submitted, Settled, GivenUp
    <3>. QED
      BY <1>1, <3>2, <3>3 DEF Advances
  <2>. QED
    BY <2>2, <2>3
<1>. QED
    BY <1>3, <1>4, <1>5

\* And a lane of a session, whose slots nobody sets, has one task at most.
LEMMA SessionSlotsStay ==
    ASSUME SessionSlots, ContractMoves, TypeOK, TypeOK',
           \A l \in Lanes \ GlobalLanes : maxConcurrent'[l] = maxConcurrent[l]
    PROVE  SessionSlots'
<1>. SUFFICES ASSUME NEW l \in Lanes \ GlobalLanes
              PROVE  Cardinality(activeTaskIds'[l]) =< 1
    BY DEF SessionSlots
<1>1. maxConcurrent'[l] = 1 /\ Cardinality(activeTaskIds[l]) =< 1
    BY DEF SessionSlots
<1>2. CASE activeTaskIds'[l] \subseteq activeTaskIds[l]
  <2>1. IsFiniteSet(activeTaskIds[l])
    BY EntriesAssumption, FS_Subset DEF TypeOK
  <2>2. /\ Cardinality(activeTaskIds[l]) \in Nat
        /\ Cardinality(activeTaskIds'[l]) \in Nat
        /\ Cardinality(activeTaskIds'[l]) =< Cardinality(activeTaskIds[l])
    BY <1>2, <2>1, FS_Subset, FS_CardinalityType
  <2>. QED
    BY <1>1, <2>2
<1>3. CASE ~(activeTaskIds'[l] \subseteq activeTaskIds[l])
    BY <1>1, <1>3 DEF ContractMoves, LaneAdmits
<1>. QED
    BY <1>2, <1>3
-----------------------------------------------------------------------------
(***************************************************************************)
(* The operations of the queue, as the gateway calls them.                 *)
(***************************************************************************)

QueueMoves == IInv' /\ ContractMoves /\ RunsMove

\* A step of the queue in which entries move only by themselves.
LEMMA AdvancingMovesRuns ==
    ASSUME IInv, [Next]_vars,
           \A e \in Entries : StartsToExecute(e) /\ Advances(e)
    PROVE  QueueMoves
BY NextKeepsIInv, NextKeepsMoves, EntriesOfRuns DEF QueueMoves, RunsMove

\* A pumping step that submits nothing is one.
LEMMA PumpingMovesRuns ==
    ASSUME IInv, IInv', Pumps({})
    PROVE  QueueMoves
<1>1. \A e \in Entries : StartsToExecute(e) /\ Advances(e)
    BY PumpsAdvance
<1>2. ContractMoves
    BY PumpKeepsMoves
<1>. QED
    BY <1>1, <1>2, EntriesOfRuns DEF QueueMoves, RunsMove

\* An enqueueCommandInLane of a run, which its outer task has made.
LEMMA EnqueueOfMovesRuns ==
    ASSUME GInv, NEW r \in Runs, NEW i \in 1 .. 3,
           runKind[r] # "none", i =< Depth(r),
           i > 1 => phase[<<r, i - 1>>] = "running",
           EnqueueOf(r, i)
    PROVE  QueueMoves /\ maxConcurrent' = maxConcurrent
<1>. DEFINE e == <<r, i>>
<1>1. IInv /\ TypeOK /\ GatewayTypeOK
    BY DEF GInv, IInv
<1>2. /\ e \in Entries
      /\ \A d \in Entries : \E s \in Runs, j \in 1 .. 3 : d = <<s, j>>
      /\ \A s \in Runs, j \in 1 .. 3 : <<s, j>> \in Entries
    BY EntriesOfRuns
<1>3. i > 1 => <<r, i - 1>> \in Entries /\ <<r, i - 1>> # e
  <2>1. i > 1 => i - 1 \in 1 .. 3 /\ i - 1 # i
    OBVIOUS
  <2>. QED
    BY <1>2, <2>1
<1>. HIDE DEF e
<1>4. CASE EnqueueRefused(e)
  <2>1. [Next]_vars
    BY <1>2, <1>4 DEF Next
  <2>2. /\ phase[e] = "new" /\ phase' = [phase EXCEPT ![e] = "refused"]
        /\ executing' = executing /\ maxConcurrent' = maxConcurrent
    BY <1>4 DEF EnqueueRefused, laneVars
  <2>3. \A d \in Entries : phase'[d] = IF d = e THEN "refused" ELSE phase[d]
    BY <1>1, <2>2 DEF TypeOK
  <2>4. Submitted(r, i)
    BY <1>2, <1>3, <2>2, <2>3 DEF Submitted, e
  <2>5. \A d \in Entries : /\ StartsToExecute(d)
                           /\ d # e => Advances(d)
    BY <2>2, <2>3 DEF StartsToExecute, Advances
  <2>6. RunsMove
    BY <1>2, <2>4, <2>5 DEF RunsMove, e
  <2>. QED
    BY <1>1, <2>1, <2>2, <2>6, NextKeepsIInv, NextKeepsMoves DEF QueueMoves
<1>5. CASE Enqueue(e, LanePath(r)[i], EntryPriority(r, i), i = Depth(r))
  <2>. DEFINE l == LanePath(r)[i]
              p == EntryPriority(r, i)
              timed == i = Depth(r)
  <2>1. Depth(r) \in 1 .. 3 /\ l \in Lanes
    BY <1>1, PathProperties
  <2>2. p \in Priorities /\ timed \in LaneTimeouts
    BY RunsAssumption DEF EntryPriority
  <2>. HIDE DEF l, p, timed
  <2>3. Enqueue(e, l, p, timed)
    BY <1>5 DEF l, p, timed
  <2>4. IInv' /\ Pumps({e})
    BY <1>1, <1>2, <2>1, <2>2, <2>3, EnqueueKeepsIInv
  <2>5. ContractMoves
    BY <1>1, <2>4, PumpKeepsMoves
  <2>6. /\ phase[e] = "new" /\ maxConcurrent' = maxConcurrent
        /\ entry' = [entry EXCEPT ![e] =
                       [lane |-> l, priority |-> p,
                        sequence |-> nextQueueSequence, timed |-> timed]]
    BY <2>3 DEF Enqueue
  <2>7. entry'[e].lane = l
    BY <1>1, <1>2, <2>6 DEF TypeOK
  <2>8. phase'[e] \in {"queued", "running"}
    <3>1. phase'[e] = "new" \/ phase'[e] \in {"queued", "running"}
      BY <1>1, <1>2, <2>4, <2>6, PumpsAdvance DEF Advances
    <3>2. phase'[e] # "new"
      <4>1. PICK launched :
               phase' = [d \in Entries |->
                           IF d \in launched THEN "running"
                           ELSE [phase EXCEPT ![e] = "queued"][d]]
        BY <2>3, Zenon DEF Enqueue, DrainLanes
      <4>. QED
        BY <1>1, <1>2, <4>1 DEF TypeOK
    <3>. QED
      BY <3>1, <3>2
  <2>9. \A d \in Entries : /\ StartsToExecute(d)
                           /\ d # e => Advances(d)
    BY <1>1, <2>4, PumpsAdvance
  <2>10. Submitted(r, i)
    <3>1. i > 1 => phase'[<<r, i - 1>>] = "running"
      BY <1>3, <2>9 DEF Advances
    <3>. QED
      BY <2>6, <2>7, <2>8, <3>1 DEF Submitted, e, l
  <2>11. RunsMove
    BY <1>2, <2>9, <2>10 DEF RunsMove, e
  <2>. QED
    BY <2>4, <2>5, <2>6, <2>11 DEF QueueMoves
<1>. QED
    BY <1>4, <1>5 DEF EnqueueOf, e

\* A task of a run settles, an outer one only when the innermost is not under
\* way.
LEMMA TaskSettlesMovesRuns ==
    ASSUME GInv, NEW r \in Runs, NEW i \in 1 .. 3, TaskSettles(<<r, i>>),
           i + 1 = Depth(r) => phase[<<r, i + 1>>] \notin Busy
    PROVE  QueueMoves /\ maxConcurrent' = maxConcurrent
<1>. DEFINE e == <<r, i>>
<1>1. IInv /\ TypeOK /\ GatewayTypeOK
    BY DEF GInv, IInv
<1>2. e \in Entries /\ \A s \in Runs, j \in 1 .. 3 : <<s, j>> \in Entries
    BY EntriesOfRuns
<1>3. i + 1 = Depth(r) => i + 1 \in 1 .. 3 /\ <<r, i + 1>> # e
  <2>1. i + 1 # i
    OBVIOUS
  <2>. QED
    BY <1>1, <2>1, PathProperties
<1>. HIDE DEF e
<1>4. [Next]_vars
    BY <1>2 DEF Next, e
<1>5. /\ executing' = executing \ {e}
      /\ phase' = [phase EXCEPT ![e] = IF @ = "running" THEN "settled" ELSE @]
      /\ maxConcurrent' = maxConcurrent
    BY DEF TaskSettles, laneVars, e
<1>6. \A d \in Entries :
         phase'[d] = IF d = e /\ phase[e] = "running" THEN "settled"
                                                     ELSE phase[d]
    BY <1>1, <1>2, <1>5 DEF TypeOK
<1>7. \A d \in Entries : /\ StartsToExecute(d)
                         /\ d # e => Advances(d)
    BY <1>5, <1>6 DEF StartsToExecute, Advances
<1>8. Advances(e) \/ Settled(r, i)
  <2>1. CASE phase[e] = "running"
    <3>1. i + 1 = Depth(r) => phase'[<<r, i + 1>>] \notin Busy
      BY <1>2, <1>3, <1>6
    <3>. QED
      BY <1>2, <1>5, <1>6, <2>1, <3>1 DEF Settled, e
  <2>2. CASE phase[e] # "running"
    BY <1>2, <1>6, <2>2 DEF Advances
  <2>. QED
    BY <2>1, <2>2
<1>9. RunsMove
    BY <1>2, <1>7, <1>8 DEF RunsMove, e
<1>. QED
    BY <1>1, <1>4, <1>5, <1>9, NextKeepsIInv, NextKeepsMoves DEF QueueMoves

\* The lane timeout of an innermost task.
LEMMA TaskTimesOutMovesRuns ==
    ASSUME GInv, NEW r \in Runs, TaskTimesOut(Innermost(r))
    PROVE  QueueMoves /\ maxConcurrent' = maxConcurrent
<1>. DEFINE i == Depth(r)
            e == <<r, i>>
<1>1. IInv /\ TypeOK /\ GatewayTypeOK
    BY DEF GInv, IInv
<1>2. i \in 1 .. 3
    BY <1>1, PathProperties
<1>. HIDE DEF i
<1>3. e \in Entries /\ \A s \in Runs, j \in 1 .. 3 : <<s, j>> \in Entries
    BY <1>2, EntriesOfRuns
<1>. HIDE DEF e
<1>4. TaskTimesOut(e)
    BY DEF Innermost, e, i
<1>5. [Next]_vars
    BY <1>3, <1>4 DEF Next
<1>6. /\ phase[e] = "running" /\ phase' = [phase EXCEPT ![e] = "timedOut"]
      /\ executing' = executing /\ maxConcurrent' = maxConcurrent
    BY <1>4 DEF TaskTimesOut, laneVars
<1>7. \A d \in Entries : phase'[d] = IF d = e THEN "timedOut" ELSE phase[d]
    BY <1>1, <1>6 DEF TypeOK
<1>8. \A d \in Entries : /\ StartsToExecute(d)
                         /\ d # e => Advances(d)
    BY <1>6, <1>7 DEF StartsToExecute, Advances
<1>9. GivenUp(r, i)
    BY <1>3, <1>6, <1>7 DEF GivenUp, e, i
<1>10. RunsMove
    BY <1>2, <1>3, <1>8, <1>9 DEF RunsMove, e
<1>. QED
    BY <1>1, <1>5, <1>6, <1>10, NextKeepsIInv, NextKeepsMoves DEF QueueMoves

\* The continuation of a task.
LEMMA CompleteTaskMovesRuns ==
    ASSUME GInv, NEW e \in Entries, CompleteTask(e)
    PROVE  QueueMoves /\ maxConcurrent' = maxConcurrent
<1>1. IInv /\ TypeOK
    BY DEF GInv, IInv
<1>2. [Next]_vars
    BY DEF Next
<1>3. /\ phase[e] \in {"settled", "timedOut"}
      /\ maxConcurrent' = maxConcurrent
    BY DEF CompleteTask
<1>4. CASE Pumps({e})
  <2>1. \A d \in Entries : StartsToExecute(d) /\ Advances(d)
    BY <1>1, <1>3, <1>4, PumpsAdvance
  <2>. QED
    BY <1>1, <1>2, <1>3, <2>1, AdvancingMovesRuns
<1>5. CASE /\ phase' = [phase EXCEPT ![e] = "done"]
           /\ executing' = executing
  <2>1. \A d \in Entries : phase'[d] = IF d = e THEN "done" ELSE phase[d]
    BY <1>1, <1>5 DEF TypeOK
  <2>2. \A d \in Entries : StartsToExecute(d) /\ Advances(d)
    BY <1>3, <1>5, <2>1 DEF StartsToExecute, Advances
  <2>. QED
    BY <1>1, <1>2, <1>3, <2>2, AdvancingMovesRuns
<1>. QED
    BY <1>1, <1>4, <1>5, CompleteTaskKeepsIInv

\* clearCommandLane.
LEMMA ClearCommandLaneMovesRuns ==
    ASSUME GInv, NEW l \in Lanes, ClearCommandLane(l)
    PROVE  QueueMoves /\ maxConcurrent' = maxConcurrent
<1>1. IInv /\ QueuedEntriesAreInTheirLane
    BY DEF GInv, IInv, SchedulerInv
<1>2. [Next]_vars
    BY DEF Next
<1>3. /\ executing' = executing /\ maxConcurrent' = maxConcurrent
      /\ \A d \in Entries : phase'[d] = IF d \in ToSet(queue[l])
                                        THEN "cleared" ELSE phase[d]
    BY DEF ClearCommandLane
<1>4. \A d \in Entries : d \in ToSet(queue[l]) => phase[d] = "queued"
    BY <1>1 DEF QueuedEntriesAreInTheirLane
<1>5. \A d \in Entries : StartsToExecute(d) /\ Advances(d)
    BY <1>3, <1>4 DEF StartsToExecute, Advances
<1>. QED
    BY <1>1, <1>2, <1>3, <1>5, AdvancingMovesRuns

\* A reset, of one lane or of all.
LEMMA ResetLanesMovesRuns ==
    ASSUME GInv, NEW lanes \in SUBSET Lanes, ResetLanes(lanes),
           gatewayDraining' \in BOOLEAN
    PROVE  QueueMoves /\ maxConcurrent' = maxConcurrent
<1>1. IInv
    BY DEF GInv
<1>2. IInv' /\ Pumps({})
    BY <1>1, ResetLanesKeepsIInv
<1>. QED
    BY <1>1, <1>2, PumpingMovesRuns DEF ResetLanes

\* Steps that move no entry.
LEMMA OthersMoveNoRuns ==
    ASSUME GInv, [Next]_vars, UNCHANGED <<phase, executing>>
    PROVE  QueueMoves
<1>1. IInv
    BY DEF GInv
<1>2. \A d \in Entries : StartsToExecute(d) /\ Advances(d)
    BY DEF StartsToExecute, Advances
<1>. QED
    BY <1>1, <1>2, AdvancingMovesRuns
-----------------------------------------------------------------------------
(***************************************************************************)
(* The gateway.                                                            *)
(***************************************************************************)

\* What remains to be shown of a step in which entries move like this.
LEMMA MovesKeepGInv ==
    ASSUME GInv, QueueMoves, runKind' = runKind,
           \A l \in Lanes \ GlobalLanes : maxConcurrent'[l] = maxConcurrent[l],
           GatewayTypeOK', SuspendersRun', PausedLaneResumes'
    PROVE  GInv' /\ ContractMoves
<1>1. IInv' /\ TypeOK /\ TypeOK'
    BY DEF GInv, IInv, QueueMoves
<1>2. RunsNest'
    BY RunsStayNested DEF GInv, QueueMoves
<1>3. SessionSlots'
    BY <1>1, SessionSlotsStay DEF GInv, QueueMoves
<1>. QED
    BY <1>1, <1>2, <1>3 DEF GInv, QueueMoves

\* Steps that set no slots and no timer.
LEMMA SlotsUndisturbed ==
    ASSUME GInv, QueueMoves, maxConcurrent' = maxConcurrent,
           UNCHANGED <<runKind, config, resumeTimer>>,
           runConfig' \in [Runs -> DOMAIN Configs],
           suspension' \in [Runs -> {"none", "persisting", "done"}],
           lifecycle' \in {"serving", "draining", "waiting", "starting"},
           SuspendersRun'
    PROVE  GInv' /\ ContractMoves
<1>1. GatewayTypeOK'
    BY DEF GInv, GatewayTypeOK, QueueMoves, IInv
<1>2. PausedLaneResumes'
    BY DEF GInv, PausedLaneResumes
<1>. QED
    BY <1>1, <1>2, MovesKeepGInv

\* Steps of runs, and of whoever clears and resets their lanes.
LEMMA RunStepsKeepGInv ==
    ASSUME GInv, QueueMoves, maxConcurrent' = maxConcurrent,
           UNCHANGED gatewayVars
    PROVE  GInv' /\ ContractMoves
<1>1. GatewayTypeOK /\ SuspendersRun
    BY DEF GInv
<1>2. SuspendersRun'
    BY <1>1 DEF SuspendersRun, gatewayVars
<1>. QED
    BY <1>1, <1>2, SlotsUndisturbed DEF GatewayTypeOK, gatewayVars

\* Every configuration has at least one slot for each lane it knows.
LEMMA ConfiguredSlotsProperties ==
    ASSUME NEW c \in DOMAIN Configs, NEW l \in GlobalLanes
    PROVE  ConfiguredSlots(c, l) \in 1 .. ConcurrencyCap
<1>1. Configs[c] \in [main : 1 .. ConcurrencyCap,
                      subagent : 1 .. ConcurrencyCap,
                      cron : 1 .. ConcurrencyCap]
  <2>. DEFINE S == [main : 1 .. ConcurrencyCap,
                    subagent : 1 .. ConcurrencyCap,
                    cron : 1 .. ConcurrencyCap]
  <2>1. Configs \in Seq(S)
    BY ConfigsAssumption
  <2>. HIDE DEF S
  <2>2. Configs[c] \in S
    BY <2>1
  <2>. QED
    BY <2>2 DEF S
<1>2. l \in {"main", "subagent", "cron", "cron-nested"}
    BY DEF GlobalLanes
<1>. QED
    BY <1>1, <1>2 DEF ConfiguredSlots

\* setCommandLaneConcurrency of a lane the configuration knows.
LEMMA SettingGlobalSlots ==
    ASSUME GInv, NEW l \in GlobalLanes, NEW n \in 0 .. ConcurrencyCap,
           SetCommandLaneConcurrency(l, n)
    PROVE  /\ QueueMoves
           /\ \A m \in Lanes : maxConcurrent'[m] = IF m = l THEN n
                                                   ELSE maxConcurrent[m]
<1>1. IInv /\ maxConcurrent \in [Lanes -> Nat]
    BY DEF GInv, IInv, TypeOK
<1>2. l \in Lanes /\ l \notin ProbeLanes /\ n \in Nat
    BY GlobalLanesAssumption, CapsAssumption
<1>3. maxConcurrent' = [maxConcurrent EXCEPT ![l] = n]
  <2>. DEFINE slots == IF n < 0 THEN 0 ELSE n
  <2>1. maxConcurrent' = [maxConcurrent EXCEPT ![l] = slots]
    BY <1>2, Zenon DEF SetCommandLaneConcurrency
  <2>2. slots = n
    BY <1>2
  <2>. QED
    BY <2>1, <2>2
<1>4. IInv' /\ Pumps({})
    BY <1>1, <1>2, SetCommandLaneConcurrencyKeepsIInv
<1>. QED
    BY <1>1, <1>2, <1>3, <1>4, PumpingMovesRuns

\* The lane is paused and its timer armed for as many slots as the
\* configuration of the run gave it.
LEMMA SuspensionPersistedKeepsGInv ==
    ASSUME GInv, NEW r \in Runs, SuspensionPersisted(r)
    PROVE  GInv' /\ ContractMoves
<1> DEFINE l == LanePath(r)[Depth(r)]
           n == LaneResumeConcurrency(runConfig[r], l)
<1>1. GatewayTypeOK /\ SuspendersRun /\ PausedLaneResumes
    BY DEF GInv
<1>2. /\ suspension[r] = "persisting"
      /\ suspension' = [suspension EXCEPT ![r] = "done"]
      /\ SetCommandLaneConcurrency(l, 0)
      /\ resumeTimer' = [resumeTimer EXCEPT ![l] = n]
      /\ UNCHANGED <<runKind, config, runConfig, lifecycle>>
    BY DEF SuspensionPersisted
<1>3. l \in GlobalLanes
    BY <1>1, <1>2, PathProperties DEF SuspendersRun
<1>. HIDE DEF l
<1>4. n \in 1 .. ConcurrencyCap
    BY <1>1, <1>3, ConfiguredSlotsProperties
    DEF GatewayTypeOK, LaneResumeConcurrency
<1>. HIDE DEF n
<1>5. ConcurrencyCap \in Nat /\ GlobalLanes \subseteq Lanes
    BY CapsAssumption, GlobalLanesAssumption
<1>6. /\ QueueMoves
      /\ \A m \in Lanes : maxConcurrent'[m] = IF m = l THEN 0
                                              ELSE maxConcurrent[m]
  <2>1. 0 \in 0 .. ConcurrencyCap
    BY <1>5
  <2>. QED
    BY <1>2, <1>3, <2>1, SettingGlobalSlots
<1>7. /\ resumeTimer' \in [Lanes -> 0 .. ConcurrencyCap]
      /\ \A m \in Lanes : resumeTimer'[m] = IF m = l THEN n
                                            ELSE resumeTimer[m]
    BY <1>1, <1>2, <1>3, <1>4, <1>5 DEF GatewayTypeOK
<1>8. GatewayTypeOK'
    BY <1>1, <1>2, <1>3, <1>6, <1>7 DEF GatewayTypeOK, QueueMoves, IInv
<1>9. SuspendersRun'
    BY <1>1, <1>2 DEF SuspendersRun, GatewayTypeOK
<1>10. PausedLaneResumes'
    BY <1>1, <1>4, <1>6, <1>7 DEF PausedLaneResumes
<1>. QED
    BY <1>2, <1>3, <1>6, <1>8, <1>9, <1>10, MovesKeepGInv

\* The timer gives the lane what it was armed with, which is not nothing.
LEMMA LaneAutoResumesKeepsGInv ==
    ASSUME GInv, NEW l \in Lanes, LaneAutoResumes(l)
    PROVE  GInv' /\ ContractMoves
<1>1. GatewayTypeOK /\ SuspendersRun /\ PausedLaneResumes
    BY DEF GInv
<1>2. /\ resumeTimer[l] > 0
      /\ SetCommandLaneConcurrency(l, resumeTimer[l])
      /\ resumeTimer' = [resumeTimer EXCEPT ![l] = 0]
      /\ UNCHANGED <<runKind, config, runConfig, suspension, lifecycle>>
    BY DEF LaneAutoResumes
<1>3. l \in GlobalLanes /\ resumeTimer[l] \in 0 .. ConcurrencyCap
    BY <1>1, <1>2 DEF GatewayTypeOK
<1>4. /\ QueueMoves
      /\ \A m \in Lanes : maxConcurrent'[m] = IF m = l THEN resumeTimer[l]
                                              ELSE maxConcurrent[m]
    BY <1>2, <1>3, SettingGlobalSlots
<1>5. /\ resumeTimer' \in [Lanes -> 0 .. ConcurrencyCap]
      /\ \A m \in Lanes : resumeTimer'[m] = IF m = l THEN 0
                                            ELSE resumeTimer[m]
    BY <1>1, <1>2, CapsAssumption DEF GatewayTypeOK
<1>6. GatewayTypeOK'
    BY <1>1, <1>2, <1>4, <1>5 DEF GatewayTypeOK, QueueMoves, IInv
<1>7. SuspendersRun'
    BY <1>1, <1>2 DEF SuspendersRun
<1>8. PausedLaneResumes'
    BY <1>1, <1>2, <1>4, <1>5 DEF PausedLaneResumes
<1>. QED
    BY <1>2, <1>3, <1>4, <1>6, <1>7, <1>8, MovesKeepGInv

\* A configuration is applied: it gives slots to every lane it knows.
LEMMA ApplyGatewayLaneConcurrencyKeepsGInv ==
    ASSUME GInv, NEW c \in DOMAIN Configs, ApplyGatewayLaneConcurrency(c),
           lifecycle' \in {"serving", "draining", "waiting", "starting"}
    PROVE  GInv' /\ ContractMoves
<1>1. /\ IInv /\ TypeOK
      /\ GatewayTypeOK /\ SuspendersRun /\ PausedLaneResumes
    BY DEF GInv, IInv
<1>2. /\ config' = c
      /\ maxConcurrent' = [l \in Lanes |-> IF l \in GlobalLanes
                                           THEN ConfiguredSlots(c, l)
                                           ELSE maxConcurrent[l]]
      /\ UNCHANGED <<gatewayDraining, generation, nextQueueSequence, entry,
                     waiterVars, runKind, runConfig, suspension, resumeTimer>>
      /\ DrainLanes(GlobalLanes, queue, activeTaskIds, phase)
    BY DEF ApplyGatewayLaneConcurrency
<1>3. \A l \in Lanes :
         maxConcurrent'[l] = IF l \in GlobalLanes THEN ConfiguredSlots(c, l)
                                                  ELSE maxConcurrent[l]
    BY <1>2
<1>4. \A l \in GlobalLanes :
         ConfiguredSlots(c, l) \in Nat /\ ConfiguredSlots(c, l) > 0
    BY ConfiguredSlotsProperties, CapsAssumption
<1>5. maxConcurrent' \in [Lanes -> Nat]
    BY <1>1, <1>2, <1>4 DEF TypeOK
<1>6. IInv' /\ Pumps({})
  <2>1. GlobalLanes \in SUBSET Lanes
    BY GlobalLanesAssumption
  <2>. QED
    BY <1>1, <1>2, <1>3, <1>5, <2>1, SettingSlotsKeepsIInv
<1>7. QueueMoves
    BY <1>1, <1>6, PumpingMovesRuns
<1>8. GatewayTypeOK'
    BY <1>1, <1>2, <1>6 DEF GatewayTypeOK, IInv
<1>9. SuspendersRun'
    BY <1>1, <1>2 DEF SuspendersRun
<1>10. PausedLaneResumes'
    BY <1>1, <1>2, <1>3, <1>4 DEF PausedLaneResumes
<1>. QED
    BY <1>2, <1>3, <1>7, <1>8, <1>9, <1>10, MovesKeepGInv

\* The call of a run, and each call inside it.
LEMMA CallsKeepGInv ==
    ASSUME GInv, NEW r \in Runs,
           StartRun(r) \/ \E i \in 1 .. 3 : EnqueueInner(r, i)
    PROVE  GInv' /\ ContractMoves
<1>1. GatewayTypeOK /\ RunsNest /\ SuspendersRun
    BY DEF GInv
<1>2. Depth(r) \in 1 .. 3
    BY <1>1, PathProperties
<1>3. CASE StartRun(r)
  <2>1. /\ runKind[r] # "none" /\ EnqueueOf(r, 1)
        /\ runConfig' = IF r \in Suspenders
                        THEN [runConfig EXCEPT ![r] = config] ELSE runConfig
        /\ UNCHANGED <<runKind, config, suspension, resumeTimer, lifecycle>>
    BY <1>3 DEF StartRun
  <2>2. QueueMoves /\ maxConcurrent' = maxConcurrent
    <3>1. 1 =< Depth(r) /\ ~(1 > 1) /\ 1 \in 1 .. 3
      BY <1>2
    <3>. QED
      BY <2>1, <3>1, EnqueueOfMovesRuns
  <2>3. runConfig' \in [Runs -> DOMAIN Configs]
    BY <1>1, <2>1 DEF GatewayTypeOK
  <2>4. SuspendersRun'
    BY <1>1, <2>1 DEF SuspendersRun
  <2>. QED
    BY <1>1, <2>1, <2>2, <2>3, <2>4, SlotsUndisturbed DEF GatewayTypeOK
<1>4. ASSUME NEW i \in 1 .. 3, EnqueueInner(r, i) PROVE GInv' /\ ContractMoves
  <2>1. /\ i < Depth(r) /\ <<r, i>> \in executing
        /\ EnqueueOf(r, i + 1) /\ UNCHANGED gatewayVars
    BY <1>4 DEF EnqueueInner
  <2>2. phase[<<r, i>>] = "running" /\ runKind[r] # "none"
    BY <1>1, <2>1 DEF RunsNest, OuterIsHeard, OnItsPath
  <2>3. i + 1 \in 1 .. 3 /\ i + 1 =< Depth(r) /\ (i + 1) - 1 = i
    BY <1>2, <2>1
  <2>4. QueueMoves /\ maxConcurrent' = maxConcurrent
    BY <2>1, <2>2, <2>3, EnqueueOfMovesRuns
  <2>. QED
    BY <2>1, <2>4, RunStepsKeepGInv
<1>. QED
    BY <1>3, <1>4

\* The ways in which the tasks of a run settle.
LEMMA SettlingKeepsGInv ==
    ASSUME GInv, NEW r \in Runs,
           \/ \E i \in 1 .. 3 : OuterSettles(r, i) \/ OuterAborts(r, i)
           \/ JobTimesOut(r)
           \/ RunSettles(r)
    PROVE  GInv' /\ ContractMoves
<1>1. GatewayTypeOK
    BY DEF GInv
<1>2. /\ Depth(r) \in 1 .. 3
      /\ runKind[r] = "cron" => Depth(r) = 3
    BY <1>1, PathProperties
<1>3. ASSUME NEW i \in 1 .. 3, TaskSettles(<<r, i>>), UNCHANGED gatewayVars,
             i + 1 = Depth(r) => phase[<<r, i + 1>>] \notin Busy
      PROVE  GInv' /\ ContractMoves
    BY <1>3, TaskSettlesMovesRuns, RunStepsKeepGInv
<1>4. ASSUME NEW i \in 1 .. 3, OuterSettles(r, i) \/ OuterAborts(r, i)
      PROVE  GInv' /\ ContractMoves
  <2>1. phase[<<r, i + 1>>] \notin Busy
    BY <1>4 DEF OuterSettles, OuterAborts, Answered, Busy
  <2>. QED
    BY <1>3, <1>4, <2>1 DEF OuterSettles, OuterAborts
<1>5. CASE JobTimesOut(r)
  <2>1. 1 \in 1 .. 3 /\ 1 + 1 # Depth(r)
    BY <1>2, <1>5 DEF JobTimesOut
  <2>. QED
    BY <1>3, <1>5, <2>1 DEF JobTimesOut, Outermost
<1>6. CASE RunSettles(r)
  <2>1. Depth(r) + 1 # Depth(r)
    BY <1>2
  <2>. QED
    BY <1>2, <1>3, <1>6, <2>1 DEF RunSettles, Innermost
<1>. QED
    BY <1>4, <1>5, <1>6

\* Every step of the gateway keeps the invariant and, for the queue, makes the
\* moves of LaneContract.
LEMMA GatewayNextKeepsGInv == GInv /\ [GatewayNext]_allVars => GInv' /\ ContractMoves
<1>. SUFFICES ASSUME GInv, [GatewayNext]_allVars PROVE GInv' /\ ContractMoves
    OBVIOUS
<1>1. /\ IInv /\ TypeOK
      /\ GatewayTypeOK /\ SuspendersRun
    BY DEF GInv, IInv
<1>2. ASSUME NEW r \in Runs,
             StartRun(r) \/ \E i \in 1 .. 3 : EnqueueInner(r, i)
      PROVE  GInv' /\ ContractMoves
    BY <1>2, CallsKeepGInv
<1>3. ASSUME NEW r \in Runs,
             \/ \E i \in 1 .. 3 : OuterSettles(r, i) \/ OuterAborts(r, i)
             \/ JobTimesOut(r)
             \/ RunSettles(r)
      PROVE  GInv' /\ ContractMoves
    BY <1>3, SettlingKeepsGInv
<1>4. ASSUME NEW r \in Runs, RunTimesOut(r) PROVE GInv' /\ ContractMoves
    BY <1>4, TaskTimesOutMovesRuns, RunStepsKeepGInv DEF RunTimesOut
<1>5. ASSUME NEW e \in Entries, SlotIsFreed(e) PROVE GInv' /\ ContractMoves
    BY <1>5, CompleteTaskMovesRuns, RunStepsKeepGInv DEF SlotIsFreed
<1>6. ASSUME NEW r \in Runs, ClearSessionLane(r) PROVE GInv' /\ ContractMoves
  <2>1. SessionLane[r] \in Lanes
    BY RunsAssumption
  <2>. QED
    BY <1>6, <2>1, ClearCommandLaneMovesRuns, RunStepsKeepGInv
    DEF ClearSessionLane
<1>7. ASSUME NEW r \in Runs, ResetSessionLane(r) PROVE GInv' /\ ContractMoves
  <2>1. {SessionLane[r]} \in SUBSET Lanes
    BY RunsAssumption
  <2>2. /\ ResetLanes({SessionLane[r]}) /\ gatewayDraining' \in BOOLEAN
        /\ UNCHANGED gatewayVars
    BY <1>1, <1>7 DEF ResetSessionLane, ResetCommandLane, TypeOK
  <2>. QED
    BY <2>1, <2>2, ResetLanesMovesRuns, RunStepsKeepGInv
<1>8. ASSUME UNCHANGED vars PROVE QueueMoves /\ maxConcurrent' = maxConcurrent
    BY <1>8, OthersMoveNoRuns DEF vars, laneVars, entryVars
<1>9. ASSUME NEW r \in Runs, SuspendSession(r) PROVE GInv' /\ ContractMoves
  <2>1. /\ Innermost(r) \in executing
        /\ suspension' = [suspension EXCEPT ![r] = "persisting"]
        /\ UNCHANGED <<vars, runKind, config, runConfig, resumeTimer,
                       lifecycle>>
    BY <1>9 DEF SuspendSession
  <2>2. suspension' \in [Runs -> {"none", "persisting", "done"}]
    BY <1>1, <2>1 DEF GatewayTypeOK
  <2>3. runKind[r] # "none"
    <3>1. RunsNest /\ Depth(r) \in 1 .. 3
      BY <1>1, PathProperties DEF GInv
    <3>. QED
      BY <2>1, <3>1 DEF RunsNest, OuterIsHeard, OnItsPath, Innermost
  <2>4. SuspendersRun'
    BY <1>1, <2>1, <2>3 DEF SuspendersRun, GatewayTypeOK
  <2>. QED
    BY <1>1, <1>8, <2>1, <2>2, <2>4, SlotsUndisturbed DEF GatewayTypeOK
<1>10. ASSUME NEW r \in Runs, SuspensionPersisted(r) PROVE GInv' /\ ContractMoves
    BY <1>10, SuspensionPersistedKeepsGInv
<1>11. ASSUME NEW r \in Runs, SuspensionNotPersisted(r) PROVE GInv' /\ ContractMoves
  <2>1. /\ suspension[r] = "persisting"
        /\ suspension' = [suspension EXCEPT ![r] = "done"]
        /\ UNCHANGED <<vars, runKind, config, runConfig, resumeTimer,
                       lifecycle>>
    BY <1>11 DEF SuspensionNotPersisted
  <2>2. suspension' \in [Runs -> {"none", "persisting", "done"}]
    BY <1>1, <2>1 DEF GatewayTypeOK
  <2>3. SuspendersRun'
    BY <1>1, <2>1 DEF SuspendersRun, GatewayTypeOK
  <2>. QED
    BY <1>1, <1>8, <2>1, <2>2, <2>3, SlotsUndisturbed DEF GatewayTypeOK
<1>12. ASSUME NEW l \in Lanes, LaneAutoResumes(l) PROVE GInv' /\ ContractMoves
    BY <1>12, LaneAutoResumesKeepsGInv
<1>13. Len(Configs) \in Nat /\ DOMAIN Configs = 1 .. Len(Configs)
    BY ConfigsAssumption
<1>14. ASSUME ConfigReloads PROVE GInv' /\ ContractMoves
  <2>1. config + 1 \in DOMAIN Configs
    BY <1>1, <1>13, <1>14 DEF ConfigReloads, GatewayTypeOK
  <2>. QED
    BY <1>1, <1>14, <2>1, ApplyGatewayLaneConcurrencyKeepsGInv
    DEF ConfigReloads, GatewayTypeOK
<1>15. ASSUME GatewayStarts PROVE GInv' /\ ContractMoves
  <2>1. config .. Len(Configs) \subseteq DOMAIN Configs
    BY <1>1, <1>13 DEF GatewayTypeOK
  <2>. QED
    BY <1>15, <2>1, ApplyGatewayLaneConcurrencyKeepsGInv DEF GatewayStarts
<1>16. ASSUME UNCHANGED <<runKind, config, runConfig, suspension, resumeTimer>>,
              lifecycle' \in {"serving", "draining", "waiting", "starting"},
              QueueMoves, maxConcurrent' = maxConcurrent
       PROVE  GInv' /\ ContractMoves
  <2>1. SuspendersRun'
    BY <1>1, <1>16 DEF SuspendersRun
  <2>. QED
    BY <1>1, <1>16, <2>1, SlotsUndisturbed DEF GatewayTypeOK
<1>17. ASSUME RestartBegins PROVE GInv' /\ ContractMoves
  <2>1. MarkGatewayDraining
    BY <1>17 DEF RestartBegins
  <2>2. QueueMoves /\ maxConcurrent' = maxConcurrent
    BY <2>1, OthersMoveNoRuns
    DEF MarkGatewayDraining, Next, laneVars, entryVars
  <2>. QED
    BY <1>16, <1>17, <2>2 DEF RestartBegins
<1>18. ASSUME NEW w \in Waiters, RestartWaits(w) PROVE GInv' /\ ContractMoves
  <2>1. WaitForActiveTasks(w, "none")
    BY <1>18 DEF RestartWaits
  <2>2. QueueMoves /\ maxConcurrent' = maxConcurrent
    BY <2>1, OthersMoveNoRuns
    DEF WaitForActiveTasks, Next, laneVars, entryVars
  <2>. QED
    BY <1>16, <1>18, <2>2 DEF RestartWaits
<1>19. ASSUME LanesAreReset PROVE GInv' /\ ContractMoves
  <2>1. ResetLanes(Lanes) /\ gatewayDraining' \in BOOLEAN
    BY <1>19 DEF LanesAreReset, ResetAllLanes
  <2>2. QueueMoves /\ maxConcurrent' = maxConcurrent
    BY <2>1, ResetLanesMovesRuns
  <2>. QED
    BY <1>16, <1>19, <2>2 DEF LanesAreReset
<1>20. ASSUME UNCHANGED allVars PROVE GInv' /\ ContractMoves
  <2>1. UNCHANGED vars /\ UNCHANGED gatewayVars
    BY <1>20 DEF allVars
  <2>. QED
    BY <1>8, <2>1, RunStepsKeepGInv
<1>. QED
    BY <1>2, <1>3, <1>4, <1>5, <1>6, <1>7, <1>9, <1>10, <1>11, <1>12, <1>14,
       <1>15, <1>17, <1>18, <1>19, <1>20, Zenon DEF GatewayNext
\* The process has just begun: nothing is submitted, no lane is paused.
LEMMA GatewayInitEstablishesGInv == GatewayInit => GInv
<1>. SUFFICES ASSUME GatewayInit PROVE GInv
    OBVIOUS
<1>1. /\ Init
      /\ runKind \in RunMixes
      /\ config = 1
      /\ runConfig = [r \in Runs |-> 1]
      /\ suspension = [r \in Runs |-> "none"]
      /\ resumeTimer = [l \in Lanes |-> 0]
      /\ lifecycle = "starting"
    BY DEF GatewayInit
<1>2. IInv
    BY <1>1, InitEstablishesIInv
<1>3. 1 \in DOMAIN Configs
    BY ConfigsAssumption
<1>4. GatewayTypeOK
    BY <1>1, <1>2, <1>3, CapsAssumption DEF GatewayTypeOK, IInv
<1>5. RunsNest
  <2>1. executing = {}
    BY <1>1 DEF Init
  <2>2. \A r \in Runs, i \in 1 .. 3 : phase[<<r, i>>] = "new"
    BY <1>1, EntriesOfRuns DEF Init
  <2>3. \A r \in Runs, i \in 1 .. 3 : i + 1 = Depth(r) => i + 1 \in 1 .. 3
    BY <1>4, PathProperties
  <2>. QED
    BY <2>1, <2>2, <2>3
    DEF RunsNest, OnItsPath, OuterIsHeard, InnerIsAwaited, Busy
<1>6. SessionSlots
  <2>1. \A l \in Lanes : maxConcurrent[l] = 1 /\ activeTaskIds[l] = {}
    BY <1>1 DEF Init
  <2>. QED
    BY <2>1, FS_EmptySet DEF SessionSlots
<1>7. SuspendersRun
    BY <1>1 DEF SuspendersRun
<1>8. PausedLaneResumes
    BY <1>1 DEF Init, PausedLaneResumes
<1>. QED
    BY <1>2, <1>4, <1>5, <1>6, <1>7, <1>8 DEF GInv

\* Two runs of a session at work would hold two slots of its lane.
LEMMA OneSlotOneRun == GInv => OneRunPerSession
<1>. SUFFICES ASSUME GInv, NEW r \in Runs, NEW s \in Runs,
                     r # s, SessionLane[r] = SessionLane[s],
                     AtWork(r), AtWork(s)
              PROVE  FALSE
    BY DEF OneRunPerSession
<1>1. /\ TypeOK /\ SlotHeldUntilCompletionOrReset
      /\ GatewayTypeOK /\ RunsNest /\ SessionSlots
    BY DEF GInv, IInv, SchedulerInv
<1>2. ASSUME NEW t \in Runs, AtWork(t)
      PROVE  <<t, Depth(t) - 1>> \in activeTaskIds[SessionLane[t]]
  <2>. DEFINE i == Depth(t) - 1
              l == SessionLane[t]
  <2>1. /\ phase[<<t, Depth(t)>>] \in Busy
        /\ taskGeneration[<<t, i>>] = generation[l]
    BY <1>2 DEF AtWork, Busy
  <2>2. runKind[t] # "none"
    <3>1. Depth(t) \in 1 .. 3
      BY <1>1, PathProperties
    <3>. QED
      BY <1>1, <2>1, <3>1 DEF RunsNest, OnItsPath, Busy
  <2>3. /\ i \in 1 .. 3 /\ i + 1 = Depth(t)
        /\ LanePath(t)[i] = l /\ l \in Lanes
    BY <1>1, <2>2, PathProperties
  <2>. HIDE DEF i, l
  <2>4. phase[<<t, i>>] = "running"
    BY <1>1, <2>1, <2>3 DEF RunsNest, InnerIsAwaited
  <2>5. entry[<<t, i>>].lane = l
    BY <1>1, <2>3, <2>4 DEF RunsNest, OnItsPath
  <2>6. <<t, i>> \in Entries
    BY <2>3, EntriesOfRuns
  <2>7. <<t, i>> \in activeTaskIds[l]
    BY <1>1, <2>1, <2>3, <2>4, <2>5, <2>6
    DEF SlotHeldUntilCompletionOrReset, Started
  <2>. QED
    BY <2>7 DEF i, l
<1>. DEFINE l == SessionLane[r]
            two == {<<r, Depth(r) - 1>>, <<s, Depth(s) - 1>>}
<1>3. l \in Lanes \ GlobalLanes
    BY RunsAssumption
<1>4. two \subseteq activeTaskIds[l]
    BY <1>2
<1>5. IsFiniteSet(activeTaskIds[l]) /\ Cardinality(activeTaskIds[l]) =< 1
    BY <1>1, <1>3, EntriesAssumption, FS_Subset DEF SessionSlots, TypeOK
<1>6. Cardinality(two) = 2
  <2>1. \A x, y : x # y => Cardinality({x, y}) = 2
    <3>. SUFFICES ASSUME NEW x, NEW y, x # y PROVE Cardinality({x, y}) = 2
      OBVIOUS
    <3>1. IsFiniteSet({x}) /\ Cardinality({x}) = 1
      BY FS_Singleton
    <3>2. Cardinality({x} \cup {y}) = Cardinality({x}) + 1
      BY <3>1, FS_AddElement
    <3>3. {x, y} = {x} \cup {y}
      OBVIOUS
    <3>. QED
      BY <3>1, <3>2, <3>3
  <2>. QED
    BY <2>1
<1>7. Cardinality(two) \in Nat /\ Cardinality(activeTaskIds[l]) \in Nat
    BY <1>5, <1>6, FS_CardinalityType
<1>8. Cardinality(two) =< Cardinality(activeTaskIds[l])
    BY <1>4, <1>5, FS_Subset
<1>. QED
    BY <1>5, <1>6, <1>7, <1>8

-----------------------------------------------------------------------------
(***************************************************************************)
(* The theorems.                                                           *)
(***************************************************************************)

\* The invariant holds in every reachable state of the gateway.
THEOREM GatewayInvariant == GatewaySpec => []GInv
<1>1. GInv /\ [GatewayNext]_allVars => GInv'
    BY GatewayNextKeepsGInv
<1>. QED
    BY <1>1, GatewayInitEstablishesGInv, PTL DEF GatewaySpec

\* The state of the gateway is well formed; no lane but one the configuration
\* knows ever gets a resume timer.
THEOREM GatewayTypeCorrect == GatewaySpec => []GatewayTypeOK
<1>1. GInv => GatewayTypeOK
    BY DEF GInv
<1>. QED
    BY <1>1, GatewayInvariant, PTL

\* A session has one run in the global lanes, whatever is suspended, reset,
\* reloaded or given up on: the slot of the session's lane is kept until the
\* run inside it is answered.
THEOREM SessionsRunAlone == GatewaySpec => []OneRunPerSession
    BY GatewayInvariant, OneSlotOneRun, PTL

\* A lane without slots has a timer that will give it some: no interleaving of
\* suspensions, reloads, restarts and timers leaves one paused for good.
THEOREM PausedLanesResume == GatewaySpec => []PausedLaneResumes
<1>1. GInv => PausedLaneResumes
    BY DEF GInv
<1>. QED
    BY <1>1, GatewayInvariant, PTL

\* What is proved of the queue by itself holds inside the gateway too, where
\* applyGatewayLaneConcurrency sets the slots of several lanes at once: no
\* entry is lost, no lane stalls and no waiter is left asleep.
THEOREM QueueStaysSound ==
    GatewaySpec => [](/\ QueuedEntriesAreInTheirLane
                      /\ LanesNeverStall
                      /\ NoMissedWakeup
                      /\ DrainedVerdictSound)
<1>1. GInv => /\ QueuedEntriesAreInTheirLane
              /\ LanesNeverStall
              /\ NoMissedWakeup
              /\ DrainedVerdictSound
    BY DEF GInv, IInv, SchedulerInv, WaiterInv
<1>. QED
    BY <1>1, GatewayInvariant, PTL
\* And the queue keeps its promise to the gateway: also there, a run's call is
\* admitted only to a free slot, before all that are less urgent or younger.
THEOREM QueueKeepsItsContract == GatewaySpec => ImplementsContract
<1>1. GInv /\ [GatewayNext]_allVars => [Contract!Step]_(Contract!vars)
  <2>. SUFFICES ASSUME GInv, [GatewayNext]_allVars PROVE Contract!Step
    OBVIOUS
  <2>1. GInv' /\ ContractMoves
    BY GatewayNextKeepsGInv
  <2>2. IInv /\ IInv'
    BY <2>1 DEF GInv
  <2>. QED
    BY <2>1, <2>2, StepKeepsContract
<1>2. GatewayInit => Contract!Init
    BY InitKeepsContract DEF GatewayInit
<1>. QED
    BY <1>1, <1>2, GatewayInvariant, PTL
    DEF GatewaySpec, ImplementsContract, Contract!Spec
=============================================================================
