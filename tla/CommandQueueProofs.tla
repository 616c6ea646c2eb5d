------------------------- MODULE CommandQueueProofs -------------------------
(***************************************************************************)
(* The safety invariants of CommandQueue, and that it implements           *)
(* LaneContract, proved for every set of entries, lanes and waiters and    *)
(* every bound.                                                            *)
(*                                                                         *)
(* Every operation that may start work ends in DrainLanes.  So the proof   *)
(* is about what DrainLanes is given and what it leaves behind             *)
(* (DrainLanesPreserves): each operation then only has to show that the    *)
(* queues, slots and phases it hands over agree.                           *)
(***************************************************************************)
EXTENDS CommandQueue, FiniteSetTheorems, WellFoundedInduction, SequenceTheorems, TLAPS

\* Min, which InsertionPoint takes, is an element and a lower bound.
LEMMA NonEmptyNatSetHasMin ==
    ASSUME NEW T, T \subseteq Nat, T # {}
    PROVE  Min(T) \in T /\ \A y \in T : Min(T) =< y
<1> DEFINE Less == { ss \in Nat \X Nat : ss[1] < ss[2] }
<1>1. IsWellFoundedOn(Less, Nat)
    BY NatLessThanWellFounded DEF OpToRel
<1>2. \E x \in T : \A y \in T : <<y, x>> \notin Less
    BY <1>1, WFMin
<1>3. \E x \in T : \A y \in T : x =< y
  <2>1. PICK x \in T : \A y \in T : <<y, x>> \notin Less
    BY <1>2
  <2>2. ASSUME NEW y \in T PROVE x =< y
    <3>1. x \in Nat /\ y \in Nat /\ <<y, x>> \notin Less
      BY <2>1
    <3>. QED
      BY <3>1 DEF Less
  <2>. QED
    BY <2>2
<1>. QED
    BY <1>3 DEF Min

-----------------------------------------------------------------------------
(***************************************************************************)
(* The scheduler's helpers.                                                *)
(***************************************************************************)

\* InsertAt puts e at position i and shifts what stood there.
LEMMA InsertAtProperties ==
    ASSUME NEW S, NEW s \in Seq(S), NEW e \in S, NEW i \in 1 .. Len(s) + 1
    PROVE  /\ InsertAt(s, i, e) \in Seq(S)
           /\ Len(InsertAt(s, i, e)) = Len(s) + 1
           /\ \A k \in 1 .. Len(s) + 1 :
                 InsertAt(s, i, e)[k] = IF k < i THEN s[k]
                                        ELSE IF k = i THEN e ELSE s[k - 1]
<1> DEFINE front == SubSeq(s, 1, i - 1)
           back == SubSeq(s, i, Len(s))
<1>1. /\ front \in Seq(S) /\ Len(front) = i - 1
      /\ \A k \in 1 .. i - 1 : front[k] = s[k]
    BY SubSeqProperties
<1>2. /\ back \in Seq(S) /\ Len(back) = Len(s) + 1 - i
      /\ \A k \in 1 .. Len(s) + 1 - i : back[k] = s[i + k - 1]
    BY SubSeqProperties
<1>. HIDE DEF front, back
<1>3. InsertAt(s, i, e) = front \o <<e>> \o back
    BY DEF InsertAt, front, back
<1>4. /\ front \o <<e>> \in Seq(S)
      /\ Len(front \o <<e>>) = i
      /\ \A k \in 1 .. i : (front \o <<e>>)[k] = IF k < i THEN s[k] ELSE e
    BY <1>1
<1>. DEFINE head == front \o <<e>>
<1>. HIDE DEF head
<1>5. /\ head \in Seq(S) /\ Len(head) = i
      /\ \A k \in 1 .. i : head[k] = IF k < i THEN s[k] ELSE e
    BY <1>4 DEF head
<1>6. InsertAt(s, i, e) = head \o back
    BY <1>3 DEF head
<1>7. /\ head \o back \in Seq(S)
      /\ Len(head \o back) = Len(head) + Len(back)
      /\ \A k \in 1 .. Len(head) + Len(back) :
            (head \o back)[k] = IF k =< Len(head) THEN head[k]
                                ELSE back[k - Len(head)]
    BY <1>2, <1>5, ConcatProperties
<1>8. ASSUME NEW k \in 1 .. Len(s) + 1
      PROVE  (head \o back)[k] = IF k < i THEN s[k]
                                 ELSE IF k = i THEN e ELSE s[k - 1]
  <2>1. Len(s) \in Nat /\ Len(head) + Len(back) = Len(s) + 1
    BY <1>2, <1>5
  <2>2. (head \o back)[k] = IF k =< i THEN head[k] ELSE back[k - i]
    BY <1>5, <1>7, <2>1
  <2>3. CASE k =< i
    BY <1>5, <2>1, <2>2, <2>3
  <2>4. CASE k > i
    <3>1. k - i \in 1 .. Len(s) + 1 - i
      BY <2>1, <2>4
    <3>2. back[k - i] = s[i + (k - i) - 1]
      BY <1>2, <3>1
    <3>. QED
      BY <2>1, <2>2, <2>4, <3>2
  <2>. QED
    BY <2>1, <2>3, <2>4
<1>9. Len(head) + Len(back) = Len(s) + 1
    BY <1>2, <1>5
<1>. QED
    BY <1>6, <1>7, <1>8, <1>9

\* It adds e to the elements, and keeps them distinct if e is new.
LEMMA InsertAtElements ==
    ASSUME NEW S, NEW s \in Seq(S), NEW e \in S, NEW i \in 1 .. Len(s) + 1
    PROVE  /\ ToSet(InsertAt(s, i, e)) = ToSet(s) \cup {e}
           /\ IsInjective(s) /\ e \notin ToSet(s) => IsInjective(InsertAt(s, i, e))
<1> DEFINE n == Len(s)
           t == InsertAt(s, i, e)
<1>1. /\ n \in Nat /\ i \in 1 .. n + 1
      /\ DOMAIN s = 1 .. n /\ DOMAIN t = 1 .. n + 1
    BY InsertAtProperties, LenProperties
<1>. HIDE DEF n, t
<1>2. /\ \A k \in 1 .. n + 1 : k < i => k \in 1 .. n /\ t[k] = s[k]
      /\ \A k \in 1 .. n + 1 : k = i => t[k] = e
      /\ \A k \in 1 .. n + 1 : k > i => k - 1 \in 1 .. n /\ t[k] = s[k - 1]
  <2>1. \A k \in 1 .. n + 1 : t[k] = IF k < i THEN s[k]
                                   ELSE IF k = i THEN e ELSE s[k - 1]
    BY InsertAtProperties DEF n, t
  <2>. QED
    BY <1>1, <2>1
<1>3. \A k \in 1 .. n : IF k < i THEN k \in 1 .. n + 1 /\ t[k] = s[k]
                        ELSE k + 1 \in 1 .. n + 1 /\ t[k + 1] = s[k]
  <2>. SUFFICES ASSUME NEW k \in 1 .. n
                PROVE  IF k < i THEN k \in 1 .. n + 1 /\ t[k] = s[k]
                       ELSE k + 1 \in 1 .. n + 1 /\ t[k + 1] = s[k]
    OBVIOUS
  <2>1. CASE k < i
    BY <1>1, <1>2, <2>1
  <2>2. CASE ~(k < i)
    <3>1. k + 1 \in 1 .. n + 1 /\ k + 1 > i /\ (k + 1) - 1 = k
      BY <1>1, <2>2
    <3>2. t[k + 1] = s[(k + 1) - 1]
      BY <1>2, <3>1
    <3>. QED
      BY <2>2, <3>1, <3>2
  <2>. QED
    BY <2>1, <2>2
<1>4. ToSet(t) = ToSet(s) \cup {e}
  <2>1. ASSUME NEW k \in 1 .. n + 1 PROVE t[k] \in ToSet(s) \cup {e}
    <3>1. k < i \/ k = i \/ k > i
      BY <1>1
    <3>. QED
      BY <1>1, <1>2, <3>1 DEF ToSet
  <2>2. ASSUME NEW k \in 1 .. n PROVE s[k] \in ToSet(t)
    BY <1>1, <1>3 DEF ToSet
  <2>3. e \in ToSet(t)
    BY <1>1, <1>2 DEF ToSet
  <2>. QED
    BY <1>1, <2>1, <2>2, <2>3 DEF ToSet
<1>5. ASSUME IsInjective(s), e \notin ToSet(s) PROVE IsInjective(t)
  <2>1. ASSUME NEW a \in 1 .. n + 1, NEW b \in 1 .. n + 1, a < b
        PROVE  t[a] # t[b]
    <3>1. \A x, y \in 1 .. n : x # y => s[x] # s[y]
      BY <1>1, <1>5 DEF IsInjective
    <3>2. \A x \in 1 .. n : s[x] # e
      BY <1>1, <1>5 DEF ToSet
    <3>3. CASE b < i
      BY <1>1, <1>2, <2>1, <3>1, <3>3
    <3>4. CASE b = i
      BY <1>1, <1>2, <2>1, <3>2, <3>4
    <3>5. CASE a = i
      BY <1>1, <1>2, <2>1, <3>2, <3>5
    <3>6. CASE a < i /\ i < b
      <4>1. /\ a \in 1 .. n /\ t[a] = s[a]
            /\ b - 1 \in 1 .. n /\ t[b] = s[b - 1]
        BY <1>2, <3>6
      <4>2. a # b - 1
        BY <1>1, <3>6
      <4>. QED
        BY <3>1, <4>1, <4>2
    <3>7. CASE i < a
      <4>1. /\ a - 1 \in 1 .. n /\ t[a] = s[a - 1]
            /\ b - 1 \in 1 .. n /\ t[b] = s[b - 1]
        BY <1>1, <1>2, <2>1, <3>7
      <4>2. a - 1 # b - 1
        BY <2>1
      <4>. QED
        BY <3>1, <4>1, <4>2
    <3>. QED
      BY <1>1, <3>3, <3>4, <3>5, <3>6, <3>7
  <2>2. \A a, b \in 1 .. n + 1 : a # b => a < b \/ b < a
    BY <1>1
  <2>. QED
    BY <1>1, <2>1, <2>2 DEF IsInjective
<1>. QED
    BY <1>4, <1>5 DEF t

\* enqueueLaneEntry finds a place behind all that do not yield and before one
\* that does.
LEMMA InsertionPointProperties ==
    ASSUME NEW q \in Seq(Entries), NEW priority, NEW sequence
    PROVE  LET k == InsertionPoint(q, priority, sequence)
           IN  /\ k \in 1 .. Len(q) + 1
               /\ \A i \in 1 .. k - 1 : ~Yields(q[i], priority, sequence)
               /\ k =< Len(q) => Yields(q[k], priority, sequence)
<1> DEFINE behind == { i \in 1 .. Len(q) : Yields(q[i], priority, sequence) }
           k == InsertionPoint(q, priority, sequence)
<1>1. k = IF behind = {} THEN Len(q) + 1 ELSE Min(behind)
    BY DEF InsertionPoint
<1>2. Len(q) \in Nat
    OBVIOUS
<1>3. CASE behind = {}
    BY <1>1, <1>2, <1>3
<1>4. CASE behind # {}
  <2>1. behind \subseteq Nat
    BY <1>2
  <2>2. /\ Min(behind) \in behind
        /\ \A i \in behind : Min(behind) =< i
    BY <1>4, <2>1, NonEmptyNatSetHasMin
  <2>3. k \in behind /\ \A i \in behind : k =< i
    BY <1>1, <1>4, <2>2
  <2>. HIDE DEF k
  <2>. QED
    BY <1>2, <2>3 DEF k
<1>. QED
    BY <1>3, <1>4

\* pump() stops at the end of the queue or when no slot is free.
LEMMA BurstProperties ==
    ASSUME NEW q \in Seq(Entries), NEW active \in SUBSET Entries,
           NEW slots \in Nat
    PROVE  /\ Burst(q, active, slots) \in 0 .. Len(q)
           /\ Burst(q, active, slots) < Len(q) =>
                 Burst(q, active, slots) >= slots - Cardinality(active)
           /\ Burst(q, active, slots) > 0 =>
                 Burst(q, active, slots) =< slots - Cardinality(active)
<1>1. Cardinality(active) \in Nat
    BY EntriesAssumption, FS_Subset, FS_CardinalityType
<1>2. Len(q) \in Nat
    OBVIOUS
<1>. QED
    BY <1>1, <1>2 DEF Burst

-----------------------------------------------------------------------------
(***************************************************************************)
(* Where an entry is, given its phase.  These say of the arguments what    *)
(* QueuedEntriesAreInTheirLane, SlotHeldUntilCompletionOrReset and         *)
(* QueueInDequeueOrder say of the variables; DrainLanes is given, and      *)
(* leaves behind, arguments that satisfy them.                             *)
(***************************************************************************)

QueuesMatch(q, phases, entries) ==
    /\ \A e \in Entries, l \in Lanes :
          e \in ToSet(q[l]) <=> phases[e] = "queued" /\ entries[e].lane = l
    /\ \A l \in Lanes : IsInjective(q[l])

SlotsMatch(active, phases, entries, generations, started) ==
    \A e \in Entries, l \in Lanes :
        e \in active[l] <=> /\ phases[e] \in Started
                           /\ entries[e].lane = l
                           /\ started[e] = generations[l]

\* A started task was started in a generation its lane has reached.
NoneAhead(phases, entries, generations, started) ==
    \A e \in Entries, l \in Lanes :
        phases[e] \in Started /\ entries[e].lane = l =>
            started[e] =< generations[l]

Ordered(q, entries) ==
    \A l \in Lanes : \A i, j \in 1 .. Len(q[l]) :
        i < j => \/ entries[q[l][i]].priority > entries[q[l][j]].priority
                 \/ /\ entries[q[l][i]].priority = entries[q[l][j]].priority
                    /\ entries[q[l][i]].sequence < entries[q[l][j]].sequence

Launched(burst, q) == UNION { { q[l][i] : i \in 1 .. burst[l] } : l \in Lanes }

\* Each lane l of q starts its first burst[l] entries.
Starts(burst, pumped, q, active, phases) ==
    /\ \A l \in Lanes :
          /\ burst[l] =< Len(q[l])
          /\ queue'[l] = SubSeq(q[l], burst[l] + 1, Len(q[l]))
          /\ activeTaskIds'[l] = active[l] \cup { q[l][i] : i \in 1 .. burst[l] }
          /\ l \notin pumped => burst[l] = 0
          /\ l \in pumped /\ burst[l] < Len(q[l]) =>
                burst[l] >= maxConcurrent'[l] - Cardinality(active[l])
          /\ burst[l] > 0 =>
                burst[l] =< maxConcurrent'[l] - Cardinality(active[l])
    /\ queue' = [l \in Lanes |-> queue'[l]]
    /\ activeTaskIds' = [l \in Lanes |-> activeTaskIds'[l]]
    /\ phase' = [e \in Entries |-> IF e \in Launched(burst, q) THEN "running"
                                                         ELSE phases[e]]
    /\ executing' = executing \cup Launched(burst, q)
    /\ taskGeneration' =
         [e \in Entries |-> IF e \in Launched(burst, q)
                            THEN generation'[entry'[e].lane]
                            ELSE taskGeneration[e]]

\* What pump() started comes from the head of the queue, and a lane it did not
\* pump is left alone.
LEMMA DrainLanesStarts ==
    ASSUME NEW pumped \in SUBSET Lanes,
           NEW q \in [Lanes -> Seq(Entries)],
           NEW active \in [Lanes -> SUBSET Entries],
           NEW phases,
           maxConcurrent' \in [Lanes -> Nat],
           DrainLanes(pumped, q, active, phases)
    PROVE  \E burst \in [Lanes -> Nat] : Starts(burst, pumped, q, active, phases)
<1> DEFINE burst == [l \in Lanes |->
                       IF l \in pumped
                       THEN Burst(q[l], active[l], maxConcurrent'[l]) ELSE 0]
           launch == [l \in Lanes |-> { q[l][i] : i \in 1 .. burst[l] }]
           launched == UNION { launch[l] : l \in Lanes }
<1>1. ASSUME NEW l \in Lanes
      PROVE  /\ burst[l] \in 0 .. Len(q[l])
             /\ l \notin pumped => burst[l] = 0
             /\ l \in pumped /\ burst[l] < Len(q[l]) =>
                   burst[l] >= maxConcurrent'[l] - Cardinality(active[l])
             /\ burst[l] > 0 =>
                   burst[l] =< maxConcurrent'[l] - Cardinality(active[l])
  <2>1. /\ q[l] \in Seq(Entries) /\ active[l] \in SUBSET Entries
        /\ maxConcurrent'[l] \in Nat /\ Len(q[l]) \in Nat
    OBVIOUS
  <2>2. LET b == Burst(q[l], active[l], maxConcurrent'[l])
        IN  /\ b \in 0 .. Len(q[l])
            /\ b < Len(q[l]) => b >= maxConcurrent'[l] - Cardinality(active[l])
            /\ b > 0 => b =< maxConcurrent'[l] - Cardinality(active[l])
    BY <2>1, BurstProperties
  <2>3. burst[l] = IF l \in pumped
                   THEN Burst(q[l], active[l], maxConcurrent'[l]) ELSE 0
    OBVIOUS
  <2>. HIDE DEF burst
  <2>. QED
    BY <2>1, <2>2, <2>3
<1>2. /\ queue' = [l \in Lanes |-> SubSeq(q[l], burst[l] + 1, Len(q[l]))]
      /\ activeTaskIds' = [l \in Lanes |-> active[l] \cup launch[l]]
      /\ phase' = [e \in Entries |->
                     IF e \in launched THEN "running" ELSE phases[e]]
      /\ executing' = executing \cup launched
      /\ taskGeneration' =
           [e \in Entries |-> IF e \in launched
                              THEN generation'[entry'[e].lane]
                              ELSE taskGeneration[e]]
    BY Zenon DEF DrainLanes
<1>3. burst \in [Lanes -> Nat]
  <2>1. \A l \in Lanes : burst[l] \in Nat
    BY <1>1
  <2>. QED
    BY <2>1
<1>4. \A l \in Lanes : launch[l] = { q[l][i] : i \in 1 .. burst[l] }
    OBVIOUS
<1>5. launched = Launched(burst, q)
    BY <1>4 DEF Launched
<1>. HIDE DEF burst, launch, launched
<1>6. \A l \in Lanes :
         /\ burst[l] =< Len(q[l])
         /\ queue'[l] = SubSeq(q[l], burst[l] + 1, Len(q[l]))
         /\ activeTaskIds'[l] = active[l] \cup { q[l][i] : i \in 1 .. burst[l] }
  <2>1. \A l \in Lanes : burst[l] =< Len(q[l])
    BY <1>1
  <2>. QED
    BY <1>2, <1>4, <2>1
<1>7. Starts(burst, pumped, q, active, phases)
    BY <1>1, <1>2, <1>5, <1>6 DEF Starts
<1>. QED
    BY <1>3, <1>7

\* The first b elements of an injective sequence are b elements.
LEMMA PrefixCardinality ==
    ASSUME NEW s \in Seq(Entries), IsInjective(s), NEW b \in 0 .. Len(s)
    PROVE  /\ IsFiniteSet({ s[i] : i \in 1 .. b })
           /\ Cardinality({ s[i] : i \in 1 .. b }) = b
<1> DEFINE T == { s[i] : i \in 1 .. b }
           f == [i \in 1 .. b |-> s[i]]
<1>1. b \in Nat /\ 1 .. b \subseteq 1 .. Len(s) /\ DOMAIN s = 1 .. Len(s)
    OBVIOUS
<1>2. f \in Injection(1 .. b, T)
  <2>1. f \in [1 .. b -> T]
    OBVIOUS
  <2>2. IsInjective(f)
    BY <1>1 DEF IsInjective
  <2>. QED
    BY <2>1, <2>2 DEF Injection
<1>3. f \in Surjection(1 .. b, T)
    BY DEF Surjection
<1>4. f \in Bijection(1 .. b, T)
    BY <1>2, <1>3 DEF Bijection
<1>5. IsFiniteSet(1 .. b) /\ Cardinality(1 .. b) = b
    BY <1>1, FS_Interval
<1>. HIDE DEF f, T
<1>6. IsFiniteSet(T) /\ Cardinality(T) = b
  <2>1. ExistsBijection(1 .. b, T)
    BY <1>4 DEF ExistsBijection
  <2>. QED
    BY <1>5, <2>1, FS_Bijection
<1>. QED
    BY <1>6 DEF T

\* What a caller of DrainLanes hands over: queues, slots and phases that agree,
\* with the caller's changes to the other variables made.
ReadyToPump(q, active, phases) ==
    /\ q \in [Lanes -> Seq(Entries)]
    /\ active \in [Lanes -> SUBSET Entries]
    /\ phases \in [Entries -> Phases]
    /\ maxConcurrent' \in [Lanes -> Nat]
    /\ generation' \in [Lanes -> Nat]
    /\ taskGeneration \in [Entries -> Nat]
    /\ QueuesMatch(q, phases, entry')
    /\ SlotsMatch(active, phases, entry', generation', taskGeneration)
    /\ NoneAhead(phases, entry', generation', taskGeneration)
    /\ Ordered(q, entry')

\* What an operation has done by then: it may have submitted an entry, its
\* subject, ended a task that is through, likewise, or taken slots back.
PumpsFrom(subjects, pumped, q, active, phases) ==
    /\ ReadyToPump(q, active, phases)
    /\ DrainLanes(pumped, q, active, phases)
    /\ \A l \in Lanes : active[l] \subseteq activeTaskIds[l]
    /\ \A e \in Entries :
          \/ phases[e] = phase[e] /\ entry'[e] = entry[e]
          \/ e \in subjects /\ phase[e] = "new" /\ phases[e] = "queued"
          \/ /\ e \in subjects
             /\ phase[e] \in {"settled", "timedOut"}
             /\ phases[e] = "done"
             /\ entry'[e] = entry[e]

Pumps(subjects) ==
    \E pumped \in SUBSET Lanes : \E q, active, phases :
        PumpsFrom(subjects, pumped, q, active, phases)

\* What it leaves behind: they agree again, only queued entries were started,
\* and no pumped lane has both work and a free slot.
PumpOutcome(pumped, q, active, phases) ==
    /\ queue' \in [Lanes -> Seq(Entries)]
    /\ activeTaskIds' \in [Lanes -> SUBSET Entries]
    /\ phase' \in [Entries -> Phases]
    /\ taskGeneration' \in [Entries -> Nat]
    /\ executing \subseteq Entries => executing' \subseteq Entries
    /\ \A e \in Entries : phase'[e] # phases[e] =>
          phases[e] = "queued" /\ phase'[e] = "running"
    /\ QueuesMatch(queue', phase', entry')
    /\ SlotsMatch(activeTaskIds', phase', entry', generation', taskGeneration')
    /\ NoneAhead(phase', entry', generation', taskGeneration')
    /\ Ordered(queue', entry')
    /\ \A l \in pumped :
          queue'[l] # <<>> =>
            Cardinality(activeTaskIds'[l]) >= maxConcurrent'[l]
    /\ \A l \in Lanes \ pumped :
          queue'[l] = q[l] /\ activeTaskIds'[l] = active[l]
    /\ \A l \in Lanes : \A e \in active[l] : e \in activeTaskIds'[l]
    /\ \A l \in Lanes : \A e \in activeTaskIds'[l] :
          e \in active[l] \/ phases[e] = "queued"

\* Whatever consistent queues, slots and phases drainLane is given, it leaves
\* consistent ones behind, and no pumped lane that stalls.
LEMMA DrainLanesPreserves ==
    ASSUME NEW pumped \in SUBSET Lanes, NEW q, NEW active, NEW phases,
           ReadyToPump(q, active, phases),
           DrainLanes(pumped, q, active, phases)
    PROVE  PumpOutcome(pumped, q, active, phases)
<1>. USE DEF ReadyToPump
<1>1. PICK burst \in [Lanes -> Nat] : Starts(burst, pumped, q, active, phases)
    BY DrainLanesStarts
<1>2. ASSUME NEW l \in Lanes
      PROVE  /\ q[l] \in Seq(Entries) /\ Len(q[l]) \in Nat
             /\ burst[l] \in 0 .. Len(q[l])
             /\ queue'[l] \in Seq(Entries)
             /\ Len(queue'[l]) = Len(q[l]) - burst[l]
             /\ \A i \in 1 .. Len(queue'[l]) :
                   /\ burst[l] + i \in 1 .. Len(q[l])
                   /\ queue'[l][i] = q[l][burst[l] + i]
             /\ \A i \in 1 .. Len(q[l]) : q[l][i] \in Entries
             /\ DOMAIN q[l] = 1 .. Len(q[l])
             /\ DOMAIN queue'[l] = 1 .. Len(queue'[l])
  <2>1. /\ q[l] \in Seq(Entries) /\ Len(q[l]) \in Nat
        /\ burst[l] \in 0 .. Len(q[l])
        /\ \A i \in 1 .. Len(q[l]) : q[l][i] \in Entries
        /\ queue'[l] = SubSeq(q[l], burst[l] + 1, Len(q[l]))
    BY <1>1 DEF Starts
  <2>2. \A i \in burst[l] + 1 .. Len(q[l]) : q[l][i] \in Entries
    BY <2>1
  <2>3. /\ queue'[l] \in Seq(Entries)
        /\ Len(queue'[l]) = IF burst[l] + 1 =< Len(q[l])
                            THEN Len(q[l]) - (burst[l] + 1) + 1 ELSE 0
        /\ \A i \in 1 .. Len(q[l]) - (burst[l] + 1) + 1 :
              queue'[l][i] = q[l][burst[l] + 1 + i - 1]
    BY SMTT(30), <2>1, <2>2, SubSeqProperties
  <2>4. Len(queue'[l]) = Len(q[l]) - burst[l]
    BY <2>1, <2>3
  <2>5. \A i \in 1 .. Len(queue'[l]) :
           /\ burst[l] + i \in 1 .. Len(q[l])
           /\ queue'[l][i] = q[l][burst[l] + i]
    <3>1. ASSUME NEW i \in 1 .. Len(q[l]) - burst[l]
          PROVE  /\ burst[l] + i \in 1 .. Len(q[l])
                 /\ queue'[l][i] = q[l][burst[l] + i]
      <4>1. /\ i \in 1 .. Len(q[l]) - (burst[l] + 1) + 1
            /\ burst[l] + 1 + i - 1 = burst[l] + i
            /\ burst[l] + i \in 1 .. Len(q[l])
        BY SMTT(30), <2>1
      <4>. QED
        BY <2>3, <4>1
    <3>. QED
      BY <2>4, <3>1
  <2>6. DOMAIN q[l] = 1 .. Len(q[l]) /\ DOMAIN queue'[l] = 1 .. Len(queue'[l])
    BY <2>1, <2>3, LenProperties
  <2>. QED
    BY <2>1, <2>3, <2>4, <2>5, <2>6
<1>3. /\ queue' \in [Lanes -> Seq(Entries)]
      /\ activeTaskIds' \in [Lanes -> SUBSET Entries]
  <2>1. \A l \in Lanes : { q[l][i] : i \in 1 .. burst[l] } \subseteq Entries
    BY <1>2
  <2>2. \A l \in Lanes : activeTaskIds'[l] \in SUBSET Entries
    BY <1>1, <2>1 DEF Starts
  <2>3. /\ queue' = [l \in Lanes |-> queue'[l]]
        /\ activeTaskIds' = [l \in Lanes |-> activeTaskIds'[l]]
    BY <1>1 DEF Starts
  <2>4. \A l \in Lanes : queue'[l] \in Seq(Entries)
    BY <1>2
  <2>. QED
    BY <2>2, <2>3, <2>4
<1>4. ASSUME NEW e
      PROVE  e \in Launched(burst, q) <=>
               \E l \in Lanes : \E i \in 1 .. burst[l] : e = q[l][i]
    BY DEF Launched
<1>5. ASSUME NEW l \in Lanes, NEW i \in 1 .. Len(q[l])
      PROVE  /\ q[l][i] \in Entries
             /\ q[l][i] \in ToSet(q[l])
             /\ phases[q[l][i]] = "queued"
             /\ entry'[q[l][i]].lane = l
    BY <1>2 DEF QueuesMatch, ToSet
<1>6. ASSUME NEW l \in Lanes, NEW i \in 1 .. burst[l]
      PROVE  /\ i \in 1 .. Len(q[l])
             /\ q[l][i] \in Entries
             /\ phases[q[l][i]] = "queued"
             /\ entry'[q[l][i]].lane = l
  <2>1. i \in 1 .. Len(q[l])
    BY <1>2
  <2>. QED
    BY <1>5, <2>1
<1>7. ASSUME NEW e \in Launched(burst, q)
      PROVE  /\ e \in Entries /\ phases[e] = "queued"
             /\ entry'[e].lane \in Lanes
             /\ \E i \in 1 .. burst[entry'[e].lane] : e = q[entry'[e].lane][i]
  <2>1. PICK l \in Lanes : \E i \in 1 .. burst[l] : e = q[l][i]
    BY <1>4
  <2>. QED
    BY <1>6, <2>1
<1>8. \A e \in Entries :
         /\ phase'[e] = IF e \in Launched(burst, q) THEN "running" ELSE phases[e]
         /\ taskGeneration'[e] = IF e \in Launched(burst, q)
                                 THEN generation'[entry'[e].lane]
                                 ELSE taskGeneration[e]
    BY <1>1 DEF Starts
<1>9. /\ phase' \in [Entries -> Phases]
      /\ taskGeneration' \in [Entries -> Nat]
      /\ executing \subseteq Entries => executing' \subseteq Entries
      /\ \A e \in Entries : phase'[e] # phases[e] =>
                 phases[e] = "queued" /\ phase'[e] = "running"
  <2>1. \A e \in Entries : phase'[e] \in Phases
    BY <1>8 DEF Phases
  <2>2. \A e \in Entries : taskGeneration'[e] \in Nat
    BY <1>7, <1>8
  <2>3. DOMAIN phase' = Entries /\ DOMAIN taskGeneration' = Entries
    BY <1>1 DEF Starts
  <2>4. /\ phase' = [e \in Entries |-> phase'[e]]
        /\ taskGeneration' = [e \in Entries |-> taskGeneration'[e]]
    BY <1>1, <1>8 DEF Starts
  <2>5. executing' = executing \cup Launched(burst, q)
    BY <1>1 DEF Starts
  <2>6. Launched(burst, q) \subseteq Entries
    BY <1>7
  <2>7. \A e \in Entries : phase'[e] # phases[e] =>
                 phases[e] = "queued" /\ phase'[e] = "running"
    BY <1>7, <1>8
  <2>. QED
    BY <2>1, <2>2, <2>4, <2>5, <2>6, <2>7
<1>10. QueuesMatch(queue', phase', entry')
  <2>1. ASSUME NEW e \in Entries, NEW l \in Lanes, e \in ToSet(queue'[l])
        PROVE  phase'[e] = "queued" /\ entry'[e].lane = l
    <3>1. PICK i \in 1 .. Len(queue'[l]) : e = queue'[l][i]
      BY <1>2, <2>1 DEF ToSet
    <3>2. /\ burst[l] + i \in 1 .. Len(q[l])
          /\ e = q[l][burst[l] + i]
      BY <1>2, <3>1
    <3>3. phases[e] = "queued" /\ entry'[e].lane = l
      BY <1>5, <3>2
    <3>4. e \notin Launched(burst, q)
      <4>1. SUFFICES ASSUME e \in Launched(burst, q) PROVE FALSE
        OBVIOUS
      <4>2. PICK j \in 1 .. burst[l] : e = q[l][j]
        BY <1>7, <3>3, <4>1
      <4>3. j \in 1 .. Len(q[l]) /\ j # burst[l] + i
        <5>1. burst[l] \in Nat /\ burst[l] =< Len(q[l]) /\ Len(q[l]) \in Nat
          BY <1>2
        <5>. QED
          BY <5>1, <4>2
      <4>4. IsInjective(q[l]) /\ DOMAIN q[l] = 1 .. Len(q[l])
        BY <1>2 DEF QueuesMatch
      <4>. QED
        BY <3>2, <4>2, <4>3, <4>4 DEF IsInjective
    <3>. QED
      BY <1>8, <3>3, <3>4
  <2>2. ASSUME NEW e \in Entries, NEW l \in Lanes,
               phase'[e] = "queued", entry'[e].lane = l
        PROVE  e \in ToSet(queue'[l])
    <3>1. e \notin Launched(burst, q) /\ phases[e] = "queued"
      BY <1>8, <2>2
    <3>2. PICK j \in 1 .. Len(q[l]) : e = q[l][j]
      BY <1>2, <2>2, <3>1 DEF QueuesMatch, ToSet
    <3>3. j \notin 1 .. burst[l]
      BY <1>4, <3>1, <3>2
    <3>4. /\ j - burst[l] \in 1 .. Len(queue'[l])
          /\ burst[l] + (j - burst[l]) = j
      BY SMTT(30), <1>2, <3>2, <3>3
    <3>5. e = queue'[l][j - burst[l]]
      BY <1>2, <3>2, <3>4
    <3>. QED
      BY <1>2, <3>4, <3>5 DEF ToSet
  <2>3. ASSUME NEW l \in Lanes PROVE IsInjective(queue'[l])
    <3>1. IsInjective(q[l])
      BY DEF QueuesMatch
    <3>2. ASSUME NEW i \in 1 .. Len(queue'[l]), NEW j \in 1 .. Len(queue'[l]),
                 queue'[l][i] = queue'[l][j]
          PROVE  i = j
      <4>1. /\ burst[l] + i \in 1 .. Len(q[l])
            /\ burst[l] + j \in 1 .. Len(q[l])
            /\ q[l][burst[l] + i] = q[l][burst[l] + j]
        BY <1>2, <3>2
      <4>2. burst[l] + i = burst[l] + j
        BY <1>2, <3>1, <4>1 DEF IsInjective
      <4>. QED
        BY <1>2, <4>2
    <3>. QED
      BY <1>2, <3>2 DEF IsInjective
  <2>. QED
    BY <2>1, <2>2, <2>3 DEF QueuesMatch
<1>11. SlotsMatch(activeTaskIds', phase', entry', generation', taskGeneration')
  <2>. SUFFICES ASSUME NEW e \in Entries, NEW l \in Lanes
                PROVE  e \in activeTaskIds'[l] <=>
                         /\ phase'[e] \in Started
                         /\ entry'[e].lane = l
                         /\ taskGeneration'[e] = generation'[l]
    BY DEF SlotsMatch
  <2>1. e \in activeTaskIds'[l] <=>
          e \in active[l] \/ \E i \in 1 .. burst[l] : e = q[l][i]
    BY <1>1 DEF Starts
  <2>2. e \in active[l] <=> /\ phases[e] \in Started
                            /\ entry'[e].lane = l
                            /\ taskGeneration[e] = generation'[l]
    BY DEF SlotsMatch
  <2>3. CASE e \in Launched(burst, q)
    <3>1. /\ phases[e] = "queued" /\ phase'[e] = "running"
          /\ taskGeneration'[e] = generation'[entry'[e].lane]
          /\ \E i \in 1 .. burst[entry'[e].lane] : e = q[entry'[e].lane][i]
      BY <1>7, <1>8, <2>3
    <3>2. (\E i \in 1 .. burst[l] : e = q[l][i]) => entry'[e].lane = l
      BY <1>6
    <3>. QED
      BY <2>1, <2>2, <3>1, <3>2 DEF Started
  <2>4. CASE e \notin Launched(burst, q)
    <3>1. phase'[e] = phases[e] /\ taskGeneration'[e] = taskGeneration[e]
      BY <1>8, <2>4
    <3>2. ~\E i \in 1 .. burst[l] : e = q[l][i]
      BY <1>4, <2>4
    <3>. QED
      BY <2>1, <2>2, <3>1, <3>2
  <2>. QED
    BY <2>3, <2>4
<1>12. Ordered(queue', entry')
  <2>. SUFFICES ASSUME NEW l \in Lanes,
                       NEW i \in 1 .. Len(queue'[l]),
                       NEW j \in 1 .. Len(queue'[l]), i < j
                PROVE  LET a == queue'[l][i]
                           b == queue'[l][j]
                       IN  \/ entry'[a].priority > entry'[b].priority
                           \/ /\ entry'[a].priority = entry'[b].priority
                              /\ entry'[a].sequence < entry'[b].sequence
    BY DEF Ordered
  <2>1. /\ burst[l] + i \in 1 .. Len(q[l]) /\ burst[l] + j \in 1 .. Len(q[l])
        /\ queue'[l][i] = q[l][burst[l] + i] /\ queue'[l][j] = q[l][burst[l] + j]
    BY <1>2
  <2>2. burst[l] \in Nat /\ i \in Nat /\ j \in Nat
    OBVIOUS
  <2>3. burst[l] + i < burst[l] + j
    BY <2>2
  <2>. QED
    BY <2>1, <2>3 DEF Ordered
<1>13. ASSUME NEW l \in pumped, queue'[l] # <<>>
       PROVE  Cardinality(activeTaskIds'[l]) >= maxConcurrent'[l]
  <2> DEFINE launch == { q[l][i] : i \in 1 .. burst[l] }
  <2>1. l \in Lanes /\ maxConcurrent'[l] \in Nat
    OBVIOUS
  <2>2. burst[l] < Len(q[l])
    <3>1. Len(queue'[l]) # 0
      BY <1>2, <1>13, <2>1, EmptySeq
    <3>. QED
      BY <1>2, <2>1, <3>1
  <2>3. burst[l] >= maxConcurrent'[l] - Cardinality(active[l])
    BY <1>1, <2>1, <2>2 DEF Starts
  <2>4. IsFiniteSet(launch) /\ Cardinality(launch) = burst[l]
    <3>1. /\ q[l] \in Seq(Entries) /\ IsInjective(q[l])
          /\ burst[l] \in 0 .. Len(q[l])
      BY <1>2, <2>1 DEF QueuesMatch
    <3>. QED
      BY <3>1, PrefixCardinality
  <2>5. IsFiniteSet(active[l]) /\ Cardinality(active[l]) \in Nat
    BY <2>1, EntriesAssumption, FS_Subset, FS_CardinalityType
  <2>6. active[l] \cap launch = {}
    <3>1. SUFFICES ASSUME NEW e \in active[l], e \in launch PROVE FALSE
      OBVIOUS
    <3>2. e \in Entries /\ phases[e] = "queued"
      BY <1>6, <2>1, <3>1
    <3>3. phases[e] \in Started
      BY <2>1, <3>2 DEF SlotsMatch
    <3>. QED
      BY <3>2, <3>3 DEF Started
  <2>7. activeTaskIds'[l] = active[l] \cup launch
    BY <1>1, <2>1 DEF Starts
  <2>. HIDE DEF launch
  <2>8. Cardinality(active[l] \cup launch) =
          Cardinality(active[l]) + Cardinality(launch) - Cardinality({})
    BY <2>4, <2>5, <2>6, FS_Union
  <2>9. Cardinality({}) = 0
    BY FS_EmptySet
  <2>. QED
    BY <1>2, <2>1, <2>3, <2>4, <2>5, <2>7, <2>8, <2>9
<1>14. ASSUME NEW l \in Lanes \ pumped
       PROVE  queue'[l] = q[l] /\ activeTaskIds'[l] = active[l]
  <2>1. burst[l] = 0
    BY <1>1 DEF Starts
  <2>2. queue'[l] = SubSeq(q[l], 1, Len(q[l]))
    <3>1. queue'[l] = SubSeq(q[l], burst[l] + 1, Len(q[l]))
      BY <1>1 DEF Starts
    <3>. QED
      BY <2>1, <3>1
  <2>3. { q[l][i] : i \in 1 .. burst[l] } = {}
    BY <2>1
  <2>4. q[l] \in Seq(Entries)
    OBVIOUS
  <2>. QED
    BY ZenonT(40), <1>1, <2>2, <2>3, <2>4, SubSeqFull DEF Starts
<1>15. ASSUME NEW l \in Lanes
       PROVE  /\ \A e \in active[l] : e \in activeTaskIds'[l]
              /\ \A e \in activeTaskIds'[l] :
                    e \in active[l] \/ phases[e] = "queued"
  <2>1. activeTaskIds'[l] = active[l] \cup { q[l][i] : i \in 1 .. burst[l] }
    BY <1>1 DEF Starts
  <2>. QED
    BY <1>6, <2>1
<1>16. NoneAhead(phase', entry', generation', taskGeneration')
  <2>. SUFFICES ASSUME NEW e \in Entries, NEW l \in Lanes,
                       phase'[e] \in Started, entry'[e].lane = l
                PROVE  taskGeneration'[e] =< generation'[l]
    BY DEF NoneAhead
  <2>1. CASE e \in Launched(burst, q)
    <3>1. taskGeneration'[e] = generation'[l] /\ generation'[l] \in Nat
      BY <1>8, <2>1
    <3>. QED
      BY <3>1
  <2>2. CASE e \notin Launched(burst, q)
    BY <1>8, <2>2 DEF NoneAhead
  <2>. QED
    BY <2>1, <2>2
<1>. QED
    BY <1>3, <1>9, <1>10, <1>11, <1>12, <1>13, <1>14, <1>15, <1>16
    DEF PumpOutcome

\* What is left of a sequence without its first b elements.
LEMMA SubSeqElements ==
    ASSUME NEW s \in Seq(Entries), NEW b \in 0 .. Len(s),
           NEW x \in ToSet(SubSeq(s, b + 1, Len(s)))
    PROVE  \E j \in 1 .. Len(s) : b < j /\ x = s[j]
<1>. DEFINE r == SubSeq(s, b + 1, Len(s))
<1>1. /\ Len(s) \in Nat /\ b \in Nat /\ b =< Len(s)
      /\ \A i \in 1 .. Len(s) : s[i] \in Entries
    OBVIOUS
<1>2. /\ Len(r) = Len(s) - b
      /\ DOMAIN r = 1 .. Len(r)
      /\ \A i \in 1 .. Len(r) : r[i] = s[b + i]
    BY <1>1
<1>. HIDE DEF r
<1>3. PICK i \in 1 .. Len(r) : x = r[i]
    BY <1>2 DEF ToSet, r
<1>4. b + i \in 1 .. Len(s) /\ b < b + i /\ x = s[b + i]
    BY <1>1, <1>2, <1>3
<1>. QED
    BY <1>4

\* What pump() has started: it is executing and holds a slot, of a lane that
\* has as many, ahead of whatever still waits there.
Admission(q, active, phases) ==
    /\ executing' = executing \cup { e \in Entries : phase'[e] # phases[e] }
    /\ \A e \in Entries :
          phase'[e] # phases[e] =>
              \E l \in Lanes : e \in activeTaskIds'[l] /\ entry'[e].lane = l
    /\ \A l \in Lanes : \A e \in activeTaskIds'[l] \ active[l] :
          /\ phase'[e] # phases[e]
          /\ Cardinality(activeTaskIds'[l]) =< maxConcurrent'[l]
          /\ \A b \in ToSet(queue'[l]) : Precedes(e, b)'

\* pump() takes from the head of the queue, and only as many as find a slot.
LEMMA DrainLanesAdmits ==
    ASSUME NEW pumped \in SUBSET Lanes, NEW q, NEW active, NEW phases,
           ReadyToPump(q, active, phases),
           DrainLanes(pumped, q, active, phases)
    PROVE  Admission(q, active, phases)
<1>. USE DEF ReadyToPump
<1>1. PICK burst \in [Lanes -> Nat] : Starts(burst, pumped, q, active, phases)
    BY DrainLanesStarts
<1>2. ASSUME NEW l \in Lanes
      PROVE  /\ q[l] \in Seq(Entries)
             /\ IsInjective(q[l])
             /\ burst[l] \in 0 .. Len(q[l])
             /\ active[l] \in SUBSET Entries
             /\ maxConcurrent'[l] \in Nat
             /\ queue'[l] = SubSeq(q[l], burst[l] + 1, Len(q[l]))
             /\ activeTaskIds'[l]
                   = active[l] \cup { q[l][i] : i \in 1 .. burst[l] }
             /\ burst[l] > 0 =>
                   burst[l] =< maxConcurrent'[l] - Cardinality(active[l])
    BY <1>1 DEF Starts, QueuesMatch
<1>3. ASSUME NEW l \in Lanes, NEW i \in 1 .. burst[l]
      PROVE  /\ i \in 1 .. Len(q[l])
             /\ q[l][i] \in Entries
             /\ phases[q[l][i]] = "queued"
             /\ entry'[q[l][i]].lane = l
             /\ q[l][i] \in Launched(burst, q)
  <2>1. i \in 1 .. Len(q[l]) /\ q[l][i] \in Entries
    BY <1>2
  <2>2. q[l][i] \in ToSet(q[l])
    BY <1>2, <2>1 DEF ToSet
  <2>. QED
    BY <2>1, <2>2 DEF QueuesMatch, Launched
<1>4. ASSUME NEW e \in Launched(burst, q)
      PROVE  /\ e \in Entries /\ phases[e] = "queued"
             /\ \E l \in Lanes : e \in activeTaskIds'[l] /\ entry'[e].lane = l
  <2>1. PICK l \in Lanes : \E i \in 1 .. burst[l] : e = q[l][i]
    BY DEF Launched
  <2>2. PICK i \in 1 .. burst[l] : e = q[l][i]
    BY <2>1
  <2>3. e \in activeTaskIds'[l]
    BY <1>2, <2>2
  <2>. QED
    BY <1>3, <2>2, <2>3
<1>5. /\ \A e \in Entries :
            phase'[e] = IF e \in Launched(burst, q) THEN "running" ELSE phases[e]
      /\ executing' = executing \cup Launched(burst, q)
    BY <1>1 DEF Starts
<1>6. Launched(burst, q) = { e \in Entries : phase'[e] # phases[e] }
    BY <1>4, <1>5
<1>7. ASSUME NEW l \in Lanes, NEW e \in activeTaskIds'[l] \ active[l]
      PROVE  /\ phase'[e] # phases[e]
             /\ Cardinality(activeTaskIds'[l]) =< maxConcurrent'[l]
             /\ \A b \in ToSet(queue'[l]) : Precedes(e, b)'
  <2>1. PICK i \in 1 .. burst[l] : e = q[l][i]
    BY <1>2
  <2>2. phase'[e] # phases[e]
    BY <1>3, <1>6, <2>1
  <2>3. Cardinality(activeTaskIds'[l]) =< maxConcurrent'[l]
    <3>. DEFINE T == { q[l][j] : j \in 1 .. burst[l] }
    <3>1. IsFiniteSet(T) /\ Cardinality(T) = burst[l]
      BY <1>2, PrefixCardinality
    <3>2. IsFiniteSet(active[l]) /\ Cardinality(active[l]) \in Nat
      BY <1>2, EntriesAssumption, FS_Subset, FS_CardinalityType
    <3>3. activeTaskIds'[l] = active[l] \cup T
      BY <1>2
    <3>4. burst[l] \in Nat /\ burst[l] > 0 /\ maxConcurrent'[l] \in Nat
      BY <1>2, <2>1
    <3>5. burst[l] =< maxConcurrent'[l] - Cardinality(active[l])
      BY <1>2, <3>4
    <3>. HIDE DEF T
    <3>6. Cardinality(active[l] \cap T) \in Nat
      BY <3>2, FS_Intersection, FS_CardinalityType
    <3>7. Cardinality(active[l] \cup T)
             = Cardinality(active[l]) + Cardinality(T)
               - Cardinality(active[l] \cap T)
      BY <3>1, <3>2, FS_Union
    <3>. QED
      BY <3>1, <3>2, <3>3, <3>4, <3>5, <3>6, <3>7
  <2>4. ASSUME NEW b \in ToSet(queue'[l])
        PROVE  Precedes(e, b)'
    <3>1. /\ q[l] \in Seq(Entries) /\ burst[l] \in 0 .. Len(q[l])
          /\ queue'[l] = SubSeq(q[l], burst[l] + 1, Len(q[l]))
      BY <1>2
    <3>2. PICK j \in 1 .. Len(q[l]) : burst[l] < j /\ b = q[l][j]
      BY <3>1, SubSeqElements
    <3>3. i < j /\ i \in 1 .. Len(q[l])
      BY <1>3, <2>1, <3>1, <3>2
    <3>. QED
      BY <2>1, <3>2, <3>3 DEF Ordered, Precedes
  <2>. QED
    BY <2>2, <2>3, <2>4
<1>. QED
    BY <1>4, <1>5, <1>6, <1>7 DEF Admission

-----------------------------------------------------------------------------
(***************************************************************************)
(* The inductive invariant.  Besides the properties to be proved it says   *)
(* that a submitted entry carries its options and a sequence number that   *)
(* has been used up, which is why a new entry goes behind its equals, and  *)
(* that an awaited task has been started, which is why it never holds a    *)
(* slot again once it has lost it; and that no task was started in a       *)
(* generation still to come, which is why a reset takes every slot back.   *)
(***************************************************************************)

SubmittedEntriesHaveOptions ==
    \A e \in Entries :
        phase[e] \notin {"new", "refused"} =>
            entry[e] \in EntryOptions /\ entry[e].sequence < nextQueueSequence

AwaitedTasksHaveStarted ==
    \A w \in Waiters : \A e \in awaited[w] :
        phase[e] \in Started \cup {"done"}

SchedulerInv ==
    /\ SubmittedEntriesHaveOptions
    /\ QueuedEntriesAreInTheirLane
    /\ SlotHeldUntilCompletionOrReset
    /\ NoneAhead(phase, entry, generation, taskGeneration)
    /\ QueueInDequeueOrder
    /\ LanesNeverStall

WaiterInv ==
    /\ AwaitedTasksHaveStarted
    /\ NoMissedWakeup
    /\ DrainedVerdictSound

IInv == TypeOK /\ SchedulerInv /\ WaiterInv

\* The properties of the model, as the relations the lemmas above are about.
LEMMA SchedulerInvInMatches ==
    /\ QueuedEntriesAreInTheirLane <=> QueuesMatch(queue, phase, entry)
    /\ SlotHeldUntilCompletionOrReset <=>
          SlotsMatch(activeTaskIds, phase, entry, generation, taskGeneration)
    /\ QueueInDequeueOrder <=> Ordered(queue, entry)
BY DEF QueuedEntriesAreInTheirLane, QueuesMatch, QueueInDequeueOrder, Ordered,
       SlotHeldUntilCompletionOrReset, SlotsMatch, Precedes

\* The same of the next state.
LEMMA SchedulerInvInMatchesNext ==
    /\ QueuedEntriesAreInTheirLane' <=> QueuesMatch(queue', phase', entry')
    /\ SlotHeldUntilCompletionOrReset' <=>
          SlotsMatch(activeTaskIds', phase', entry', generation', taskGeneration')
    /\ QueueInDequeueOrder' <=> Ordered(queue', entry')
BY DEF QueuedEntriesAreInTheirLane, QueuesMatch, QueueInDequeueOrder, Ordered,
       SlotHeldUntilCompletionOrReset, SlotsMatch, Precedes

\* The empty queue of getQueueState.
LEMMA InitEstablishesIInv == Init => IInv
<1>. SUFFICES ASSUME Init PROVE IInv
    OBVIOUS
<1>1. TypeOK
    BY EmptySeq DEF Init, TypeOK, Phases, WaiterStates
<1>2. \A l \in Lanes : queue[l] = <<>> /\ Len(queue[l]) = 0 /\ ToSet(queue[l]) = {}
    BY EmptySeq DEF Init, ToSet
<1>3. SchedulerInv
  <2>1. SubmittedEntriesHaveOptions
    BY DEF Init, SubmittedEntriesHaveOptions
  <2>2. QueuedEntriesAreInTheirLane
    BY <1>2 DEF Init, QueuedEntriesAreInTheirLane, IsInjective
  <2>3. SlotHeldUntilCompletionOrReset
    BY DEF Init, SlotHeldUntilCompletionOrReset, Started
  <2>4. QueueInDequeueOrder
    BY <1>2 DEF QueueInDequeueOrder
  <2>5. LanesNeverStall
    BY <1>2 DEF LanesNeverStall
  <2>6. NoneAhead(phase, entry, generation, taskGeneration)
    BY DEF Init, NoneAhead, Started
  <2>. QED
    BY <2>1, <2>2, <2>3, <2>4, <2>5, <2>6 DEF SchedulerInv
<1>4. WaiterInv
    BY DEF Init, WaiterInv, AwaitedTasksHaveStarted, NoMissedWakeup,
           DrainedVerdictSound, Pending
<1>. QED
    BY <1>1, <1>3, <1>4 DEF IInv

-----------------------------------------------------------------------------
(***************************************************************************)
(* Waiters.  A step that starts tasks adds holders that nobody awaits; a   *)
(* step that takes slots away notifies.                                    *)
(***************************************************************************)

Begun == Started \cup {"done"}

\* A step that takes no slot from a task that was started needs wake nobody.
LEMMA WaitersUndisturbed ==
    ASSUME IInv, UNCHANGED waiterVars,
           \A l \in Lanes : \A e \in activeTaskIds[l] : e \in activeTaskIds'[l],
           \A l \in Lanes : \A e \in activeTaskIds'[l] :
               e \in activeTaskIds[l] \/ phase[e] \notin Begun,
           \A e \in Entries : phase[e] \in Begun => phase'[e] \in Begun
    PROVE  WaiterInv'
<1>1. waiter' = waiter /\ awaited' = awaited /\ TypeOK
    BY DEF waiterVars, IInv
<1>2. AwaitedTasksHaveStarted'
    BY <1>1 DEF IInv, WaiterInv, AwaitedTasksHaveStarted, TypeOK, Begun
<1>3. NoMissedWakeup'
  <2>1. SUFFICES ASSUME NEW w \in Waiters, waiter[w] \in Pending
                 PROVE  \E l \in Lanes : awaited[w] \cap activeTaskIds'[l] # {}
    BY <1>1 DEF NoMissedWakeup
  <2>2. PICK l \in Lanes : awaited[w] \cap activeTaskIds[l] # {}
    BY <2>1 DEF IInv, WaiterInv, NoMissedWakeup
  <2>. QED
    BY <2>2
<1>4. DrainedVerdictSound'
  <2>1. SUFFICES ASSUME NEW w \in Waiters, waiter[w] = "drained",
                        NEW l \in Lanes, NEW e \in awaited[w],
                        e \in activeTaskIds'[l]
                 PROVE  FALSE
    BY <1>1 DEF DrainedVerdictSound
  <2>2. phase[e] \in Begun /\ e \notin activeTaskIds[l]
    BY <2>1 DEF IInv, WaiterInv, DrainedVerdictSound, AwaitedTasksHaveStarted,
                Begun
  <2>. QED
    BY <2>1, <2>2
<1>. QED
    BY <1>2, <1>3, <1>4 DEF WaiterInv

\* A step that takes slots away and calls notifyActiveTaskWaiters leaves no
\* pending waiter whose tasks are through.
LEMMA NotifyKeepsWaiterInv ==
    ASSUME IInv, awaited' = awaited, NotifyActiveTaskWaiters,
           \A l \in Lanes : \A e \in activeTaskIds'[l] :
               e \in activeTaskIds[l] \/ phase[e] \notin Begun,
           \A e \in Entries : phase[e] \in Begun => phase'[e] \in Begun
    PROVE  WaiterInv' /\ waiter' \in [Waiters -> WaiterStates]
<1>1. TypeOK
    BY DEF IInv
<1>2. \A w \in Waiters :
         waiter'[w] = IF /\ waiter[w] \in Pending
                         /\ \A l \in Lanes :
                               awaited[w] \cap activeTaskIds'[l] = {}
                      THEN "drained" ELSE waiter[w]
    BY DEF NotifyActiveTaskWaiters
<1>3. waiter' \in [Waiters -> WaiterStates]
    BY <1>1 DEF NotifyActiveTaskWaiters, TypeOK, WaiterStates
<1>4. AwaitedTasksHaveStarted'
    BY <1>1 DEF IInv, WaiterInv, AwaitedTasksHaveStarted, TypeOK, Begun
<1>5. NoMissedWakeup'
    BY <1>2 DEF NoMissedWakeup, Pending
<1>6. DrainedVerdictSound'
  <2>1. SUFFICES ASSUME NEW w \in Waiters, waiter'[w] = "drained",
                        NEW l \in Lanes, NEW e \in awaited[w],
                        e \in activeTaskIds'[l]
                 PROVE  FALSE
    BY DEF DrainedVerdictSound
  <2>2. waiter[w] = "drained"
    BY <1>2, <2>1
  <2>3. phase[e] \in Begun /\ e \notin activeTaskIds[l]
    BY <2>2 DEF IInv, WaiterInv, DrainedVerdictSound, AwaitedTasksHaveStarted,
                Begun
  <2>. QED
    BY <2>1, <2>3
<1>. QED
    BY <1>3, <1>4, <1>5, <1>6 DEF WaiterInv

-----------------------------------------------------------------------------
(***************************************************************************)
(* One lemma per operation that pumps.                                     *)
(***************************************************************************)

\* Slots are set: a lane that is not pumped keeps them or is paused.
LEMMA SettingSlotsKeepsIInv ==
    ASSUME IInv, NEW pumped \in SUBSET Lanes,
           maxConcurrent' \in [Lanes -> Nat],
           \A l \in Lanes \ pumped : maxConcurrent'[l] \in {maxConcurrent[l], 0},
           UNCHANGED <<gatewayDraining, generation, nextQueueSequence, entry,
                       waiterVars>>,
           DrainLanes(pumped, queue, activeTaskIds, phase)
    PROVE  IInv' /\ Pumps({})
<1>1. TypeOK /\ SchedulerInv
    BY DEF IInv
<1>2. ReadyToPump(queue, activeTaskIds, phase)
  <2>1. /\ QueuesMatch(queue, phase, entry)
        /\ SlotsMatch(activeTaskIds, phase, entry, generation, taskGeneration)
        /\ NoneAhead(phase, entry, generation, taskGeneration)
        /\ Ordered(queue, entry)
    BY <1>1, SchedulerInvInMatches DEF SchedulerInv
  <2>. QED
    BY <1>1, <2>1 DEF ReadyToPump, TypeOK
<1>3. PumpOutcome(pumped, queue, activeTaskIds, phase)
    BY <1>2, DrainLanesPreserves
<1>. USE <1>3 DEF PumpOutcome
<1>4. TypeOK'
    BY <1>1 DEF TypeOK, waiterVars
<1>5. SubmittedEntriesHaveOptions'
    BY <1>1 DEF SchedulerInv, SubmittedEntriesHaveOptions
<1>6. LanesNeverStall'
  <2>1. SUFFICES ASSUME NEW m \in Lanes, queue'[m] # <<>>
                 PROVE  Cardinality(activeTaskIds'[m]) >= maxConcurrent'[m]
    BY DEF LanesNeverStall
  <2>2. CASE m \in pumped
    BY <2>1, <2>2
  <2>3. CASE m \notin pumped /\ maxConcurrent'[m] = maxConcurrent[m]
    <3>1. queue'[m] = queue[m] /\ activeTaskIds'[m] = activeTaskIds[m]
      BY <2>3
    <3>. QED
      BY <1>1, <2>1, <2>3, <3>1 DEF SchedulerInv, LanesNeverStall
  <2>4. CASE m \notin pumped /\ maxConcurrent'[m] = 0
    <3>1. Cardinality(activeTaskIds'[m]) \in Nat
      BY EntriesAssumption, FS_Subset, FS_CardinalityType
    <3>. QED
      BY <2>4, <3>1
  <2>. QED
    BY <2>2, <2>3, <2>4
<1>7. WaiterInv'
  <2>1. \A e \in Entries : phase[e] \in Begun => phase'[e] \in Begun
    BY DEF Begun, Started
  <2>2. \A m \in Lanes : \A e \in activeTaskIds'[m] :
           e \in activeTaskIds[m] \/ phase[e] \notin Begun
    BY DEF Begun, Started
  <2>. QED
    BY <2>1, <2>2, WaitersUndisturbed
<1>8. PumpsFrom({}, pumped, queue, activeTaskIds, phase)
    BY <1>2 DEF PumpsFrom
<1>. QED
    BY <1>4, <1>5, <1>6, <1>7, <1>8, SchedulerInvInMatchesNext
    DEF IInv, SchedulerInv, Pumps

\* setCommandLaneConcurrency pumps unless the lane is paused.
LEMMA SetCommandLaneConcurrencyKeepsIInv ==
    ASSUME IInv, NEW l \in Lanes, NEW n \in Int,
           SetCommandLaneConcurrency(l, n)
    PROVE  IInv' /\ Pumps({})
<1> DEFINE minConcurrent == IF l \in ProbeLanes THEN 1 ELSE 0
           slots == IF n < minConcurrent THEN minConcurrent ELSE n
           pumped == IF slots > 0 THEN {l} ELSE {}
<1>1. /\ maxConcurrent' = [maxConcurrent EXCEPT ![l] = slots]
      /\ UNCHANGED <<gatewayDraining, generation, nextQueueSequence, entry,
                     waiterVars>>
      /\ DrainLanes(pumped, queue, activeTaskIds, phase)
    BY Zenon DEF SetCommandLaneConcurrency
<1>2. slots \in Nat
    OBVIOUS
<1>3. maxConcurrent \in [Lanes -> Nat]
    BY DEF IInv, TypeOK
<1>4. pumped \in SUBSET Lanes
    OBVIOUS
<1>5. pumped = {l} \/ slots = 0
    BY <1>2
<1>. HIDE DEF slots, pumped
<1>6. /\ maxConcurrent' \in [Lanes -> Nat]
      /\ \A m \in Lanes : maxConcurrent'[m] = IF m = l THEN slots
                                                      ELSE maxConcurrent[m]
    BY <1>1, <1>2, <1>3
<1>7. \A m \in Lanes \ pumped : maxConcurrent'[m] \in {maxConcurrent[m], 0}
    BY <1>5, <1>6
<1>. QED
    BY <1>1, <1>4, <1>6, <1>7, SettingSlotsKeepsIInv

\* A reset moves the generation on and frees every slot of its lanes.
LEMMA ResetLanesKeepsIInv ==
    ASSUME IInv, NEW lanes \in SUBSET Lanes, ResetLanes(lanes),
           gatewayDraining' \in BOOLEAN
    PROVE  IInv' /\ Pumps({})
<1> DEFINE freed == SlotsAfterReset(lanes)
<1>1. /\ generation' = NextGeneration(lanes)
      /\ UNCHANGED <<maxConcurrent, nextQueueSequence, entry, awaited>>
      /\ DrainLanes(lanes, queue, freed, phase)
      /\ NotifyActiveTaskWaiters
    BY DEF ResetLanes
<1>2. TypeOK /\ SchedulerInv
    BY DEF IInv
<1>3. /\ freed \in [Lanes -> SUBSET Entries]
      /\ \A m \in Lanes : freed[m] = IF m \in lanes THEN {} ELSE activeTaskIds[m]
    BY <1>2 DEF TypeOK, SlotsAfterReset
<1>4. /\ generation' \in [Lanes -> Nat]
      /\ \A m \in Lanes : generation'[m] = IF m \in lanes THEN generation[m] + 1
                                                      ELSE generation[m]
    BY <1>1, <1>2 DEF TypeOK, NextGeneration
<1>. HIDE DEF freed
<1>5. SlotsMatch(freed, phase, entry', generation', taskGeneration)
  <2>. SUFFICES ASSUME NEW e \in Entries, NEW m \in Lanes
                PROVE  e \in freed[m] <=> /\ phase[e] \in Started
                                         /\ entry[e].lane = m
                                         /\ taskGeneration[e] = generation'[m]
    BY <1>1 DEF SlotsMatch
  <2>1. CASE m \notin lanes
    BY <1>2, <1>3, <1>4, <2>1 DEF SchedulerInv, SlotHeldUntilCompletionOrReset
  <2>2. CASE m \in lanes
    \* No task was started in the generation that begins with this step.
    <3>1. phase[e] \in Started /\ entry[e].lane = m => taskGeneration[e] =< generation[m]
      BY <1>2 DEF SchedulerInv, NoneAhead
    <3>2. generation[m] \in Nat /\ taskGeneration[e] \in Nat
      BY <1>2 DEF TypeOK
    <3>. QED
      BY <1>3, <1>4, <2>2, <3>1, <3>2
  <2>. QED
    BY <2>1, <2>2
<1>6. ReadyToPump(queue, freed, phase)
  <2>1. QueuesMatch(queue, phase, entry) /\ Ordered(queue, entry)
    BY <1>2, SchedulerInvInMatches DEF SchedulerInv
  <2>2. entry' = entry /\ maxConcurrent' = maxConcurrent
    BY <1>1
  <2>3. NoneAhead(phase, entry', generation', taskGeneration)
    <3>. SUFFICES ASSUME NEW e \in Entries, NEW m \in Lanes,
                         phase[e] \in Started, entry[e].lane = m
                  PROVE  taskGeneration[e] =< generation'[m]
      BY <1>1 DEF NoneAhead
    <3>1. taskGeneration[e] =< generation[m]
      BY <1>2 DEF SchedulerInv, NoneAhead
    <3>2. generation[m] \in Nat /\ taskGeneration[e] \in Nat
      BY <1>2 DEF TypeOK
    <3>3. generation'[m] = IF m \in lanes THEN generation[m] + 1 ELSE generation[m]
      BY <1>4
    <3>. QED
      BY <3>1, <3>2, <3>3
  <2>. QED
    BY <1>2, <1>3, <1>4, <1>5, <2>1, <2>2, <2>3 DEF ReadyToPump, TypeOK
<1>7. PumpOutcome(lanes, queue, freed, phase)
    BY <1>1, <1>6, DrainLanesPreserves
<1>. USE <1>7 DEF PumpOutcome
<1>8. WaiterInv' /\ waiter' \in [Waiters -> WaiterStates]
  <2>1. \A e \in Entries : phase[e] \in Begun => phase'[e] \in Begun
    BY DEF Begun, Started
  <2>2. \A m \in Lanes : \A e \in activeTaskIds'[m] :
           e \in activeTaskIds[m] \/ phase[e] \notin Begun
    BY <1>3 DEF Begun, Started
  <2>. QED
    BY <1>1, <2>1, <2>2, NotifyKeepsWaiterInv
<1>9. TypeOK'
    BY <1>1, <1>2, <1>4, <1>8 DEF TypeOK
<1>10. SubmittedEntriesHaveOptions'
    BY <1>1, <1>2 DEF SchedulerInv, SubmittedEntriesHaveOptions
<1>11. LanesNeverStall'
  <2>1. SUFFICES ASSUME NEW m \in Lanes, queue'[m] # <<>>
                 PROVE  Cardinality(activeTaskIds'[m]) >= maxConcurrent'[m]
    BY DEF LanesNeverStall
  <2>2. CASE m \in lanes
    BY <2>1, <2>2
  <2>3. CASE m \notin lanes
    BY <1>1, <1>2, <1>3, <2>1, <2>3 DEF SchedulerInv, LanesNeverStall
  <2>. QED
    BY <2>2, <2>3
<1>12. PumpsFrom({}, lanes, queue, freed, phase)
  <2>1. \A m \in Lanes : freed[m] \subseteq activeTaskIds[m]
    BY <1>3
  <2>. QED
    BY <1>1, <1>6, <2>1 DEF PumpsFrom
<1>. QED
    BY <1>7, <1>8, <1>9, <1>10, <1>11, <1>12, SchedulerInvInMatchesNext
    DEF IInv, SchedulerInv, Pumps

\* The continuation of a task of the lane's current generation gives its slot
\* back, pumps and notifies; that of an older generation changes no slot.
LEMMA CompleteTaskKeepsIInv ==
    ASSUME IInv, NEW e \in Entries, CompleteTask(e)
    PROVE  /\ IInv'
           /\ \/ Pumps({e})
              \/ /\ phase' = [phase EXCEPT ![e] = "done"]
                 /\ UNCHANGED <<activeTaskIds, executing>>
<1> DEFINE l == entry[e].lane
           completed == [phase EXCEPT ![e] = "done"]
           freed == [activeTaskIds EXCEPT ![l] = @ \ {e}]
<1>1. /\ phase[e] \in {"settled", "timedOut"}
      /\ UNCHANGED <<gatewayDraining, maxConcurrent, generation,
                     nextQueueSequence, entry, awaited>>
    BY DEF CompleteTask
<1>2. TypeOK /\ SchedulerInv
    BY DEF IInv
<1>3. l \in Lanes
    BY <1>1, <1>2 DEF SchedulerInv, SubmittedEntriesHaveOptions, EntryOptions
<1>4. /\ completed \in [Entries -> Phases]
      /\ \A d \in Entries : completed[d] = IF d = e THEN "done" ELSE phase[d]
    BY <1>2 DEF TypeOK, Phases
<1>5. QueuesMatch(queue, completed, entry)
    BY <1>1, <1>2, <1>4, SchedulerInvInMatches DEF SchedulerInv, QueuesMatch
<1>6. NoneAhead(completed, entry, generation, taskGeneration)
    BY <1>2, <1>4 DEF SchedulerInv, NoneAhead, Started
<1>7. /\ freed \in [Lanes -> SUBSET Entries]
      /\ \A m \in Lanes : freed[m] = IF m = l THEN activeTaskIds[m] \ {e}
                                      ELSE activeTaskIds[m]
    BY <1>2, <1>3 DEF TypeOK
<1>. HIDE DEF l, completed, freed
<1>8. SlotsMatch(freed, completed, entry, generation, taskGeneration)
  <2>. SUFFICES ASSUME NEW d \in Entries, NEW m \in Lanes
                PROVE  d \in freed[m] <=> /\ completed[d] \in Started
                                         /\ entry[d].lane = m
                                         /\ taskGeneration[d] = generation[m]
    BY DEF SlotsMatch
  <2>1. CASE d # e
    BY <1>2, <1>4, <1>7, <2>1 DEF SchedulerInv, SlotHeldUntilCompletionOrReset
  <2>2. CASE d = e
    <3>1. m # l => e \notin activeTaskIds[m]
      BY <1>2 DEF SchedulerInv, SlotHeldUntilCompletionOrReset, l
    <3>2. e \notin freed[m] /\ completed[e] = "done"
      BY <1>4, <1>7, <3>1
    <3>. QED
      BY <2>2, <3>2 DEF Started
  <2>. QED
    BY <2>1, <2>2
<1>9. CASE taskGeneration[e] = generation[l]
  <2>1. DrainLanes({l}, queue, freed, completed) /\ NotifyActiveTaskWaiters
    BY <1>1, <1>9, Zenon DEF CompleteTask, l, completed, freed
  <2>2. ReadyToPump(queue, freed, completed)
    <3>1. /\ entry' = entry /\ generation' = generation
          /\ maxConcurrent' = maxConcurrent
      BY <1>1
    <3>2. Ordered(queue, entry)
      BY <1>2, SchedulerInvInMatches DEF SchedulerInv
    <3>. QED
      BY <1>2, <1>4, <1>5, <1>6, <1>7, <1>8, <3>1, <3>2 DEF ReadyToPump, TypeOK
  <2>3. PumpOutcome({l}, queue, freed, completed)
    BY <1>3, <2>1, <2>2, DrainLanesPreserves
  <2>. USE <2>3 DEF PumpOutcome
  <2>4. WaiterInv' /\ waiter' \in [Waiters -> WaiterStates]
    <3>1. \A d \in Entries : phase[d] \in Begun => phase'[d] \in Begun
      BY <1>4 DEF Begun, Started
    <3>2. \A m \in Lanes : \A d \in activeTaskIds'[m] :
             d \in activeTaskIds[m] \/ phase[d] \notin Begun
      BY <1>4, <1>7 DEF Begun, Started
    <3>. QED
      BY <1>1, <2>1, <3>1, <3>2, NotifyKeepsWaiterInv
  <2>5. TypeOK'
    BY <1>1, <1>2, <2>4 DEF TypeOK
  <2>6. SubmittedEntriesHaveOptions'
    BY <1>1, <1>2, <1>4 DEF SchedulerInv, SubmittedEntriesHaveOptions
  <2>7. LanesNeverStall'
    BY <1>1, <1>2, <1>3, <1>7 DEF SchedulerInv, LanesNeverStall
  <2>8. PumpsFrom({e}, {l}, queue, freed, completed)
    <3>1. \A m \in Lanes : freed[m] \subseteq activeTaskIds[m]
      BY <1>7
    <3>2. \A d \in Entries :
             \/ completed[d] = phase[d] /\ entry'[d] = entry[d]
             \/ /\ d \in {e}
                /\ phase[d] \in {"settled", "timedOut"}
                /\ completed[d] = "done"
                /\ entry'[d] = entry[d]
      BY <1>1, <1>4
    <3>. QED
      BY <2>1, <2>2, <3>1, <3>2 DEF PumpsFrom
  <2>9. Pumps({e})
    <3>1. {l} \in SUBSET Lanes
      BY <1>3
    <3>. QED
      BY <2>8, <3>1 DEF Pumps
  <2>. QED
    BY <2>4, <2>5, <2>6, <2>7, <2>9, SchedulerInvInMatchesNext
    DEF IInv, SchedulerInv
<1>10. CASE taskGeneration[e] # generation[l]
  <2>1. /\ phase' = completed
        /\ UNCHANGED <<queue, activeTaskIds, taskGeneration, executing, waiter>>
    BY <1>1, <1>10, Zenon DEF CompleteTask, l, completed
  <2>2. freed = activeTaskIds
    <3>1. e \notin activeTaskIds[l]
      BY <1>2, <1>3, <1>10 DEF SchedulerInv, SlotHeldUntilCompletionOrReset
    <3>2. \A m \in Lanes : freed[m] = activeTaskIds[m]
      BY <1>7, <3>1
    <3>. QED
      BY <1>2, <1>7, <3>2 DEF TypeOK
  <2>3. WaiterInv'
    <3>1. \A d \in Entries : phase[d] \in Begun => phase'[d] \in Begun
      BY <1>4, <2>1 DEF Begun
    <3>. QED
      BY <1>1, <2>1, <3>1, WaitersUndisturbed DEF waiterVars
  <2>4. TypeOK'
    BY <1>1, <1>2, <1>4, <2>1 DEF TypeOK
  <2>5. SubmittedEntriesHaveOptions'
    BY <1>1, <1>2, <1>4, <2>1 DEF SchedulerInv, SubmittedEntriesHaveOptions
  <2>6. LanesNeverStall'
    BY <1>1, <1>2, <2>1 DEF SchedulerInv, LanesNeverStall
  <2>7. QueueInDequeueOrder'
    BY <1>1, <1>2, <2>1 DEF SchedulerInv, QueueInDequeueOrder, Precedes
  <2>8. /\ QueuesMatch(queue', phase', entry')
        /\ SlotsMatch(activeTaskIds', phase', entry', generation',
                      taskGeneration')
        /\ NoneAhead(phase', entry', generation', taskGeneration')
    BY <1>1, <1>5, <1>6, <1>8, <2>1, <2>2
  <2>. QED
    BY <2>1, <2>3, <2>4, <2>5, <2>6, <2>7, <2>8, SchedulerInvInMatchesNext
    DEF IInv, SchedulerInv, completed
<1>. QED
    BY <1>9, <1>10

\* enqueueCommandInLane inserts a fresh, youngest entry and pumps its lane.
LEMMA EnqueueKeepsIInv ==
    ASSUME IInv, NEW e \in Entries, NEW l \in Lanes, NEW p \in Priorities,
           NEW timed \in LaneTimeouts, Enqueue(e, l, p, timed)
    PROVE  IInv' /\ Pumps({e})
<1> DEFINE n == nextQueueSequence
           options == [lane |-> l, priority |-> p, sequence |-> n, timed |-> timed]
           k == InsertionPoint(queue[l], p, n)
           longer == InsertAt(queue[l], k, e)
           q == [queue EXCEPT ![l] = longer]
           queued == [phase EXCEPT ![e] = "queued"]
<1>1. /\ phase[e] = "new"
      /\ entry' = [entry EXCEPT ![e] = options]
      /\ nextQueueSequence' = n + 1
      /\ UNCHANGED <<gatewayDraining, maxConcurrent, generation, waiterVars>>
      /\ DrainLanes({l}, q, activeTaskIds, queued)
    BY Zenon DEF Enqueue, EnqueueLaneEntry
<1>2. TypeOK /\ SchedulerInv
    BY DEF IInv
<1>3. options \in EntryOptions /\ n \in Nat
  <2>1. n \in Nat
    BY <1>2 DEF TypeOK
  <2>. QED
    BY <2>1, OptionsAssumption DEF EntryOptions
<1>. HIDE DEF n, options, k, longer, q, queued
<1>4. \A d \in Entries : entry'[d] = IF d = e THEN options ELSE entry[d]
    BY <1>1, <1>2 DEF TypeOK
<1>5. /\ queued \in [Entries -> Phases]
      /\ \A d \in Entries : queued[d] = IF d = e THEN "queued" ELSE phase[d]
    BY <1>2 DEF TypeOK, Phases, queued
<1>6. queue[l] \in Seq(Entries) /\ Len(queue[l]) \in Nat
    BY <1>2 DEF TypeOK
<1>7. /\ k \in 1 .. Len(queue[l]) + 1
      /\ \A i \in 1 .. k - 1 : ~Yields(queue[l][i], p, n)
      /\ k =< Len(queue[l]) => Yields(queue[l][k], p, n)
    BY <1>6, InsertionPointProperties DEF k
<1>8. /\ longer \in Seq(Entries)
      /\ Len(longer) = Len(queue[l]) + 1
      /\ \A i \in 1 .. Len(queue[l]) + 1 :
            longer[i] = IF i < k THEN queue[l][i]
                        ELSE IF i = k THEN e ELSE queue[l][i - 1]
  <2>1. longer \in Seq(Entries)
    BY <1>6, <1>7, InsertAtProperties DEF longer
  <2>2. Len(longer) = Len(queue[l]) + 1
    BY <1>6, <1>7, InsertAtProperties DEF longer
  <2>3. \A s \in Seq(Entries) : \A j \in 1 .. Len(s) + 1 :
           \A i \in 1 .. Len(s) + 1 :
             InsertAt(s, j, e)[i] = IF i < j THEN s[i]
                                    ELSE IF i = j THEN e ELSE s[i - 1]
    <3>. TAKE s \in Seq(Entries)
    <3>. TAKE j \in 1 .. Len(s) + 1
    <3>. QED
      BY InsertAtProperties
  <2>4. \A i \in 1 .. Len(queue[l]) + 1 :
           longer[i] = IF i < k THEN queue[l][i]
                       ELSE IF i = k THEN e ELSE queue[l][i - 1]
    BY <1>6, <1>7, <2>3 DEF longer
  <2>. QED
    BY <2>1, <2>2, <2>4
<1>9. /\ q \in [Lanes -> Seq(Entries)]
      /\ \A m \in Lanes : q[m] = IF m = l THEN longer ELSE queue[m]
    BY <1>2, <1>8 DEF TypeOK, q
<1>10. \A m \in Lanes : \A i \in 1 .. Len(queue[m]) :
          /\ queue[m][i] \in Entries
          /\ queue[m][i] # e
          /\ phase[queue[m][i]] = "queued" /\ entry[queue[m][i]].lane = m
          /\ entry[queue[m][i]] \in EntryOptions
          /\ entry[queue[m][i]].sequence < n
  <2>. SUFFICES ASSUME NEW m \in Lanes, NEW i \in 1 .. Len(queue[m])
                PROVE  /\ queue[m][i] \in Entries
                       /\ queue[m][i] # e
                       /\ /\ phase[queue[m][i]] = "queued"
                          /\ entry[queue[m][i]].lane = m
                       /\ entry[queue[m][i]] \in EntryOptions
                       /\ entry[queue[m][i]].sequence < n
    OBVIOUS
  <2>1. queue[m] \in Seq(Entries)
    BY <1>2 DEF TypeOK
  <2>2. queue[m][i] \in Entries /\ queue[m][i] \in ToSet(queue[m])
    BY <2>1 DEF ToSet
  <2>3. phase[queue[m][i]] = "queued" /\ entry[queue[m][i]].lane = m
    BY <1>2, <2>2 DEF SchedulerInv, QueuedEntriesAreInTheirLane
  <2>. QED
    BY <1>1, <1>2, <2>2, <2>3 DEF SchedulerInv, SubmittedEntriesHaveOptions, n
<1>11. QueuesMatch(q, queued, entry')
  <2>1. ASSUME NEW d \in Entries, NEW m \in Lanes, m # l
        PROVE  d \in ToSet(q[m]) <=> queued[d] = "queued" /\ entry'[d].lane = m
    <3>1. d \in ToSet(queue[m]) <=> phase[d] = "queued" /\ entry[d].lane = m
      BY <1>2 DEF SchedulerInv, QueuedEntriesAreInTheirLane
    <3>. QED
      BY <1>1, <1>4, <1>5, <1>9, <2>1, <3>1 DEF options
  <2>2. /\ ToSet(longer) = ToSet(queue[l]) \cup {e}
        /\ IsInjective(queue[l]) /\ e \notin ToSet(queue[l]) => IsInjective(longer)
    BY <1>6, <1>7, InsertAtElements DEF longer
  <2>3. ASSUME NEW d \in Entries
        PROVE  d \in ToSet(q[l]) <=> queued[d] = "queued" /\ entry'[d].lane = l
    <3>1. d \in ToSet(queue[l]) <=> phase[d] = "queued" /\ entry[d].lane = l
      BY <1>2 DEF SchedulerInv, QueuedEntriesAreInTheirLane
    <3>. QED
      BY <1>4, <1>5, <1>9, <2>2, <3>1 DEF options
  <2>4. ASSUME NEW m \in Lanes PROVE IsInjective(q[m])
    <3>1. IsInjective(queue[l]) /\ IsInjective(queue[m])
      BY <1>2 DEF SchedulerInv, QueuedEntriesAreInTheirLane
    <3>2. e \notin ToSet(queue[l])
      BY <1>1, <1>2 DEF SchedulerInv, QueuedEntriesAreInTheirLane
    <3>. QED
      BY <1>9, <2>2, <3>1, <3>2
  <2>. QED
    BY <2>1, <2>3, <2>4 DEF QueuesMatch
<1>12. ASSUME NEW d \in EntryOptions PROVE d.priority \in Int /\ d.sequence \in Nat
  <2>1. d.priority \in Priorities /\ d.sequence \in Nat
    BY DEF EntryOptions
  <2>2. \A x \in Priorities : x \in Int
    BY OptionsAssumption
  <2>. QED
    BY <2>1, <2>2
<1>13. options.priority = p /\ options.sequence = n /\ p \in Int
    BY OptionsAssumption DEF options
<1>14. Ordered(q, entry')
  <2>1. ASSUME NEW m \in Lanes, NEW i \in 1 .. Len(queue[m]),
               NEW j \in 1 .. Len(queue[m]), i < j
        PROVE  LET a == queue[m][i]
                   b == queue[m][j]
               IN  \/ entry'[a].priority > entry'[b].priority
                   \/ /\ entry'[a].priority = entry'[b].priority
                      /\ entry'[a].sequence < entry'[b].sequence
    <3>1. /\ entry'[queue[m][i]] = entry[queue[m][i]]
          /\ entry'[queue[m][j]] = entry[queue[m][j]]
      BY <1>4, <1>10
    <3>. QED
      BY <1>2, <2>1, <3>1 DEF SchedulerInv, QueueInDequeueOrder, Precedes
  <2>2. ASSUME NEW i \in 1 .. k - 1
        PROVE  LET a == queue[l][i]
               IN  \/ entry'[a].priority > p
                   \/ entry'[a].priority = p /\ entry'[a].sequence < n
    <3>1. i \in 1 .. Len(queue[l]) /\ ~Yields(queue[l][i], p, n)
      BY <1>6, <1>7
    <3>2. /\ entry'[queue[l][i]] = entry[queue[l][i]]
          /\ entry[queue[l][i]].priority \in Int
          /\ entry[queue[l][i]].sequence < n
      BY <1>4, <1>10, <1>12, <3>1
    <3>. QED
      BY <1>13, <3>1, <3>2 DEF Yields
  <2>3. ASSUME NEW i \in k .. Len(queue[l])
        PROVE  p > entry'[queue[l][i]].priority
    <3>1. /\ k \in 1 .. Len(queue[l]) /\ Yields(queue[l][k], p, n)
          /\ i \in 1 .. Len(queue[l])
      BY <1>6, <1>7
    <3>2. /\ entry'[queue[l][k]] = entry[queue[l][k]]
          /\ entry[queue[l][k]].priority \in Int
          /\ entry[queue[l][k]].sequence < n
          /\ entry[queue[l][k]].sequence \in Nat
      BY <1>4, <1>10, <1>12, <3>1
    <3>3. p > entry'[queue[l][k]].priority
      BY <1>3, <3>1, <3>2 DEF Yields
    <3>4. entry'[queue[l][i]].priority \in Int
      BY <1>4, <1>10, <1>12, <3>1
    <3>5. CASE i = k
      BY <3>3, <3>5
    <3>6. CASE k < i
      <4>1. \/ entry'[queue[l][k]].priority > entry'[queue[l][i]].priority
            \/ entry'[queue[l][k]].priority = entry'[queue[l][i]].priority
        BY <2>1, <3>1, <3>6
      <4>. QED
        BY <1>13, <3>2, <3>3, <3>4, <4>1
    <3>. QED
      BY <1>7, <3>5, <3>6
  <2>4. ASSUME NEW i \in 1 .. Len(longer), NEW j \in 1 .. Len(longer), i < j
        PROVE  LET a == longer[i]
                   b == longer[j]
               IN  \/ entry'[a].priority > entry'[b].priority
                   \/ /\ entry'[a].priority = entry'[b].priority
                      /\ entry'[a].sequence < entry'[b].sequence
    <3>1. /\ k \in 1 .. Len(queue[l]) + 1
          /\ i \in 1 .. Len(queue[l]) + 1 /\ j \in 1 .. Len(queue[l]) + 1
      BY <1>7, <1>8
    <3>2. entry'[e].priority = p /\ entry'[e].sequence = n
      BY <1>4, <1>13
    <3>3. CASE j < k
      <4>1. /\ i \in 1 .. Len(queue[l]) /\ j \in 1 .. Len(queue[l])
            /\ i < k
        BY <1>6, <2>4, <3>1, <3>3
      <4>2. longer[i] = queue[l][i] /\ longer[j] = queue[l][j]
        BY <1>8, <3>1, <3>3, <4>1
      <4>. QED
        BY <2>1, <2>4, <4>1, <4>2
    <3>4. CASE j = k
      <4>1. i \in 1 .. k - 1
        BY <1>6, <2>4, <3>1, <3>4
      <4>2. longer[i] = queue[l][i] /\ longer[j] = e
        BY <1>8, <2>4, <3>1, <3>4
      <4>. QED
        BY <2>2, <3>2, <4>1, <4>2
    <3>5. CASE i = k
      <4>1. j - 1 \in k .. Len(queue[l]) /\ j > k
        BY <1>6, <2>4, <3>1, <3>5
      <4>2. longer[i] = e /\ longer[j] = queue[l][j - 1]
        BY <1>8, <3>1, <3>5, <4>1
      <4>. QED
        BY <2>3, <3>2, <4>1, <4>2
    <3>6. CASE i < k /\ k < j
      <4>1. /\ i \in 1 .. Len(queue[l]) /\ j - 1 \in 1 .. Len(queue[l])
            /\ i < j - 1
        BY <1>6, <3>1, <3>6
      <4>2. longer[i] = queue[l][i] /\ longer[j] = queue[l][j - 1]
        BY <1>8, <3>1, <3>6
      <4>. QED
        BY <2>1, <4>1, <4>2
    <3>7. CASE k < i
      <4>1. /\ i - 1 \in 1 .. Len(queue[l]) /\ j - 1 \in 1 .. Len(queue[l])
            /\ i - 1 < j - 1 /\ k < j
        BY <1>6, <2>4, <3>1, <3>7
      <4>2. longer[i] = queue[l][i - 1] /\ longer[j] = queue[l][j - 1]
        BY <1>8, <3>1, <3>7, <4>1
      <4>. QED
        BY <2>1, <4>1, <4>2
    <3>. QED
      BY <2>4, <3>1, <3>3, <3>4, <3>5, <3>6, <3>7
  <2>. QED
    <3>1. ASSUME NEW m \in Lanes, NEW i \in 1 .. Len(q[m]),
                 NEW j \in 1 .. Len(q[m]), i < j
          PROVE  LET a == q[m][i]
                     b == q[m][j]
                 IN  \/ entry'[a].priority > entry'[b].priority
                     \/ /\ entry'[a].priority = entry'[b].priority
                        /\ entry'[a].sequence < entry'[b].sequence
      <4>1. CASE m = l
        <5>1. q[m] = longer
          BY <1>9, <4>1
        <5>. QED
          BY <2>4, <3>1, <5>1
      <4>2. CASE m # l
        <5>1. q[m] = queue[m]
          BY <1>9, <4>2
        <5>. QED
          BY <2>1, <3>1, <5>1
      <4>. QED
        BY <4>1, <4>2
    <3>. QED
      BY <3>1 DEF Ordered
<1>15. SlotsMatch(activeTaskIds, queued, entry', generation', taskGeneration)
    BY <1>1, <1>2, <1>4, <1>5
    DEF SchedulerInv, SlotHeldUntilCompletionOrReset, SlotsMatch, Started
<1>16. NoneAhead(queued, entry', generation', taskGeneration)
    BY <1>1, <1>2, <1>4, <1>5 DEF SchedulerInv, NoneAhead, Started
<1>17. ReadyToPump(q, activeTaskIds, queued)
    BY <1>1, <1>2, <1>5, <1>9, <1>11, <1>14, <1>15, <1>16 DEF ReadyToPump, TypeOK
<1>18. PumpOutcome({l}, q, activeTaskIds, queued)
    BY <1>1, <1>17, DrainLanesPreserves
<1>. USE <1>18 DEF PumpOutcome
<1>19. WaiterInv'
  <2>1. UNCHANGED waiterVars
    BY <1>1
  <2>2. \A d \in Entries : phase[d] \in Begun => phase'[d] \in Begun
    BY <1>1, <1>5 DEF Begun, Started
  <2>3. \A m \in Lanes : \A d \in activeTaskIds'[m] :
           d \in activeTaskIds[m] \/ phase[d] \notin Begun
    BY <1>1, <1>5 DEF Begun, Started
  <2>. QED
    BY <2>1, <2>2, <2>3, WaitersUndisturbed
<1>20. TypeOK'
  <2>1. entry' \in [Entries -> EntryOptions \cup {NoEntry}]
    BY <1>1, <1>2, <1>3 DEF TypeOK
  <2>2. nextQueueSequence' \in Nat
    BY <1>1, <1>3
  <2>. QED
    BY <1>1, <1>2, <2>1, <2>2 DEF TypeOK, waiterVars
<1>21. SubmittedEntriesHaveOptions'
  <2>. SUFFICES ASSUME NEW d \in Entries, phase'[d] \notin {"new", "refused"}
                PROVE  entry'[d] \in EntryOptions /\ entry'[d].sequence < n + 1
    BY <1>1 DEF SubmittedEntriesHaveOptions
  <2>1. CASE d = e
    BY <1>3, <1>4, <1>13, <2>1
  <2>2. CASE d # e
    <3>1. phase[d] \notin {"new", "refused"}
      BY <1>5, <2>2
    <3>2. entry[d] \in EntryOptions /\ entry[d].sequence < n
      BY <1>2, <3>1 DEF SchedulerInv, SubmittedEntriesHaveOptions, n
    <3>3. entry[d].sequence \in Nat
      BY <1>12, <3>2
    <3>. QED
      BY <1>3, <1>4, <2>2, <3>2, <3>3
  <2>. QED
    BY <2>1, <2>2
<1>22. LanesNeverStall'
    BY <1>1, <1>2, <1>9 DEF SchedulerInv, LanesNeverStall
<1>23. Pumps({e})
  <2>1. \A d \in Entries :
           \/ queued[d] = phase[d] /\ entry'[d] = entry[d]
           \/ d \in {e} /\ phase[d] = "new" /\ queued[d] = "queued"
    BY <1>1, <1>4, <1>5
  <2>2. PumpsFrom({e}, {l}, q, activeTaskIds, queued)
    BY <1>1, <1>17, <2>1 DEF PumpsFrom
  <2>. QED
    BY <2>2 DEF Pumps
<1>. QED
    BY <1>18, <1>19, <1>20, <1>21, <1>22, <1>23, SchedulerInvInMatchesNext
    DEF IInv, SchedulerInv

-----------------------------------------------------------------------------
(***************************************************************************)
(* The operations that do not pump.                                        *)
(***************************************************************************)

\* clearCommandLane empties one queue and rejects what was in it.
LEMMA ClearCommandLaneKeepsIInv ==
    ASSUME IInv, NEW l \in Lanes, ClearCommandLane(l)
    PROVE  IInv'
<1>1. /\ queue' = [queue EXCEPT ![l] = <<>>]
      /\ phase' = [e \in Entries |-> IF e \in ToSet(queue[l]) THEN "cleared"
                                                            ELSE phase[e]]
      /\ UNCHANGED <<gatewayDraining, activeTaskIds, maxConcurrent, generation,
                     nextQueueSequence, entry, taskGeneration, executing,
                     waiterVars>>
    BY DEF ClearCommandLane
<1>2. TypeOK /\ SchedulerInv
    BY DEF IInv
<1>3. /\ queue' \in [Lanes -> Seq(Entries)]
      /\ \A m \in Lanes : queue'[m] = IF m = l THEN <<>> ELSE queue[m]
    BY <1>1, <1>2, EmptySeq DEF TypeOK
<1>4. \A e \in Entries : /\ phase'[e] = IF e \in ToSet(queue[l]) THEN "cleared"
                                                               ELSE phase[e]
                         /\ e \in ToSet(queue[l]) <=>
                               phase[e] = "queued" /\ entry[e].lane = l
    BY <1>1, <1>2 DEF SchedulerInv, QueuedEntriesAreInTheirLane
<1>5. TypeOK'
    BY <1>1, <1>2, <1>3 DEF TypeOK, Phases, waiterVars
<1>6. ToSet(<<>>) = {} /\ IsInjective(<<>>) /\ Len(<<>>) = 0
    BY EmptySeq DEF ToSet, IsInjective
<1>7. QueuedEntriesAreInTheirLane'
    BY <1>1, <1>2, <1>3, <1>4, <1>6
    DEF SchedulerInv, QueuedEntriesAreInTheirLane
<1>8. SlotHeldUntilCompletionOrReset'
    BY <1>1, <1>2, <1>4
    DEF SchedulerInv, SlotHeldUntilCompletionOrReset, Started
<1>9. NoneAhead(phase, entry, generation, taskGeneration)'
    BY <1>1, <1>2, <1>4 DEF SchedulerInv, NoneAhead, Started
<1>10. QueueInDequeueOrder'
    BY <1>1, <1>2, <1>3, <1>6 DEF SchedulerInv, QueueInDequeueOrder, Precedes
<1>11. LanesNeverStall'
    BY <1>1, <1>2, <1>3 DEF SchedulerInv, LanesNeverStall
<1>12. SubmittedEntriesHaveOptions'
    BY <1>1, <1>2, <1>4 DEF SchedulerInv, SubmittedEntriesHaveOptions
<1>13. WaiterInv'
  <2>1. \A e \in Entries : phase[e] \in Begun => phase'[e] \in Begun
    BY <1>4 DEF Begun, Started
  <2>. QED
    BY <1>1, <2>1, WaitersUndisturbed
<1>. QED
    BY <1>5, <1>7, <1>8, <1>9, <1>10, <1>11, <1>12, <1>13 DEF IInv, SchedulerInv

\* An entry that is neither queued before nor after the step, and is started
\* after it exactly if it was before, changes nothing for the lanes.
LEMMA PhaseChangeKeepsIInv ==
    ASSUME IInv, NEW e \in Entries, NEW new \in Phases,
           phase' = [phase EXCEPT ![e] = new],
           phase[e] # "queued", new # "queued",
           phase[e] \in Started <=> new \in Started,
           phase[e] = "done" => new = "done",
           phase[e] \in {"new", "refused"} => new \in {"new", "refused"},
           executing' \subseteq Entries,
           UNCHANGED <<gatewayDraining, laneVars, nextQueueSequence, entry,
                       taskGeneration, waiterVars>>
    PROVE  IInv'
<1>1. TypeOK /\ SchedulerInv
    BY DEF IInv
<1>2. \A d \in Entries : phase'[d] = IF d = e THEN new ELSE phase[d]
    BY <1>1 DEF TypeOK
<1>3. TypeOK'
    BY <1>1 DEF TypeOK, laneVars, waiterVars
<1>4. QueuedEntriesAreInTheirLane'
    BY <1>1, <1>2 DEF SchedulerInv, QueuedEntriesAreInTheirLane, laneVars
<1>5. SlotHeldUntilCompletionOrReset'
    BY <1>1, <1>2 DEF SchedulerInv, SlotHeldUntilCompletionOrReset, laneVars
<1>6. NoneAhead(phase, entry, generation, taskGeneration)'
    BY <1>1, <1>2 DEF SchedulerInv, NoneAhead, laneVars
<1>7. QueueInDequeueOrder' /\ LanesNeverStall'
    BY <1>1
    DEF SchedulerInv, QueueInDequeueOrder, LanesNeverStall, Precedes, laneVars
<1>8. SubmittedEntriesHaveOptions'
    BY <1>1, <1>2 DEF SchedulerInv, SubmittedEntriesHaveOptions
<1>9. WaiterInv'
  <2>1. \A d \in Entries : phase[d] \in Begun => phase'[d] \in Begun
    BY <1>2 DEF Begun
  <2>. QED
    BY <2>1, WaitersUndisturbed DEF laneVars
<1>. QED
    BY <1>3, <1>4, <1>5, <1>6, <1>7, <1>8, <1>9 DEF IInv, SchedulerInv

\* Steps that leave lanes and entries alone.
LEMMA SchedulerUndisturbed ==
    ASSUME IInv, UNCHANGED <<laneVars, entryVars>>,
           gatewayDraining' \in BOOLEAN,
           waiter' \in [Waiters -> WaiterStates],
           awaited' \in [Waiters -> SUBSET Entries],
           WaiterInv'
    PROVE  IInv'
<1>1. TypeOK /\ SchedulerInv
    BY DEF IInv
<1>2. TypeOK'
    BY <1>1 DEF TypeOK, laneVars, entryVars
<1>3. SchedulerInv'
    BY <1>1
    DEF SchedulerInv, QueueInDequeueOrder, LanesNeverStall, Precedes,
        SubmittedEntriesHaveOptions, QueuedEntriesAreInTheirLane,
        SlotHeldUntilCompletionOrReset, NoneAhead, laneVars, entryVars
<1>. QED
    BY <1>2, <1>3 DEF IInv

\* waitForActiveTasks captures tasks that hold a slot, hence started ones, and
\* waits only if there are any.
LEMMA WaitForActiveTasksKeepsIInv ==
    ASSUME IInv, NEW w \in Waiters, NEW timeout \in {"none", "zero", "positive"},
           WaitForActiveTasks(w, timeout)
    PROVE  IInv'
<1> DEFINE activeAtStart == UNION { activeTaskIds[l] : l \in Lanes }
<1>1. /\ waiter[w] = "idle"
      /\ awaited' = [awaited EXCEPT ![w] = activeAtStart]
      /\ waiter' = [waiter EXCEPT ![w] =
                      IF activeAtStart = {} THEN "drained"
                      ELSE CASE timeout = "none" -> "waiting"
                             [] timeout = "zero" -> "notDrained"
                             [] timeout = "positive" -> "waitingUntil"]
      /\ UNCHANGED <<gatewayDraining, laneVars, entryVars>>
    BY DEF WaitForActiveTasks
<1>2. TypeOK /\ SchedulerInv /\ WaiterInv
    BY DEF IInv
<1>3. /\ activeAtStart \subseteq Entries
      /\ \A e \in activeAtStart : phase[e] \in Started
    BY <1>2 DEF TypeOK, SchedulerInv, SlotHeldUntilCompletionOrReset
<1>. HIDE DEF activeAtStart
<1>4. /\ awaited' \in [Waiters -> SUBSET Entries]
      /\ \A v \in Waiters : awaited'[v] = IF v = w THEN activeAtStart
                                                   ELSE awaited[v]
    BY <1>1, <1>2, <1>3 DEF TypeOK
<1>5. /\ waiter' \in [Waiters -> WaiterStates]
      /\ \A v \in Waiters : v # w => waiter'[v] = waiter[v]
      /\ waiter'[w] = "drained" => activeAtStart = {}
      /\ waiter'[w] \in Pending => activeAtStart # {}
    BY <1>1, <1>2 DEF TypeOK, WaiterStates, Pending
<1>6. activeTaskIds' = activeTaskIds /\ phase' = phase
    BY <1>1 DEF laneVars, entryVars
<1>7. AwaitedTasksHaveStarted'
    BY <1>2, <1>3, <1>4, <1>6 DEF WaiterInv, AwaitedTasksHaveStarted
<1>8. NoMissedWakeup'
  <2>1. activeAtStart # {} => \E l \in Lanes : activeAtStart \cap activeTaskIds[l] # {}
    BY DEF activeAtStart
  <2>. QED
    BY <1>2, <1>4, <1>5, <1>6, <2>1 DEF WaiterInv, NoMissedWakeup
<1>9. DrainedVerdictSound'
    BY <1>2, <1>4, <1>5, <1>6 DEF WaiterInv, DrainedVerdictSound
<1>10. WaiterInv'
    BY <1>7, <1>8, <1>9 DEF WaiterInv
<1>11. gatewayDraining' \in BOOLEAN
    BY <1>1, <1>2 DEF TypeOK
<1>. QED
    BY <1>1, <1>4, <1>5, <1>10, <1>11, SchedulerUndisturbed

\* The timer of waitForActiveTasks gives a wait up.
LEMMA WaiterTimesOutKeepsIInv ==
    ASSUME IInv, NEW w \in Waiters, WaiterTimesOut(w)
    PROVE  IInv'
<1>1. TypeOK /\ WaiterInv
    BY DEF IInv
<1>2. /\ waiter' \in [Waiters -> WaiterStates]
      /\ \A v \in Waiters : waiter'[v] = IF v = w THEN "notDrained" ELSE waiter[v]
    BY <1>1 DEF TypeOK, WaiterTimesOut, WaiterStates
<1>3. /\ UNCHANGED <<gatewayDraining, laneVars, entryVars, awaited>>
      /\ activeTaskIds' = activeTaskIds /\ phase' = phase
    BY DEF WaiterTimesOut, laneVars, entryVars
<1>4. WaiterInv'
    BY <1>1, <1>2, <1>3
    DEF WaiterInv, AwaitedTasksHaveStarted, NoMissedWakeup, DrainedVerdictSound,
        Pending
<1>. QED
    BY <1>1, <1>2, <1>3, <1>4, SchedulerUndisturbed DEF TypeOK

-----------------------------------------------------------------------------
(***************************************************************************)
(* All operations together.                                                *)
(***************************************************************************)

\* Every operation preserves the invariant.
LEMMA NextKeepsIInv == IInv /\ [Next]_vars => IInv'
<1>. SUFFICES ASSUME IInv, [Next]_vars PROVE IInv'
    OBVIOUS
<1>. USE DEF Next
<1>0. TypeOK
    BY DEF IInv
<1>1. ASSUME NEW e \in Entries, NEW l \in Lanes, NEW priority \in Priorities,
             NEW timed \in LaneTimeouts, Enqueue(e, l, priority, timed)
      PROVE  IInv'
    BY <1>1, EnqueueKeepsIInv
<1>2. ASSUME NEW e \in Entries, EnqueueRefused(e) PROVE IInv'
    BY <1>0, <1>2, PhaseChangeKeepsIInv
    DEF EnqueueRefused, Phases, Started, TypeOK
<1>3. ASSUME NEW e \in Entries, TaskSettles(e) PROVE IInv'
  <2> DEFINE new == IF phase[e] = "running" THEN "settled" ELSE phase[e]
  <2>1. /\ e \in executing /\ executing' = executing \ {e}
        /\ phase' = [phase EXCEPT ![e] = new]
        /\ UNCHANGED <<gatewayDraining, laneVars, nextQueueSequence, entry,
                       taskGeneration, waiterVars>>
    BY <1>0, <1>3 DEF TaskSettles, TypeOK
  <2>2. new \in Phases /\ executing' \subseteq Entries
    BY <1>0, <2>1 DEF TypeOK, Phases
  <2>3. CASE phase[e] = "running"
    BY <2>1, <2>2, <2>3, PhaseChangeKeepsIInv DEF Started
  <2>4. CASE phase[e] # "running"
    <3>1. phase' = phase
      BY <1>0, <2>1, <2>4 DEF TypeOK
    <3>2. TypeOK'
      BY <1>0, <2>1, <2>2, <3>1 DEF TypeOK, laneVars, waiterVars
    <3>3. WaiterInv'
      BY <2>1, <3>1, WaitersUndisturbed DEF laneVars
    <3>4. SchedulerInv'
      BY <2>1, <3>1
      DEF IInv, SchedulerInv, QueueInDequeueOrder, LanesNeverStall, Precedes,
          SubmittedEntriesHaveOptions, QueuedEntriesAreInTheirLane,
          SlotHeldUntilCompletionOrReset, NoneAhead, laneVars
    <3>. QED
      BY <3>2, <3>3, <3>4 DEF IInv
  <2>. QED
    BY <2>3, <2>4
<1>4. ASSUME NEW e \in Entries, TaskTimesOut(e) PROVE IInv'
    BY <1>0, <1>4, PhaseChangeKeepsIInv
    DEF TaskTimesOut, Phases, Started, TypeOK
<1>5. ASSUME NEW e \in Entries, CompleteTask(e) PROVE IInv'
    BY <1>5, CompleteTaskKeepsIInv
<1>6. ASSUME NEW l \in Lanes, NEW n \in -1 .. ConcurrencyCap,
             SetCommandLaneConcurrency(l, n)
      PROVE  IInv'
  <2>1. n \in Int
    BY CapsAssumption
  <2>. QED
    BY <1>6, <2>1, SetCommandLaneConcurrencyKeepsIInv
<1>7. ASSUME NEW l \in Lanes, ClearCommandLane(l) PROVE IInv'
    BY <1>7, ClearCommandLaneKeepsIInv
<1>8. ASSUME NEW l \in Lanes, ResetCommandLane(l) PROVE IInv'
    BY <1>0, <1>8, ResetLanesKeepsIInv DEF ResetCommandLane, TypeOK
<1>9. ASSUME MarkGatewayDraining PROVE IInv'
  <2>1. WaiterInv'
    BY <1>9, WaitersUndisturbed
    DEF MarkGatewayDraining, laneVars, entryVars
  <2>. QED
    BY <1>0, <1>9, <2>1, SchedulerUndisturbed
    DEF MarkGatewayDraining, TypeOK, waiterVars
<1>10. ASSUME ResetAllLanes PROVE IInv'
    BY <1>10, ResetLanesKeepsIInv DEF ResetAllLanes
<1>11. ASSUME NEW w \in Waiters, NEW timeout \in {"none", "zero", "positive"},
              WaitForActiveTasks(w, timeout)
       PROVE  IInv'
    BY <1>11, WaitForActiveTasksKeepsIInv
<1>12. ASSUME NEW w \in Waiters, WaiterTimesOut(w) PROVE IInv'
    BY <1>12, WaiterTimesOutKeepsIInv
<1>13. ASSUME UNCHANGED vars PROVE IInv'
  <2>1. WaiterInv'
    BY <1>13, WaitersUndisturbed DEF vars, laneVars, entryVars
  <2>. QED
    BY <1>0, <1>13, <2>1, SchedulerUndisturbed DEF vars, TypeOK, waiterVars
<1>. QED
    BY <1>1, <1>2, <1>3, <1>4, <1>5, <1>6, <1>7, <1>8, <1>9, <1>10, <1>11,
       <1>12, <1>13, Zenon

-----------------------------------------------------------------------------
(***************************************************************************)
(* The scheduler implements LaneContract.  A request holds a slot exactly  *)
(* as long as it is among its lane's activeTaskIds, so the contract is     *)
(* about what pump() adds to them: entries from the head of a queue, and   *)
(* no more than there are slots for.                                       *)
(***************************************************************************)

\* LaneContract, in the words of this module.
MovesOrStays(e) ==
    /\ Stage(e)' # Stage(e) => <<Stage(e), Stage(e)'>> \in Contract!Moves
    /\ phase[e] # "new" => entry'[e] = entry[e]

LaneAdmits(l) ==
    \A a \in activeTaskIds'[l] \ activeTaskIds[l] :
        /\ Cardinality(activeTaskIds'[l]) =< maxConcurrent'[l]
        /\ \A b \in ToSet(queue'[l]) : Precedes(a, b)'

\* Who holds a slot and who waits, in the contract and in the queue.
LEMMA StagesAreQueues ==
    ASSUME IInv, NEW e \in Entries, NEW l \in Lanes
    PROVE  /\ e \in activeTaskIds[l] <=>
                  Stage(e) = "holding" /\ entry[e].lane = l
           /\ e \in ToSet(queue[l]) <=>
                  Stage(e) = "waiting" /\ entry[e].lane = l
           /\ Stage(e) = "new" <=> phase[e] = "new"
<1>1. /\ phase[e] \in Phases
      /\ SlotHeldUntilCompletionOrReset /\ QueuedEntriesAreInTheirLane
    BY DEF IInv, SchedulerInv, TypeOK
<1>2. e \in activeTaskIds[l] <=> /\ phase[e] \in Started
                                 /\ entry[e].lane = l
                                 /\ taskGeneration[e] = generation[l]
    BY <1>1 DEF SlotHeldUntilCompletionOrReset
<1>3. e \in ToSet(queue[l]) <=> phase[e] = "queued" /\ entry[e].lane = l
    BY <1>1 DEF QueuedEntriesAreInTheirLane
<1>4. Stage(e) = CASE phase[e] = "new" -> "new"
                   [] phase[e] \in {"refused", "cleared"} -> "dropped"
                   [] phase[e] = "queued" -> "waiting"
                   [] OTHER -> IF e \in activeTaskIds[entry[e].lane]
                               THEN "holding" ELSE "released"
    BY DEF Stage
<1>. QED
    BY <1>1, <1>2, <1>3, <1>4 DEF Phases, Started

LEMMA StagesAreQueuesNext ==
    ASSUME IInv', NEW e \in Entries, NEW l \in Lanes
    PROVE  /\ e \in activeTaskIds'[l] <=>
                  Stage(e)' = "holding" /\ entry'[e].lane = l
           /\ e \in ToSet(queue'[l]) <=>
                  Stage(e)' = "waiting" /\ entry'[e].lane = l
           /\ Stage(e)' = "new" <=> phase'[e] = "new"
<1>1. /\ phase'[e] \in Phases
      /\ SlotHeldUntilCompletionOrReset' /\ QueuedEntriesAreInTheirLane'
    BY DEF IInv, SchedulerInv, TypeOK
<1>2. e \in activeTaskIds'[l] <=> /\ phase'[e] \in Started
                                  /\ entry'[e].lane = l
                                  /\ taskGeneration'[e] = generation'[l]
    BY <1>1 DEF SlotHeldUntilCompletionOrReset
<1>3. e \in ToSet(queue'[l]) <=> phase'[e] = "queued" /\ entry'[e].lane = l
    BY <1>1 DEF QueuedEntriesAreInTheirLane
<1>4. Stage(e)' = CASE phase'[e] = "new" -> "new"
                    [] phase'[e] \in {"refused", "cleared"} -> "dropped"
                    [] phase'[e] = "queued" -> "waiting"
                    [] OTHER -> IF e \in activeTaskIds'[entry'[e].lane]
                                THEN "holding" ELSE "released"
    BY DEF Stage
<1>. QED
    BY <1>1, <1>2, <1>3, <1>4 DEF Phases, Started

LEMMA ContractCounts ==
    ASSUME NEW S PROVE Contract!Cardinality(S) = Cardinality(S)
BY DEF Contract!Cardinality, Cardinality

ContractMoves ==
    /\ \A e \in Entries : MovesOrStays(e)
    /\ \A l \in Lanes : LaneAdmits(l)

LEMMA StepKeepsContract ==
    ASSUME IInv, IInv', ContractMoves
    PROVE  Contract!Step
<1>. USE DEF ContractMoves
<1>. DEFINE stage == [e \in Entries |-> Stage(e)]
<1>1. ASSUME NEW e \in Entries
      PROVE  /\ Stage(e)' # Stage(e) => <<Stage(e), Stage(e)'>> \in Contract!Moves
             /\ Stage(e) # "new" => entry'[e] = entry[e]
  <2>1. Stage(e) = "new" <=> phase[e] = "new"
    BY DEF Stage
  <2>. QED
    BY <2>1 DEF MovesOrStays
<1>2. ASSUME NEW l \in Lanes
      PROVE  LET holding == { e \in Entries :
                                Stage(e)' = "holding" /\ entry'[e].lane = l }
                 waiting == { e \in Entries :
                                Stage(e)' = "waiting" /\ entry'[e].lane = l }
             IN  /\ \A a \in holding :
                       Stage(a) # "holding" =>
                           /\ Cardinality(holding) =< maxConcurrent'[l]
                           /\ \A b \in waiting : Precedes(a, b)'
                 /\ waiting # {} => Cardinality(holding) >= maxConcurrent'[l]
  <2>. DEFINE holding == { e \in Entries :
                             Stage(e)' = "holding" /\ entry'[e].lane = l }
              waiting == { e \in Entries :
                             Stage(e)' = "waiting" /\ entry'[e].lane = l }
  <2>1. TypeOK' /\ LanesNeverStall'
    BY DEF IInv, SchedulerInv
  <2>2. activeTaskIds'[l] \subseteq Entries
    BY <2>1 DEF TypeOK
  <2>3. ToSet(queue'[l]) \subseteq Entries /\ queue'[l] \in Seq(Entries)
    BY <2>1 DEF TypeOK, ToSet
  <2>4. holding = activeTaskIds'[l]
    BY <2>2, StagesAreQueuesNext
  <2>5. waiting = ToSet(queue'[l])
    BY <2>3, StagesAreQueuesNext
  <2>6. ASSUME NEW a \in activeTaskIds'[l], Stage(a) # "holding"
        PROVE  /\ Cardinality(activeTaskIds'[l]) =< maxConcurrent'[l]
               /\ \A b \in ToSet(queue'[l]) : Precedes(a, b)'
    <3>1. a \notin activeTaskIds[l]
      BY <2>2, <2>6, StagesAreQueues
    <3>. QED
      BY <3>1 DEF LaneAdmits
  <2>7. ToSet(queue'[l]) # {} => Cardinality(activeTaskIds'[l]) >= maxConcurrent'[l]
    <3>1. ToSet(queue'[l]) # {} => queue'[l] # <<>>
      BY DEF ToSet
    <3>. QED
      BY <2>1, <3>1 DEF LanesNeverStall
  <2>. HIDE DEF holding, waiting
  <2>8. /\ \A a \in holding :
              Stage(a) # "holding" =>
                  /\ Cardinality(holding) =< maxConcurrent'[l]
                  /\ \A b \in waiting : Precedes(a, b)'
        /\ waiting # {} => Cardinality(holding) >= maxConcurrent'[l]
    BY <2>4, <2>5, <2>6, <2>7
  <2>. QED
    BY <2>8 DEF holding, waiting
<1>3. ASSUME NEW l \in Lanes
      PROVE  /\ Contract!Holding(l)' = { e \in Entries :
                                Stage(e)' = "holding" /\ entry'[e].lane = l }
             /\ Contract!Waiting(l)' = { e \in Entries :
                                Stage(e)' = "waiting" /\ entry'[e].lane = l }
    BY DEF Contract!Holding, Contract!Waiting
<1>4. ASSUME NEW l \in Lanes
      PROVE  /\ \A a \in Contract!Holding(l)' :
                   Stage(a) # "holding" =>
                       /\ Contract!Cardinality(Contract!Holding(l)')
                             =< maxConcurrent'[l]
                       /\ \A b \in Contract!Waiting(l)' : Contract!Precedes(a, b)'
             /\ Contract!Waiting(l)' # {}
                => Contract!Cardinality(Contract!Holding(l)')
                       >= maxConcurrent'[l]
  <2>1. \A a, b : Contract!Precedes(a, b)' <=> Precedes(a, b)'
    BY DEF Contract!Precedes, Precedes
  <2>. QED
    BY <1>2, <1>3, <2>1, ContractCounts
<1>5. \A a \in Entries : stage[a] = Stage(a) /\ stage'[a] = Stage(a)'
    OBVIOUS
<1>6. \A l \in Lanes : Contract!Holding(l)' \subseteq Entries
    BY <1>3
<1>. QED
    BY <1>1, <1>4, <1>5, <1>6 DEF Contract!Step

\* A step that pumps: it submits some entries, gives slots back, for good of
\* tasks that are through, and leaves the rest to drainLane.
LEMMA PumpKeepsMoves ==
    ASSUME IInv, IInv', NEW subjects, Pumps(subjects)
    PROVE  ContractMoves
<1>1. PICK q, active, phases :
           \E pumped \in SUBSET Lanes :
               PumpsFrom(subjects, pumped, q, active, phases)
    BY DEF Pumps
<1>2. PICK pumped \in SUBSET Lanes :
           PumpsFrom(subjects, pumped, q, active, phases)
    BY <1>1
<1>. USE <1>2 DEF PumpsFrom
<1>3. /\ PumpOutcome(pumped, q, active, phases)
      /\ Admission(q, active, phases)
    BY DrainLanesPreserves, DrainLanesAdmits
<1>4. TypeOK /\ SlotHeldUntilCompletionOrReset
    BY DEF IInv, SchedulerInv
<1>5. TypeOK' /\ SlotHeldUntilCompletionOrReset'
    BY DEF IInv, SchedulerInv
<1>6. ASSUME NEW l \in Lanes PROVE LaneAdmits(l)
  <2>1. activeTaskIds'[l] \ activeTaskIds[l] \subseteq activeTaskIds'[l] \ active[l]
    OBVIOUS
  <2>. QED
    BY <1>3, <2>1 DEF LaneAdmits, Admission
<1>7. ASSUME NEW e \in Entries PROVE MovesOrStays(e)
  <2>. DEFINE lane == entry[e].lane
  <2>1. /\ Stage(e) = CASE phase[e] = "new" -> "new"
                        [] phase[e] \in {"refused", "cleared"} -> "dropped"
                        [] phase[e] = "queued" -> "waiting"
                        [] OTHER -> IF e \in activeTaskIds[entry[e].lane]
                                    THEN "holding" ELSE "released"
        /\ Stage(e)' = CASE phase'[e] = "new" -> "new"
                         [] phase'[e] \in {"refused", "cleared"} -> "dropped"
                         [] phase'[e] = "queued" -> "waiting"
                         [] OTHER -> IF e \in activeTaskIds'[entry'[e].lane]
                                     THEN "holding" ELSE "released"
    BY DEF Stage
  <2>2. phase[e] \in Phases /\ phase'[e] \in Phases
    BY <1>4, <1>5 DEF TypeOK
  <2>3. CASE phase'[e] # phases[e]
    <3>1. phases[e] = "queued" /\ phase'[e] = "running"
      BY <1>3, <2>3 DEF PumpOutcome
    <3>2. e \in activeTaskIds'[entry'[e].lane]
      BY <1>3, <2>3 DEF Admission
    <3>3. Stage(e)' = "holding"
      BY <2>1, <3>1, <3>2
    <3>4. Stage(e) \in {"new", "waiting"}
      BY <2>1, <3>1
    <3>. QED
      BY <3>1, <3>3, <3>4 DEF MovesOrStays, Contract!Moves
  <2>4. CASE phase'[e] = phases[e] /\ phase[e] = "new" /\ phases[e] = "queued"
    <3>1. Stage(e) = "new" /\ Stage(e)' = "waiting"
      BY <2>1, <2>4
    <3>. QED
      BY <2>4, <3>1 DEF MovesOrStays, Contract!Moves
  <2>5. ASSUME entry'[e] = entry[e], phase'[e] # "queued",
               phase'[e] \notin {"new", "refused", "cleared"},
               phase[e] \notin {"new", "queued", "refused", "cleared"},
               phases[e] # "queued"
        PROVE  MovesOrStays(e)
    <3>1. /\ Stage(e) \in {"holding", "released"}
          /\ Stage(e)' \in {"holding", "released"}
      BY <2>1, <2>5
    <3>2. ASSUME Stage(e)' = "holding"
          PROVE  Stage(e) = "holding"
      <4>1. e \in activeTaskIds'[lane]
        BY <2>1, <2>5, <3>2
      <4>2. lane \in Lanes
        <5>1. phase[e] \notin {"new", "refused"}
          BY <2>5
        <5>. QED
          BY <5>1 DEF IInv, SchedulerInv, SubmittedEntriesHaveOptions,
                      EntryOptions
      <4>3. e \in active[lane]
        BY <1>3, <2>5, <4>1, <4>2 DEF PumpOutcome
      <4>4. e \in activeTaskIds[lane]
        BY <4>2, <4>3
      <4>. QED
        BY <2>1, <2>5, <4>4
    <3>. QED
      BY <2>5, <3>1, <3>2 DEF MovesOrStays, Contract!Moves
  <2>6. CASE /\ phase'[e] = phases[e]
             /\ phases[e] = phase[e] /\ entry'[e] = entry[e]
    <3>1. CASE phase[e] \in {"new", "refused", "cleared", "queued"}
      <4>1. Stage(e)' = Stage(e)
        BY <2>1, <2>6, <3>1
      <4>. QED
        BY <2>6, <4>1 DEF MovesOrStays
    <3>2. CASE phase[e] \notin {"new", "refused", "cleared", "queued"}
      BY <2>5, <2>6, <3>2
    <3>. QED
      BY <3>1, <3>2
  <2>7. CASE /\ phase'[e] = phases[e]
             /\ phase[e] \in {"settled", "timedOut"}
             /\ phases[e] = "done"
             /\ entry'[e] = entry[e]
    BY <2>5, <2>7
  <2>. QED
    BY <2>3, <2>4, <2>6, <2>7
<1>. QED
    BY <1>6, <1>7 DEF ContractMoves

\* A step that does not pump moves no slot.
LEMMA OthersKeepContract ==
    ASSUME IInv, IInv', activeTaskIds' = activeTaskIds, entry' = entry,
           \A e \in Entries :
               \/ phase'[e] = phase[e]
               \/ phase[e] = "new" /\ phase'[e] = "refused"
               \/ phase[e] = "queued" /\ phase'[e] = "cleared"
               \/ /\ phase[e] \in Started
                  /\ phase'[e] \in Started \cup {"done"}
    PROVE  ContractMoves
<1>1. ASSUME NEW l \in Lanes PROVE LaneAdmits(l)
    BY DEF LaneAdmits
<1>2. ASSUME NEW e \in Entries PROVE MovesOrStays(e)
  <2>1. /\ Stage(e) = CASE phase[e] = "new" -> "new"
                        [] phase[e] \in {"refused", "cleared"} -> "dropped"
                        [] phase[e] = "queued" -> "waiting"
                        [] OTHER -> IF e \in activeTaskIds[entry[e].lane]
                                    THEN "holding" ELSE "released"
        /\ Stage(e)' = CASE phase'[e] = "new" -> "new"
                         [] phase'[e] \in {"refused", "cleared"} -> "dropped"
                         [] phase'[e] = "queued" -> "waiting"
                         [] OTHER -> IF e \in activeTaskIds[entry[e].lane]
                                     THEN "holding" ELSE "released"
    BY DEF Stage
  <2>2. CASE phase'[e] = phase[e]
    BY <2>1, <2>2 DEF MovesOrStays
  <2>3. CASE phase[e] = "new" /\ phase'[e] = "refused"
    <3>1. Stage(e) = "new" /\ Stage(e)' = "dropped"
      BY <2>1, <2>3
    <3>. QED
      BY <3>1 DEF MovesOrStays, Contract!Moves
  <2>4. CASE phase[e] = "queued" /\ phase'[e] = "cleared"
    <3>1. Stage(e) = "waiting" /\ Stage(e)' = "dropped"
      BY <2>1, <2>4
    <3>. QED
      BY <3>1 DEF MovesOrStays, Contract!Moves
  <2>5. CASE /\ phase[e] \in Started
             /\ phase'[e] \in Started \cup {"done"}
    <3>1. Stage(e)' = Stage(e)
      BY <2>1, <2>5 DEF Started
    <3>. QED
      BY <3>1 DEF MovesOrStays
  <2>. QED
    BY <2>2, <2>3, <2>4, <2>5
<1>. QED
    BY <1>1, <1>2 DEF ContractMoves

\* So every operation makes the moves of the contract, or none.
LEMMA NextKeepsMoves ==
    ASSUME IInv, [Next]_vars
    PROVE  ContractMoves
<1>1. IInv'
    BY NextKeepsIInv
<1>2. TypeOK
    BY DEF IInv
<1>3. ASSUME NEW subjects, Pumps(subjects) PROVE ContractMoves
    BY <1>1, <1>3, PumpKeepsMoves
<1>4. ASSUME activeTaskIds' = activeTaskIds, entry' = entry, phase' = phase
      PROVE  ContractMoves
    BY <1>1, <1>4, OthersKeepContract
<1>5. ASSUME activeTaskIds' = activeTaskIds, entry' = entry,
             NEW e \in Entries, NEW new,
             phase' = [phase EXCEPT ![e] = new],
             \/ phase[e] = "new" /\ new = "refused"
             \/ phase[e] \in Started /\ new \in Started \cup {"done"}
      PROVE  ContractMoves
  <2>1. \A d \in Entries : phase'[d] = IF d = e THEN new ELSE phase[d]
    BY <1>2, <1>5 DEF TypeOK
  <2>. QED
    BY <1>1, <1>5, <2>1, OthersKeepContract
<1>6. ASSUME NEW e \in Entries, NEW l \in Lanes, NEW priority \in Priorities,
             NEW timed \in LaneTimeouts, Enqueue(e, l, priority, timed)
      PROVE  ContractMoves
    BY <1>3, <1>6, EnqueueKeepsIInv
<1>7. ASSUME NEW e \in Entries, EnqueueRefused(e) PROVE ContractMoves
    BY <1>5, <1>7 DEF EnqueueRefused, laneVars
<1>8. ASSUME NEW e \in Entries, TaskSettles(e) PROVE ContractMoves
  <2>1. /\ phase' = [phase EXCEPT ![e] = IF phase[e] = "running"
                                         THEN "settled" ELSE phase[e]]
        /\ activeTaskIds' = activeTaskIds /\ entry' = entry
    BY <1>2, <1>8 DEF TaskSettles, TypeOK, laneVars
  <2>2. CASE phase[e] = "running"
    BY <1>5, <2>1, <2>2 DEF Started
  <2>3. CASE phase[e] # "running"
    <3>1. phase' = phase
      BY <1>2, <2>1, <2>3 DEF TypeOK
    <3>. QED
      BY <1>4, <2>1, <3>1
  <2>. QED
    BY <2>2, <2>3
<1>9. ASSUME NEW e \in Entries, TaskTimesOut(e) PROVE ContractMoves
    BY <1>5, <1>9 DEF TaskTimesOut, laneVars, Started
<1>10. ASSUME NEW e \in Entries, CompleteTask(e) PROVE ContractMoves
  <2>1. \/ Pumps({e})
        \/ phase' = [phase EXCEPT ![e] = "done"] /\ activeTaskIds' = activeTaskIds
    BY <1>10, CompleteTaskKeepsIInv
  <2>2. phase[e] \in Started /\ entry' = entry
    BY <1>10 DEF CompleteTask, Started
  <2>. QED
    BY <1>3, <1>5, <2>1, <2>2
<1>11. ASSUME NEW l \in Lanes, NEW n \in -1 .. ConcurrencyCap,
              SetCommandLaneConcurrency(l, n)
       PROVE  ContractMoves
  <2>1. n \in Int
    BY CapsAssumption
  <2>. QED
    BY <1>3, <1>11, <2>1, SetCommandLaneConcurrencyKeepsIInv
<1>12. ASSUME NEW l \in Lanes, ClearCommandLane(l) PROVE ContractMoves
  <2>1. \A e \in Entries : e \in ToSet(queue[l]) => phase[e] = "queued"
    BY DEF IInv, SchedulerInv, QueuedEntriesAreInTheirLane
  <2>2. \A e \in Entries : /\ phase'[e] = IF e \in ToSet(queue[l])
                                          THEN "cleared" ELSE phase[e]
    BY <1>12 DEF ClearCommandLane
  <2>3. activeTaskIds' = activeTaskIds /\ entry' = entry
    BY <1>12 DEF ClearCommandLane
  <2>. QED
    BY <1>1, <2>1, <2>2, <2>3, OthersKeepContract
<1>13. ASSUME NEW l \in Lanes, ResetCommandLane(l) PROVE ContractMoves
    BY <1>2, <1>3, <1>13, ResetLanesKeepsIInv DEF ResetCommandLane, TypeOK
<1>14. ASSUME ResetAllLanes PROVE ContractMoves
    BY <1>3, <1>14, ResetLanesKeepsIInv DEF ResetAllLanes
<1>15. ASSUME MarkGatewayDraining PROVE ContractMoves
    BY <1>4, <1>15 DEF MarkGatewayDraining, laneVars, entryVars
<1>16. ASSUME NEW w \in Waiters, NEW timeout \in {"none", "zero", "positive"},
              WaitForActiveTasks(w, timeout)
       PROVE  ContractMoves
    BY <1>4, <1>16 DEF WaitForActiveTasks, laneVars, entryVars
<1>17. ASSUME NEW w \in Waiters, WaiterTimesOut(w) PROVE ContractMoves
    BY <1>4, <1>17 DEF WaiterTimesOut, laneVars, entryVars
<1>18. ASSUME UNCHANGED vars PROVE ContractMoves
    BY <1>4, <1>18 DEF vars, laneVars, entryVars
<1>. QED
    BY <1>6, <1>7, <1>8, <1>9, <1>10, <1>11, <1>12, <1>13, <1>14, <1>15, <1>16,
       <1>17, <1>18, Zenon DEF Next

\* Nothing has been submitted yet, and every lane has a slot.
LEMMA InitKeepsContract == Init => Contract!Init
<1>. SUFFICES ASSUME Init PROVE Contract!Init
    OBVIOUS
<1>1. [e \in Entries |-> Stage(e)] = [e \in Entries |-> "new"]
    BY DEF Init, Stage
<1>2. maxConcurrent \in [Lanes -> Nat]
    BY DEF Init
<1>. QED
    BY <1>1, <1>2 DEF Init, Contract!Init, NoEntry, Contract!NoTicket

-----------------------------------------------------------------------------
(***************************************************************************)
(* The theorems.                                                           *)
(***************************************************************************)

\* The invariant holds in every reachable state, whatever the lanes, entries,
\* timeouts and waiters.
THEOREM InductiveInvariant == Spec => []IInv
    BY InitEstablishesIInv, NextKeepsIInv, PTL DEF Spec

\* The state of the queue is well formed, whatever is submitted, reset or
\* reconfigured: in particular setCommandLaneConcurrency never leaves a lane
\* with a negative number of slots.
THEOREM TypeCorrect == Spec => []TypeOK
<1>1. IInv => TypeOK
    BY DEF IInv
<1>. QED
    BY <1>1, InductiveInvariant, PTL

\* pump() takes the head of a lane's queue: it is always the most urgent and
\* then oldest entry.
THEOREM QueuesStayOrdered == Spec => []QueueInDequeueOrder
<1>1. IInv => QueueInDequeueOrder
    BY DEF IInv, SchedulerInv
<1>. QED
    BY <1>1, InductiveInvariant, PTL

\* A started task holds a slot of its lane exactly until it completes or the
\* lane is reset.
THEOREM SlotsAreHeldByStartedTasks == Spec => []SlotHeldUntilCompletionOrReset
<1>1. IInv => SlotHeldUntilCompletionOrReset
    BY DEF IInv, SchedulerInv
<1>. QED
    BY <1>1, InductiveInvariant, PTL

\* No entry is lost or queued twice.
THEOREM QueuedEntriesAreKept == Spec => []QueuedEntriesAreInTheirLane
<1>1. IInv => QueuedEntriesAreInTheirLane
    BY DEF IInv, SchedulerInv
<1>. QED
    BY <1>1, InductiveInvariant, PTL

\* No lane has both a waiting entry and a free slot between two operations.
THEOREM NoLaneStalls == Spec => []LanesNeverStall
<1>1. IInv => LanesNeverStall
    BY DEF IInv, SchedulerInv
<1>. QED
    BY <1>1, InductiveInvariant, PTL

\* No pending call of waitForActiveTasks has lost all the tasks it awaits.
THEOREM WaitersAreWoken == Spec => []NoMissedWakeup
<1>1. IInv => NoMissedWakeup
    BY DEF IInv, WaiterInv
<1>. QED
    BY <1>1, InductiveInvariant, PTL

\* A call that reported { drained: true } was right, and stays right.
THEOREM DrainedVerdictsAreSound == Spec => []DrainedVerdictSound
<1>1. IInv => DrainedVerdictSound
    BY DEF IInv, WaiterInv
<1>. QED
    BY <1>1, InductiveInvariant, PTL

\* Whatever is submitted, cleared, reset, reconfigured or given up on, the
\* scheduler keeps its promise: a request takes each stage at most once, is
\* admitted only to a free slot and before all that are less urgent or younger,
\* and no slot stays free while a request waits for it.
THEOREM SchedulerKeepsContract == Spec => ImplementsContract
<1>1. IInv /\ [Next]_vars => [Contract!Step]_(Contract!vars)
    BY NextKeepsIInv, NextKeepsMoves, StepKeepsContract
<1>. QED
    BY <1>1, InitKeepsContract, InductiveInvariant, PTL
    DEF Spec, ImplementsContract, Contract!Spec
=============================================================================
