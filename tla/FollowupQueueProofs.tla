------------------------- MODULE FollowupQueueProofs -------------------------
(***************************************************************************)
(* What the followup queue keeps, for any messages, senders, settings and  *)
(* queue objects, and any number of stops and failing runs: a batch is of  *)
(* one sender and one route; messages are answered once, in order; as long *)
(* as the cap is not hit while the drain awaits a run, every lifecycle     *)
(* closes; and where, besides, summaries are told in collect mode only,    *)
(* nothing that was accepted is lost.                                      *)
(*                                                                         *)
(* Only the registered object holds anything (QueueOK): a drain that       *)
(* outlives the registration of its object has an empty queue before it,   *)
(* and what it has taken has been forgotten by the rest.  So the proof is  *)
(* about the items, lines and sources of that one object (Held), and about *)
(* what its drain has taken of it: the front of the queue (RestsOnItems),  *)
(* unless the cap drops messages during the run.  What it has taken leads  *)
(* the queue even then (Leads), which is all the order of the answers      *)
(* needs.                                                                  *)
(***************************************************************************)
EXTENDS FollowupQueue, SequenceTheorems, WellFoundedInduction, TLAPS

\* The cap is not hit while a batch runs: else what leaves the queue after the
\* run is not what was run.
NoDropsDuringRuns == OverlapDrops = FALSE

\* Summaries are told in collect mode only: in the single mode the summary is
\* run in the place of a message, which leaves the queue with it unanswered.
SummariesAreBatched ==
    \A s \in Settings : s.mode = "followup" => s.drop # "summarize"

Fates == {"unseen", "refused", "waiting", "answered", "summarising",
          "summarised", "dropped", "cleared", "aborted"}

Busy == {"admission", "running"}

\* What a drain looks like where it stands.
DrainTyped(d) ==
    /\ d \in DrainType
    /\ d.pc = "off" => d = NoDrain
    /\ d.pc \notin Busy \cup {"dropping"} => d.batch = <<>>
    /\ d.pc \notin Busy => d.rest = <<>>
    /\ d.pc = "dropping" => d.at \in Nat \ {0} /\ Len(d.batch) = 1

\* The shapes of TypeOK, of a registry e, qs, ds and of the rest.
RegistryTyped(e, qs, ds) ==
    /\ e \in Queues \cup {NoQueue}
    /\ qs \in [Queues -> QueueType]
    /\ ds \in [Queues -> DrainType]
    /\ \A q \in Queues : DrainTyped(ds[q])
    /\ \A q \in Queues : q # e /\ ds[q].pc = "off" => qs[q] = Unused

OthersTyped ==
    /\ lane \in {"idle", "turn"} \cup Queues
    /\ recent \subseteq Messages
    /\ fenced \in Fences
    /\ aborted \subseteq fenced /\ completed \subseteq fenced
    /\ stops \in Nat /\ stops =< StopCap
    /\ fails \in Nat /\ fails =< FailCap
    /\ fate \in [Messages -> Fates]
    /\ arrived \in Seq(Messages) /\ answers \in Seq(Messages)

\* A message about to be dropped was withdrawn.
DropsAreAborted(d) == d.pc = "dropping" => Range(d.batch) \subseteq aborted

TypeInv ==
    /\ RegistryTyped(entry, queue, drain)
    /\ OthersTyped
    /\ \A q \in Queues : DropsAreAborted(drain[q])

-----------------------------------------------------------------------------
(* Who runs with whom. *)

\* What the drain d runs now has one sender; with what it runs next, one
\* route.
Unmixed(d) ==
    /\ \A m, n \in Range(d.batch) : Sender[m] = Sender[n]
    /\ \A m, n \in Range(d.batch) \cup Range(d.rest) : Route[m] = Route[n]

AuthInv == TypeInv /\ \A q \in Queues : Unmixed(drain[q])

-----------------------------------------------------------------------------
(* What is kept. *)

\* What the object r of a key that maps to e says, seen from the drain d of q.
RestsOnItems(r, d) ==
    /\ Len(d.batch) + Len(d.rest) =< Len(r.items)
    /\ \A i \in 1 .. Len(d.batch) : d.batch[i] = r.items[i]
    /\ \A i \in 1 .. Len(d.rest) : d.rest[i] = r.items[Len(d.batch) + i]

TellsInBatches(r) ==
    SummariesAreBatched => (r.mode = "followup" => r.drop # "summarize")

QueueOK(q, e, r) ==
    /\ r.dropped = 0 => r.lines = <<>> /\ r.sources = <<>>
    /\ TellsInBatches(r)
    /\ q # e => r.items = <<>> /\ r.dropped = 0

DrainOK(q, e, r, d) ==
    /\ NoDropsDuringRuns /\ d.pc = "dropping" /\ q = e =>
          d.at \in 1 .. Len(r.items) /\ r.items[d.at] = d.batch[1]
    /\ d.pc \in Busy =>
          /\ Range(d.batch) \cap fenced = {} \/ Len(d.batch) = 1
          /\ SummariesAreBatched =>
                /\ ~d.summaryOnly
                /\ Range(d.batch) \cap fenced = {} \/ d.summary = NoSummary
          /\ Range(d.rest) \cap fenced = {}
          /\ d.summary.dropped = 0 => d.summary.lines = <<>>
          /\ NoDropsDuringRuns /\ q = e => RestsOnItems(r, d)
          /\ NoDropsDuringRuns /\ q = e /\ d.summary # NoSummary =>
                d.summary = [dropped |-> r.dropped, lines |-> r.lines]

Sound(e, qs, ds) ==
    \A q \in Queues : QueueOK(q, e, qs[q]) /\ DrainOK(q, e, qs[q], ds[q])

\* What the registered object holds.
Held(e, qs) == IF e = NoQueue THEN Unused ELSE qs[e]

Items == Held(entry, queue).items
Lines == Held(entry, queue).lines
Sources == Held(entry, queue).sources

Before(m, n) ==
    \E i, j \in 1 .. Len(arrived) : i < j /\ arrived[i] = m /\ arrived[j] = n

\* The messages of the queue have arrived in that order, once.
ItemsInOrder ==
    /\ IsInjective(arrived) /\ Range(arrived) \subseteq recent
    /\ Range(Items) \subseteq Range(arrived)
    /\ \A i, j \in 1 .. Len(Items) : i < j => Before(Items[i], Items[j])

\* What the drain d has taken of the queue.
Taken(d) == Range(d.batch) \cup Range(d.rest)

TakenOnce(d) ==
    /\ IsInjective(d.batch) /\ IsInjective(d.rest)
    /\ Range(d.batch) \cap Range(d.rest) = {}

\* No message is in two hands, and what a stopped drain still has nobody else
\* knows of.
HandsApart ==
    /\ \A q \in Queues : /\ TakenOnce(drain[q])
                         /\ Taken(drain[q]) \subseteq recent
                         /\ Taken(drain[q]) \cap Range(answers) = {}
    /\ \A q \in Queues \ {entry} : Taken(drain[q]) \cap Range(arrived) = {}
    /\ \A p, q \in Queues : p # q => Taken(drain[p]) \cap Taken(drain[q]) = {}

\* What has been answered is not in the queue, and came before what is.
AnsweredInOrder ==
    /\ IsInjective(answers) /\ Range(answers) \subseteq recent
    /\ Range(answers) \cap Range(Items) = {}
    /\ \A m \in Range(answers) \cap Range(arrived), n \in Range(Items) :
          Before(m, n)
    /\ \A i, j \in 1 .. Len(answers) :
          i < j /\ {answers[i], answers[j]} \subseteq Range(arrived)
          => Before(answers[i], answers[j])

\* What the drain d has taken of the queue and not yet run.
Hand(d) == d.batch \o d.rest

InOrder(s) == \A i, j \in 1 .. Len(s) : i < j => Before(s[i], s[j])

\* The messages s are to be answered next.  What is still queued of them stands
\* no further behind than in s, and so is gone when as many as were run are
\* removed, whatever the cap has dropped of them.
Leads(s) ==
    /\ Range(s) \subseteq Range(arrived)
    /\ InOrder(s)
    /\ \A m \in Range(answers) \cap Range(arrived) :
          \A n \in Range(s) : Before(m, n)
    /\ \A m \in Range(s), n \in Range(Items) \ Range(s) : Before(m, n)
    /\ \A i \in 1 .. Len(Items), j \in 1 .. Len(s) : Items[i] = s[j] => i =< j

HandLeads ==
    \A q \in Queues :
        q = entry /\ drain[q].pc \in Busy => Leads(Hand(drain[q]))

WaitingAreQueued ==
    NoDropsDuringRuns /\ SummariesAreBatched =>
        \A m \in Messages : /\ fate[m] = "waiting" => m \in Range(Items)
                            /\ fate[m] = "summarising" => m \in Range(Lines)

FencesAreKnown ==
    NoDropsDuringRuns =>
        (fenced \cap recent) \ completed
            \subseteq Range(Items) \cup Range(Sources)

Kept ==
    /\ Sound(entry, queue, drain)
    /\ ItemsInOrder
    /\ HandsApart
    /\ AnsweredInOrder
    /\ HandLeads
    /\ WaitingAreQueued
    /\ FencesAreKnown

IInv == AuthInv /\ Kept

-----------------------------------------------------------------------------
(***************************************************************************)
(* Numbers.                                                                *)
(***************************************************************************)

\* Min, which FirstGroup takes, is an element and a lower bound.
LEMMA NonEmptyNatSetHasMin ==
    ASSUME NEW T, T \subseteq Nat, T # {}
    PROVE  Min(T) \in T /\ \A y \in T : Min(T) =< y
<1> DEFINE Less == { ss \in Nat \X Nat : ss[1] < ss[2] }
<1>1. IsWellFoundedOn(Less, Nat)
    BY NatLessThanWellFounded DEF OpToRel
<1>2. \E x \in T : \A y \in T : <<y, x>> \notin Less
    BY <1>1, WFMin
<1>3. \E x \in T : \A y \in T : x =< y
  <2>1. PICK x \in T : \A y \in T : <<y, x>> \notin Less
    BY <1>2
  <2>2. ASSUME NEW y \in T PROVE x =< y
    <3>1. x \in Nat /\ y \in Nat /\ <<y, x>> \notin Less
      BY <2>1
    <3>. QED
      BY <3>1 DEF Less
  <2>. QED
    BY <2>2
<1>. QED
    BY <1>3 DEF Min

\* The largest element, where the search for aborted messages begins.
LEMMA BoundedSetHasMax ==
    ASSUME NEW n \in Nat, NEW T, T \subseteq 1 .. n, T # {}
    PROVE  \E x \in T : \A y \in T : y =< x
<1>. DEFINE U == {n - y : y \in T}
            k == Min(U)
<1>1. U \subseteq Nat /\ U # {}
  <2>1. \A y \in T : n - y \in Nat
      OBVIOUS
  <2>. QED
      BY <2>1
<1>2. k \in U /\ \A y \in U : k =< y
  <2>. HIDE DEF U
  <2>. QED
      BY <1>1, NonEmptyNatSetHasMin
<1>3. PICK x \in T : k = n - x
    BY <1>2
<1>4. \A y \in T : n - x =< n - y
    BY <1>2, <1>3
<1>. HIDE DEF k, U
<1>5. \A y \in T : y =< x
    BY <1>4
<1>. QED
    BY <1>5

-----------------------------------------------------------------------------
(***************************************************************************)
(* Sequences.                                                              *)
(***************************************************************************)

\* What stays in t behind its first part s.
LEMMA BehindIsTheRest ==
    ASSUME NEW S, NEW s \in Seq(S), NEW t \in Seq(S), Len(s) =< Len(t),
           \A i \in 1 .. Len(s) : s[i] = t[i]
    PROVE  /\ Behind(s, t) \in Seq(S)
           /\ Len(Behind(s, t)) = Len(t) - Len(s)
           /\ \A i \in 1 .. Len(Behind(s, t)) : Behind(s, t)[i] = t[Len(s) + i]
           /\ Range(t) = Range(s) \cup Range(Behind(s, t))
           /\ IsInjective(t) => /\ IsInjective(s) /\ IsInjective(Behind(s, t))
                                /\ Range(s) \cap Range(Behind(s, t)) = {}
<1>. DEFINE b == Behind(s, t)
<1>1. /\ b \in Seq(S) /\ Len(b) = Len(t) - Len(s)
      /\ \A i \in 1 .. Len(b) : b[i] = t[Len(s) + i]
      /\ Len(s) \in Nat /\ Len(t) \in Nat
      /\ DOMAIN b = 1 .. Len(b) /\ DOMAIN s = 1 .. Len(s)
      /\ DOMAIN t = 1 .. Len(t)
    BY DEF Behind
<1>. HIDE DEF b
<1>2. Range(t) \subseteq Range(s) \cup Range(b)
  <2>. SUFFICES ASSUME NEW i \in 1 .. Len(t)
                PROVE  t[i] \in Range(s) \cup Range(b)
      BY <1>1 DEF Range
  <2>1. CASE i =< Len(s)
    <3>1. i \in 1 .. Len(s) /\ t[i] = s[i]
        BY <1>1, <2>1
    <3>. QED
        BY <1>1, <3>1 DEF Range
  <2>2. CASE i > Len(s)
    <3>. DEFINE j == i - Len(s)
    <3>1. j \in 1 .. Len(b) /\ i = Len(s) + j
        BY <1>1, <2>2
    <3>. HIDE DEF j
    <3>2. t[i] = b[j]
        BY <1>1, <3>1
    <3>. QED
        BY <1>1, <3>1, <3>2 DEF Range
  <2>. QED
      BY <1>1, <2>1, <2>2
<1>3. Range(s) \cup Range(b) \subseteq Range(t)
  <2>1. \A i \in 1 .. Len(s) : i \in 1 .. Len(t)
      BY <1>1
  <2>2. \A i \in 1 .. Len(b) : Len(s) + i \in 1 .. Len(t)
      BY <1>1
  <2>. QED
      BY ZenonT(30), <1>1, <2>1, <2>2 DEF Range
<1>4. ASSUME IsInjective(t)
      PROVE  IsInjective(s) /\ IsInjective(b) /\ Range(s) \cap Range(b) = {}
  <2>1. \A i, j \in 1 .. Len(t) : t[i] = t[j] => i = j
      BY <1>1, <1>4 DEF IsInjective
  <2>2. \A i \in 1 .. Len(s) : i \in 1 .. Len(t)
      BY <1>1
  <2>3. \A i \in 1 .. Len(b) : Len(s) + i \in 1 .. Len(t)
      BY <1>1
  <2>4. \A i, j \in 1 .. Len(b) : b[i] = b[j] => i = j
    <3>. SUFFICES ASSUME NEW i \in 1 .. Len(b), NEW j \in 1 .. Len(b),
                         b[i] = b[j]
                  PROVE  i = j
        OBVIOUS
    <3>1. Len(s) + i = Len(s) + j
        BY ZenonT(30), <1>1, <2>1, <2>3
    <3>. QED
        BY <1>1, <3>1
  <2>5. \A i \in 1 .. Len(s), j \in 1 .. Len(b) : s[i] # b[j]
    <3>. SUFFICES ASSUME NEW i \in 1 .. Len(s), NEW j \in 1 .. Len(b),
                         s[i] = b[j]
                  PROVE  FALSE
        OBVIOUS
    <3>1. i = Len(s) + j
        BY <1>1, <2>1, <2>2, <2>3
    <3>. QED
        BY <1>1, <3>1
  <2>6. \A i, j \in 1 .. Len(s) : s[i] = s[j] => i = j
    <3>. SUFFICES ASSUME NEW i \in 1 .. Len(s), NEW j \in 1 .. Len(s),
                         s[i] = s[j]
                  PROVE  i = j
        OBVIOUS
    <3>1. t[i] = t[j] /\ i \in 1 .. Len(t) /\ j \in 1 .. Len(t)
        BY <2>2
    <3>. QED
        BY <2>1, <3>1
  <2>7. IsInjective(s)
      BY <1>1, <2>6 DEF IsInjective
  <2>8. IsInjective(b)
      BY <1>1, <2>4 DEF IsInjective
  <2>9. Range(s) \cap Range(b) = {}
      BY <1>1, <2>5 DEF Range
  <2>. QED
      BY <2>7, <2>8, <2>9
<1>. QED
    BY <1>1, <1>2, <1>3, <1>4 DEF b

\* Together they are t again.
LEMMA BehindCompletes ==
    ASSUME NEW S, NEW s \in Seq(S), NEW t \in Seq(S), Len(s) =< Len(t),
           \A i \in 1 .. Len(s) : s[i] = t[i]
    PROVE  s \o Behind(s, t) = t
<1>. DEFINE b == Behind(s, t)
            u == s \o b
<1>1. /\ b \in Seq(S) /\ Len(b) = Len(t) - Len(s)
      /\ \A i \in 1 .. Len(b) : b[i] = t[Len(s) + i]
      /\ Len(s) \in Nat /\ Len(t) \in Nat
    BY BehindIsTheRest
<1>. HIDE DEF b
<1>2. /\ u \in Seq(S) /\ Len(u) = Len(s) + Len(b)
      /\ \A i \in 1 .. Len(s) + Len(b) :
            u[i] = IF i =< Len(s) THEN s[i] ELSE b[i - Len(s)]
    BY <1>1, ConcatProperties
<1>. HIDE DEF u
<1>3. ASSUME NEW i \in 1 .. Len(u) PROVE u[i] = t[i]
  <2>1. CASE i =< Len(s)
      BY <1>1, <1>2, <2>1
  <2>2. CASE i > Len(s)
    <3>1. i - Len(s) \in 1 .. Len(b) /\ Len(s) + (i - Len(s)) = i
        BY <1>1, <1>2, <2>2
    <3>2. u[i] = b[i - Len(s)]
        BY <1>1, <1>2, <2>2
    <3>. QED
        BY <1>1, <3>1, <3>2
  <2>. QED
      BY <1>1, <1>2, <2>1, <2>2
<1>4. Len(u) = Len(t)
    BY <1>1, <1>2
<1>5. u = t
    BY <1>2, <1>3, <1>4, SeqEqual
<1>. QED
    BY <1>5 DEF u, b

LEMMA BehindOfNothing ==
    ASSUME NEW S, NEW s \in Seq(S)
    PROVE  Behind(s, <<>>) = <<>>
BY DEF Behind

LEMMA FirstGroupIsFirst ==
    ASSUME NEW s \in Seq(Messages), s # <<>>
    PROVE  /\ FirstGroup(s) \in Seq(Messages)
           /\ Len(FirstGroup(s)) =< Len(s)
           /\ \A i \in 1 .. Len(FirstGroup(s)) : FirstGroup(s)[i] = s[i]
           /\ \A m, n \in Range(FirstGroup(s)) : Sender[m] = Sender[n]
<1>. DEFINE ends == {i \in 1 .. Len(s) :
                        i = Len(s) \/ Sender[s[i + 1]] # Sender[s[1]]}
            k == Min(ends)
            g == FirstGroup(s)
<1>1. Len(s) \in Nat \ {0}
    OBVIOUS
<1>2. k \in ends /\ \A i \in ends : k =< i
  <2>1. ends \subseteq Nat /\ Len(s) \in ends
      BY <1>1
  <2>. HIDE DEF ends
  <2>. QED
      BY <2>1, NonEmptyNatSetHasMin
<1>3. k \in 1 .. Len(s)
    BY <1>2
<1>4. \A i \in 1 .. k : Sender[s[i]] = Sender[s[1]]
  <2>. SUFFICES ASSUME NEW i \in 1 .. k, i # 1
                PROVE  Sender[s[i]] = Sender[s[1]]
      OBVIOUS
  <2>1. i - 1 \in 1 .. Len(s) /\ i - 1 < k /\ i - 1 # Len(s)
      BY <1>1, <1>3
  <2>2. i - 1 \notin ends
      BY <1>1, <1>2, <1>3, <2>1
  <2>3. Sender[s[(i - 1) + 1]] = Sender[s[1]]
      BY <2>1, <2>2
  <2>4. (i - 1) + 1 = i
      BY <1>3
  <2>. QED
      BY <2>3, <2>4
<1>5. g = SubSeq(s, 1, k)
    BY DEF FirstGroup
<1>. HIDE DEF k, ends, g
<1>6. /\ g \in Seq(Messages) /\ Len(g) = k
      /\ \A i \in 1 .. k : g[i] = s[i]
    BY <1>1, <1>3, <1>5
<1>7. \A m, n \in Range(g) : Sender[m] = Sender[n]
    BY <1>4, <1>6 DEF Range
<1>. QED
    BY <1>1, <1>3, <1>6, <1>7 DEF g

LEMMA TrimmedIsPart ==
    ASSUME NEW S, NEW s \in Seq(S), NEW n \in Nat
    PROVE  Trimmed(s, n) \in Seq(S) /\ Range(Trimmed(s, n)) \subseteq Range(s)
<1>1. CASE Len(s) > n
  <2>. DEFINE a == Len(s) - n + 1
              t == SubSeq(s, a, Len(s))
  <2>1. Trimmed(s, n) = t
      BY <1>1 DEF Trimmed, Newest
  <2>2. a \in 1 .. Len(s) + 1 /\ Len(s) \in Nat
      BY <1>1
  <2>. HIDE DEF a
  <2>3. /\ t \in Seq(S) /\ Len(t) = Len(s) - a + 1
        /\ \A i \in 1 .. Len(t) : t[i] = s[a + i - 1]
      BY <2>2
  <2>4. \A i \in 1 .. Len(t) : a + i - 1 \in 1 .. Len(s)
      BY <2>2, <2>3
  <2>. HIDE DEF t
  <2>. QED
      BY <2>1, <2>3, <2>4 DEF Range
<1>2. CASE ~(Len(s) > n)
    BY <1>2 DEF Trimmed
<1>. QED
    BY <1>1, <1>2

LEMMA OverflowIsFirst ==
    ASSUME NEW r \in QueueType, IsFull(r)
    PROVE  /\ Overflowing(r) \in Seq(Messages)
           /\ Overflowing(r) # <<>>
           /\ Len(Overflowing(r)) =< Len(r.items)
           /\ \A i \in 1 .. Len(Overflowing(r)) : Overflowing(r)[i] = r.items[i]
<1>. DEFINE n == Len(r.items) - r.cap + 1
<1>1. r.items \in Seq(Messages) /\ r.cap \in Nat \ {0}
    BY DEF QueueType
<1>2. n \in 1 .. Len(r.items) /\ Len(r.items) \in Nat
    BY <1>1 DEF IsFull
<1>3. Overflowing(r) = SubSeq(r.items, 1, n)
    BY DEF Overflowing
<1>. HIDE DEF n
<1>4. /\ Overflowing(r) \in Seq(Messages) /\ Len(Overflowing(r)) = n
      /\ \A i \in 1 .. n : Overflowing(r)[i] = r.items[i]
    BY <1>1, <1>2, <1>3
<1>. QED
    BY <1>2, <1>4

LEMMA RemovingAt ==
    ASSUME NEW S, NEW s \in Seq(S), NEW i \in 1 .. Len(s)
    PROVE  /\ RemoveAt(s, i) \in Seq(S)
           /\ Len(RemoveAt(s, i)) = Len(s) - 1
           /\ \A j \in 1 .. Len(s) - 1 :
                 RemoveAt(s, i)[j] = s[IF j < i THEN j ELSE j + 1]
<1>. DEFINE a == SubSeq(s, 1, i - 1)
            b == SubSeq(s, i + 1, Len(s))
<1>1. /\ a \in Seq(S) /\ Len(a) = i - 1 /\ \A j \in 1 .. i - 1 : a[j] = s[j]
      /\ b \in Seq(S) /\ Len(b) = Len(s) - i
      /\ \A j \in 1 .. Len(b) : b[j] = s[i + j]
      /\ Len(s) \in Nat
    BY SMTT(20)
<1>2. RemoveAt(s, i) = a \o b
    BY DEF RemoveAt
<1>. HIDE DEF a, b
<1>3. ASSUME NEW j \in 1 .. Len(s) - 1
      PROVE  (a \o b)[j] = s[IF j < i THEN j ELSE j + 1]
  <2>1. CASE j < i
      BY <1>1, <2>1
  <2>2. CASE ~(j < i)
    <3>. DEFINE k == j - Len(a)
    <3>1. k \in 1 .. Len(b) /\ j = Len(a) + k
        BY <1>1, <2>2
    <3>2. (a \o b)[j] = b[k] /\ b[k] = s[i + k] /\ i + k = j + 1
        BY <1>1, <3>1
    <3>. QED
        BY <2>2, <3>2
  <2>. QED
      BY <2>1, <2>2
<1>4. a \o b \in Seq(S) /\ Len(a \o b) = Len(a) + Len(b)
    BY <1>1, ConcatProperties
<1>5. Len(a) + Len(b) = Len(s) - 1
    BY <1>1
<1>. QED
    BY <1>2, <1>3, <1>4, <1>5

-----------------------------------------------------------------------------
(***************************************************************************)
(* Types.                                                                  *)
(***************************************************************************)

LEMMA BlankOnes ==
    /\ Unused \in QueueType /\ Unused.items = <<>> /\ Unused.dropped = 0
    /\ Unused.lines = <<>> /\ Unused.sources = <<>> /\ ~Pending(Unused)
    /\ NoSummary \in SummaryType
    /\ DrainTyped(NoDrain) /\ NoDrain.pc = "off"
    /\ NoDrain.batch = <<>> /\ NoDrain.rest = <<>>
    /\ DrainTyped(BeginSweep) /\ BeginSweep.pc = "sweep"
    /\ BeginSweep.batch = <<>> /\ BeginSweep.rest = <<>>
<1>1. NoSummary \in SummaryType
    BY DEF NoSummary, SummaryType
<1>2. NoDrain \in DrainType
    BY <1>1 DEF NoDrain, DrainType
<1>3. BeginSweep \in DrainType
    BY <1>2 DEF BeginSweep, DrainType
<1>4. /\ NoDrain.pc = "off" /\ NoDrain.batch = <<>> /\ NoDrain.rest = <<>>
      /\ BeginSweep.pc = "sweep" /\ BeginSweep.batch = <<>>
      /\ BeginSweep.rest = <<>>
    BY DEF NoDrain, BeginSweep
<1>5. /\ Unused \in QueueType /\ Unused.items = <<>> /\ Unused.dropped = 0
      /\ Unused.lines = <<>> /\ Unused.sources = <<>>
    BY DEF Unused, QueueFor, QueueType
<1>6. DrainTyped(NoDrain) /\ DrainTyped(BeginSweep)
    BY <1>2, <1>3, <1>4 DEF DrainTyped, Busy
<1>7. ~Pending(Unused)
    BY <1>5 DEF Pending
<1>. QED
    BY <1>1, <1>4, <1>5, <1>6, <1>7

\* The registry comes to be e, qs, ds, unless a drain is scheduled as well.
Settle(e, qs, ds) ==
    \/ ScheduleDrain(e, qs, ds)
    \/ entry' = e /\ queue' = qs /\ drain' = ds

LEMMA Settling ==
    ASSUME NEW e, NEW qs, NEW ds, RegistryTyped(e, qs, ds), Settle(e, qs, ds)
    PROVE  /\ RegistryTyped(entry', queue', drain')
           /\ \A y \in Queues :
                 \/ drain'[y] = ds[y]
                 \/ ds[y] = NoDrain /\ drain'[y] = BeginSweep
           /\ \/ entry' = e /\ queue' = qs
              \/ /\ e \in Queues /\ ds[e] = NoDrain /\ ~Pending(qs[e])
                 /\ entry' = NoQueue /\ drain' = ds
                 /\ queue' = [qs EXCEPT ![e] = Unused]
<1>1. CASE entry' = e /\ queue' = qs /\ drain' = ds
    BY <1>1
<1>2. CASE ScheduleDrain(e, qs, ds)
  <2>1. CASE e # NoQueue /\ ds[e].pc = "off" /\ ~Pending(qs[e])
    <3>1. /\ entry' = NoQueue /\ drain' = ds
          /\ queue' = [qs EXCEPT ![e] = Unused]
        BY <1>2, <2>1 DEF ScheduleDrain
    <3>2. e \in Queues /\ ds[e] = NoDrain
        BY <2>1 DEF RegistryTyped, DrainTyped
    <3>3. RegistryTyped(entry', queue', drain')
        BY <3>1, <3>2, BlankOnes DEF RegistryTyped
    <3>. QED
        BY <2>1, <3>1, <3>2, <3>3
  <2>2. CASE ~(e # NoQueue /\ ds[e].pc = "off" /\ ~Pending(qs[e]))
    <3>1. /\ entry' = e /\ queue' = qs
          /\ drain' = IF e # NoQueue /\ ds[e].pc = "off"
                      THEN [ds EXCEPT ![e] = BeginSweep] ELSE ds
        BY <1>2, <2>2 DEF ScheduleDrain
    <3>2. CASE e # NoQueue /\ ds[e].pc = "off"
      <4>1. e \in Queues /\ ds[e] = NoDrain
          BY <3>2 DEF RegistryTyped, DrainTyped
      <4>2. /\ drain' \in [Queues -> DrainType]
            /\ \A y \in Queues :
                  drain'[y] = IF y = e THEN BeginSweep ELSE ds[y]
          BY <3>1, <3>2, <4>1, BlankOnes DEF RegistryTyped, DrainTyped
      <4>3. RegistryTyped(entry', queue', drain')
          BY <3>1, <4>2, BlankOnes DEF RegistryTyped
      <4>. QED
          BY <3>1, <4>1, <4>2, <4>3
    <3>. QED
        BY <3>1, <3>2
  <2>. QED
      BY <2>1, <2>2
<1>. QED
    BY <1>1, <1>2 DEF Settle

\* The drain of q, and the object it runs over, come to be d and x.
Moves(q, x, d) ==
    /\ x \in QueueType /\ DrainTyped(d) /\ DropsAreAborted(d)
    /\ d.pc = "off" => entry = q \/ x = Unused
    /\ Settle(entry, [queue EXCEPT ![q] = x], [drain EXCEPT ![q] = d])

\* What a drain that ends leaves of r: nothing when the object is no longer
\* registered.
Left(q, x, r) == x = r \/ (entry # q /\ x = Unused)

LEMMA MovesStart ==
    ASSUME TypeInv, NEW q \in Queues, NEW x, NEW d, Moves(q, x, d)
    PROVE  RegistryTyped(entry, [queue EXCEPT ![q] = x],
                         [drain EXCEPT ![q] = d])
BY DEF TypeInv, RegistryTyped, Moves, DrainTyped

LEMMA MovesKeepTypes ==
    ASSUME TypeInv, NEW q \in Queues, NEW x, NEW d, Moves(q, x, d),
           aborted' = aborted
    PROVE  /\ RegistryTyped(entry, queue, drain)'
           /\ \A y \in Queues : DropsAreAborted(drain[y])'
           /\ \A y \in Queues :
                 \/ drain'[y] = IF y = q THEN d ELSE drain[y]
                 \/ drain'[y] = BeginSweep
<1>. DEFINE qs == [queue EXCEPT ![q] = x]
            ds == [drain EXCEPT ![q] = d]
<1>1. RegistryTyped(entry, qs, ds) /\ Settle(entry, qs, ds)
    BY MovesStart DEF Moves
<1>2. \A y \in Queues : ds[y] = IF y = q THEN d ELSE drain[y]
    BY DEF TypeInv, RegistryTyped
<1>. HIDE DEF qs, ds
<1>3. /\ RegistryTyped(entry', queue', drain')
      /\ \A y \in Queues : drain'[y] = ds[y] \/ drain'[y] = BeginSweep
    BY <1>1, Settling
<1>4. RegistryTyped(entry, queue, drain)'
    BY <1>3 DEF RegistryTyped
<1>5. ASSUME NEW y \in Queues PROVE DropsAreAborted(drain[y])'
  <2>1. CASE drain'[y] = BeginSweep
      BY <2>1, BlankOnes DEF DropsAreAborted
  <2>2. CASE drain'[y] = ds[y]
      BY <1>2, <2>2 DEF DropsAreAborted, Moves, TypeInv
  <2>. QED
      BY <1>3, <2>1, <2>2
<1>. QED
    BY <1>2, <1>3, <1>4, <1>5

LEMMA FinishMoves ==
    ASSUME TypeInv, NEW q \in Queues, NEW r \in QueueType, FinishDrain(q, r)
    PROVE  Moves(q, IF entry = q THEN r ELSE Unused, NoDrain)
<1>. DEFINE x == IF entry = q THEN r ELSE Unused
            qs == [queue EXCEPT ![q] = x]
            ds == [drain EXCEPT ![q] = NoDrain]
<1>1. x \in QueueType /\ DrainTyped(NoDrain) /\ DropsAreAborted(NoDrain)
    BY BlankOnes DEF DropsAreAborted
<1>2. queue \in [Queues -> QueueType] /\ drain \in [Queues -> DrainType]
    BY DEF TypeInv, RegistryTyped
<1>3. ASSUME Pending(r) PROVE Settle(entry, qs, ds)
    BY <1>3 DEF FinishDrain, Settle
<1>4. ASSUME ~Pending(r), entry # q PROVE Settle(entry, qs, ds)
    BY <1>4 DEF FinishDrain, Settle
<1>5. ASSUME ~Pending(r), entry = q PROVE Settle(entry, qs, ds)
  <2>1. /\ entry' = NoQueue /\ drain' = ds
        /\ queue' = [queue EXCEPT ![q] = Unused]
      BY <1>5 DEF FinishDrain
  <2>2. queue' = [qs EXCEPT ![entry] = Unused]
      BY <1>2, <1>5, <2>1
  <2>3. entry # NoQueue /\ ds[entry].pc = "off" /\ ~Pending(qs[entry])
      BY <1>2, <1>5, BlankOnes, BoundsAssumption
  <2>. QED
      BY <2>1, <2>2, <2>3 DEF ScheduleDrain, Settle
<1>6. NoDrain.pc = "off" => entry = q \/ x = Unused
    OBVIOUS
<1>. QED
    BY <1>1, <1>3, <1>4, <1>5, <1>6 DEF Moves

\* The operators on queue objects keep their type.
LEMMA QueueTypes ==
    ASSUME NEW r \in QueueType
    PROVE  /\ r.items \in Seq(Messages) /\ r.cap \in Nat \ {0}
           /\ r.dropped \in Nat
           /\ r.lines \in Seq(Messages) /\ r.sources \in Seq(Messages)
           /\ \A s \in Settings : WithSettings(r, s) \in QueueType
           /\ \A s \in Settings : QueueFor(s) \in QueueType
           /\ \A s \in Seq(Messages) : [r EXCEPT !.items = s] \in QueueType
           /\ ClearSummary(r) \in QueueType
           /\ Summary(r) \in SummaryType
           /\ \A s \in SummaryType : Restore(r, s) \in QueueType
<1>1. /\ r.items \in Seq(Messages) /\ r.cap \in Nat \ {0}
      /\ r.dropped \in Nat
      /\ r.lines \in Seq(Messages) /\ r.sources \in Seq(Messages)
    BY DEF QueueType
<1>2. ASSUME NEW s \in Settings
      PROVE  WithSettings(r, s) \in QueueType /\ QueueFor(s) \in QueueType
  <2>1. /\ s.mode \in {"followup", "collect"} /\ s.cap \in Nat \ {0}
        /\ s.drop \in {"summarize", "old", "new"}
      BY SettingsAssumption
  <2>2. WithSettings(r, s) \in QueueType
      BY <2>1 DEF WithSettings, QueueType
  <2>3. QueueFor(s) \in QueueType
      BY <2>1 DEF QueueFor, QueueType
  <2>. QED
      BY <2>2, <2>3
<1>3. \A s \in Seq(Messages) : [r EXCEPT !.items = s] \in QueueType
    BY DEF QueueType
<1>4. ClearSummary(r) \in QueueType
  <2>1. <<>> \in Seq(Messages) /\ 0 \in Nat
      OBVIOUS
  <2>2. \A n \in Nat, l, s \in Seq(Messages) :
            [r EXCEPT !.dropped = n, !.lines = l, !.sources = s] \in QueueType
      BY DEF QueueType
  <2>. QED
      BY <2>1, <2>2 DEF ClearSummary
<1>5. Summary(r) \in SummaryType
    BY <1>1, BlankOnes DEF Summary, SummaryType
<1>6. ASSUME NEW s \in SummaryType PROVE Restore(r, s) \in QueueType
  <2>1. /\ s.dropped \in Nat /\ s.lines \in Seq(Messages)
        /\ s.lines \o r.lines \in Seq(Messages)
      BY <1>1, ConcatProperties DEF SummaryType
  <2>2. \A n \in Nat, l \in Seq(Messages) :
            [r EXCEPT !.dropped = n, !.lines = l] \in QueueType
      BY DEF QueueType
  <2>3. (IF r.dropped >= s.dropped THEN r.dropped ELSE r.dropped + s.dropped)
            \in Nat
      BY <1>1, <2>1
  <2>. QED
      BY <2>1, <2>2, <2>3 DEF Restore
<1>. QED
    BY <1>1, <1>2, <1>3, <1>4, <1>5, <1>6

LEMMA AfterDropTypes ==
    ASSUME NEW r \in QueueType, IsFull(r)
    PROVE  AfterDrop(r) \in QueueType
<1>. DEFINE o == Overflowing(r)
            kept == Behind(o, r.items)
            lines == Trimmed(r.lines \o o, r.cap)
            sources == Trimmed(r.sources \o o, Len(lines))
<1>1. /\ o \in Seq(Messages) /\ kept \in Seq(Messages)
      /\ r.dropped + Len(o) \in Nat
  <2>1. /\ o \in Seq(Messages) /\ Len(o) =< Len(r.items)
        /\ \A i \in 1 .. Len(o) : o[i] = r.items[i]
      BY OverflowIsFirst
  <2>2. r.items \in Seq(Messages) /\ r.dropped \in Nat /\ Len(o) \in Nat
      BY <2>1, QueueTypes
  <2>. HIDE DEF o
  <2>. QED
      BY <2>1, <2>2, BehindIsTheRest
<1>2. lines \in Seq(Messages)
    BY <1>1, QueueTypes, ConcatProperties, TrimmedIsPart
<1>3. sources \in Seq(Messages)
  <2>1. Len(lines) \in Nat
      BY <1>2
  <2>. HIDE DEF lines
  <2>. QED
      BY <1>1, <2>1, QueueTypes, ConcatProperties, TrimmedIsPart
<1>4. \A i, l, s \in Seq(Messages), n \in Nat :
         /\ [r EXCEPT !.items = i] \in QueueType
         /\ [r EXCEPT !.items = i, !.dropped = n, !.lines = l, !.sources = s]
               \in QueueType
    BY DEF QueueType
<1>. QED
    BY <1>1, <1>2, <1>3, <1>4 DEF AfterDrop

-----------------------------------------------------------------------------
(***************************************************************************)
(* The steps of a drain, as moves.                                         *)
(***************************************************************************)

Quiet(d) == d.pc \in {"off", "sweep", "debounce"}

\* The drain d is about to run a batch of r.
Batched(r, d) ==
    /\ d.pc = "admission"
    /\ d.summaryOnly = (r.mode # "collect" /\ d.summary # NoSummary)
    /\ \/ /\ r.items = <<>> /\ r.mode = "collect"
          /\ d.batch = <<>> /\ d.rest = <<>> /\ d.summary = Summary(r)
       \/ /\ r.items # <<>> /\ r.mode = "collect" /\ ~IsCrossChannel(r.items)
          /\ d.batch = FirstGroup(r.items)
          /\ d.rest = Behind(FirstGroup(r.items), r.items)
          /\ d.summary = Summary(r)
       \/ /\ r.items # <<>>
          /\ d.batch = <<Head(r.items)>> /\ d.rest = <<>>
          /\ d.summary = IF r.mode = "collect" THEN NoSummary ELSE Summary(r)

LEMMA NextBatchMoves ==
    ASSUME TypeInv, NEW q \in Queues, NEW r \in QueueType, NextBatch(q, r)
    PROVE  \E x, d : /\ Moves(q, x, d)
                     /\ \/ Left(q, x, r) /\ d = NoDrain
                        \/ x = r /\ Batched(r, d)
<1>. DEFINE RunOf(f, b, s, u, o) ==
                [NoDrain EXCEPT !.pc = "admission", !.force = f, !.batch = b,
                                !.rest = s, !.summary = u, !.summaryOnly = o]
            Runs(f, b, s, u, o) ==
                /\ drain' = [drain EXCEPT ![q] = RunOf(f, b, s, u, o)]
                /\ queue' = [queue EXCEPT ![q] = r]
                /\ UNCHANGED entry
<1>1. CASE FinishDrain(q, r)
    BY <1>1, FinishMoves DEF Left
<1>2. ASSUME NEW f \in BOOLEAN, NEW b \in Seq(Messages),
             NEW s \in Seq(Messages), NEW u \in SummaryType,
             NEW o \in BOOLEAN, Runs(f, b, s, u, o)
      PROVE  Moves(q, r, RunOf(f, b, s, u, o))
  <2>. DEFINE d == RunOf(f, b, s, u, o)
  <2>1. d \in DrainType /\ d.pc = "admission"
      BY ZenonT(30), BlankOnes DEF DrainTyped, DrainType, NoDrain
  <2>2. DrainTyped(d) /\ DropsAreAborted(d)
      BY <2>1 DEF DrainTyped, DropsAreAborted, Busy
  <2>3. Settle(entry, [queue EXCEPT ![q] = r], [drain EXCEPT ![q] = d])
      BY <1>2 DEF Settle
  <2>. QED
      BY <2>1, <2>2, <2>3 DEF Moves
<1>3. /\ r.items \in Seq(Messages) /\ Summary(r) \in SummaryType
      /\ drain[q].force \in BOOLEAN /\ r.mode \in {"followup", "collect"}
    BY QueueTypes DEF TypeInv, RegistryTyped, DrainType, QueueType
<1>. DEFINE cross == IsCrossChannel(r.items)
            force == cross \/ (drain[q].force /\ Len(r.items) =< 1)
            g == IF r.mode = "collect" THEN force ELSE drain[q].force
<1>4. force \in BOOLEAN /\ g \in BOOLEAN
    BY <1>3 DEF IsCrossChannel
<1>5. CASE r.items = <<>> /\ r.mode = "collect" /\ Summary(r) # NoSummary
  <2>1. Runs(g, <<>>, <<>>, Summary(r), FALSE)
      BY <1>5 DEF NextBatch
  <2>2. Moves(q, r, RunOf(g, <<>>, <<>>, Summary(r), FALSE))
    <3>1. <<>> \in Seq(Messages) /\ FALSE \in BOOLEAN
        OBVIOUS
    <3>. HIDE DEF RunOf, Runs, g
    <3>. QED
        BY <1>2, <1>3, <1>4, <2>1, <3>1
  <2>3. Batched(r, RunOf(g, <<>>, <<>>, Summary(r), FALSE))
      BY <1>5 DEF Batched, NoDrain
  <2>. QED
      BY <2>2, <2>3
<1>6. CASE r.items # <<>> /\ r.mode = "collect" /\ ~force
  <2>. DEFINE b == FirstGroup(r.items)
              s == Behind(b, r.items)
  <2>1. Runs(g, b, s, Summary(r), FALSE)
      BY <1>6 DEF NextBatch
  <2>2. b \in Seq(Messages) /\ s \in Seq(Messages)
    <3>1. /\ b \in Seq(Messages) /\ Len(b) =< Len(r.items)
          /\ \A i \in 1 .. Len(b) : b[i] = r.items[i]
        BY <1>3, <1>6, FirstGroupIsFirst
    <3>. HIDE DEF b
    <3>. QED
        BY <1>3, <3>1, BehindIsTheRest
  <2>3. Moves(q, r, RunOf(g, b, s, Summary(r), FALSE))
      BY <1>2, <1>3, <1>4, <2>1, <2>2
  <2>4. Batched(r, RunOf(g, b, s, Summary(r), FALSE))
      BY <1>6 DEF Batched, NoDrain
  <2>. QED
      BY <2>3, <2>4
<1>7. CASE r.items # <<>> /\ ~(r.mode = "collect" /\ ~force)
  <2>. DEFINE b == <<Head(r.items)>>
              u == IF r.mode = "collect" THEN NoSummary ELSE Summary(r)
              o == r.mode # "collect" /\ u # NoSummary
  <2>1. Runs(g, b, <<>>, u, o)
      BY <1>7 DEF NextBatch
  <2>2. b \in Seq(Messages) /\ u \in SummaryType /\ o \in BOOLEAN
      BY <1>3, <1>7, BlankOnes
  <2>3. Moves(q, r, RunOf(g, b, <<>>, u, o))
    <3>1. <<>> \in Seq(Messages)
        OBVIOUS
    <3>. HIDE DEF RunOf, Runs, g, b, u, o
    <3>. QED
        BY <1>2, <1>4, <2>1, <2>2, <3>1
  <2>4. Batched(r, RunOf(g, b, <<>>, u, o))
      BY <1>7 DEF Batched, NoDrain
  <2>. QED
      BY <2>3, <2>4
<1>. QED
    BY <1>1, <1>5, <1>6, <1>7 DEF NextBatch

\* The drain d is about to drop an aborted message of r.
Drops(r, d) ==
    /\ d.pc = "dropping" /\ d.rest = <<>>
    /\ d.at \in 1 .. Len(r.items) /\ d.batch = <<r.items[d.at]>>

LEMMA SweepMoves ==
    ASSUME TypeInv, NEW q \in Queues, Sweep(q)
    PROVE  \/ /\ UNCHANGED <<completed, fate>>
              /\ \E x, d : /\ Moves(q, x, d)
                           /\ \/ Left(q, x, queue[q]) /\ Quiet(d)
                              \/ x = queue[q] /\ Batched(queue[q], d)
                              \/ x = queue[q] /\ Drops(queue[q], d)
           \/ /\ queue[q].items = <<>>
              /\ \E x : /\ Moves(q, x, NoDrain)
                        /\ Left(q, x, ClearSummary(queue[q]))
              /\ completed' = completed
                                \cup (Range(queue[q].sources) \cap fenced)
              /\ fate' = [m \in Messages |->
                            IF fate[m] = "summarising"
                               /\ m \in Range(queue[q].lines)
                            THEN "dropped" ELSE fate[m]]
<1>. DEFINE d == drain[q]
            r == queue[q]
            at == IF d.at = FromTheEnd THEN Len(r.items) ELSE d.at
            hits == {i \in 1 .. at :
                        i =< Len(r.items) /\ r.items[i] \in aborted}
            emptied == d.swept /\ r.items = <<>>
            swept == IF emptied THEN ClearSummary(r) ELSE r
<1>1. /\ r \in QueueType /\ d \in DrainType /\ DrainTyped(d)
      /\ fate \in [Messages -> Fates]
    BY DEF TypeInv, RegistryTyped, OthersTyped
<1>2. /\ r.items \in Seq(Messages) /\ at \in Nat /\ d.pc = "sweep"
      /\ Len(r.items) \in Nat
      /\ d.swept \in BOOLEAN /\ d.force \in BOOLEAN
  <2>1. r.items \in Seq(Messages) /\ Len(r.items) \in Nat
      BY <1>1, QueueTypes
  <2>. QED
      BY <1>1, <2>1 DEF Sweep, DrainType
<1>. DEFINE Ended == FinishDrain(q, r) /\ UNCHANGED <<completed, fate>>
            Found == LET i == CHOOSE i \in hits : \A j \in hits : j =< i
                     IN  /\ drain' = [drain EXCEPT ![q].pc = "dropping",
                                                  ![q].at = i,
                                                  ![q].batch = <<r.items[i]>>]
                         /\ UNCHANGED <<entry, queue, completed, fate>>
            Through ==
                /\ IF ~Pending(swept) THEN FinishDrain(q, swept)
                   ELSE IF d.again THEN NextBatch(q, swept)
                   ELSE /\ queue' = [queue EXCEPT ![q] = swept]
                        /\ drain' = [drain EXCEPT ![q] =
                              [NoDrain EXCEPT !.pc = "debounce",
                                              !.force = d.force]]
                        /\ UNCHANGED entry
                /\ completed' = IF emptied
                                THEN completed
                                           \cup (Range(r.sources) \cap fenced)
                                ELSE completed
                /\ fate' = [m \in Messages |->
                              IF emptied /\ fate[m] = "summarising"
                                 /\ m \in Range(r.lines)
                              THEN "dropped" ELSE fate[m]]
<1>6. \/ at > Len(r.items) /\ Ended
      \/ at =< Len(r.items) /\ hits # {} /\ Found
      \/ at =< Len(r.items) /\ hits = {} /\ Through
    BY DEF Sweep
<1>3. CASE at > Len(r.items) /\ Ended
  <2>1. FinishDrain(q, r) /\ UNCHANGED <<completed, fate>>
      BY <1>3
  <2>. QED
      BY <1>1, <2>1, FinishMoves, BlankOnes DEF Left, Quiet
<1>4. CASE at =< Len(r.items) /\ hits # {} /\ Found
  <2>. DEFINE i == CHOOSE i \in hits : \A j \in hits : j =< i
              e == [d EXCEPT !.pc = "dropping", !.at = i,
                             !.batch = <<r.items[i]>>]
  <2>1. /\ drain' = [drain EXCEPT ![q].pc = "dropping", ![q].at = i,
                                  ![q].batch = <<r.items[i]>>]
        /\ UNCHANGED <<entry, queue, completed, fate>>
      BY <1>4
  <2>2. i \in hits
    <3>1. hits \subseteq 1 .. at
        OBVIOUS
    <3>2. \E x \in hits : \A j \in hits : j =< x
      <4>. HIDE DEF hits, at
      <4>. QED
          BY <1>2, <1>4, <3>1, BoundedSetHasMax
    <3>. HIDE DEF hits
    <3>. QED
        BY <3>2
  <2>. HIDE DEF i
  <2>3. i \in 1 .. Len(r.items) /\ r.items[i] \in aborted /\ i \in Nat \ {0}
      BY <1>2, <2>2
  <2>4. e \in DrainType /\ <<r.items[i]>> \in Seq(Messages)
    <3>1. <<r.items[i]>> \in Seq(Messages)
        BY <1>2, <2>3
    <3>. QED
        BY <1>1, <2>3, <3>1 DEF DrainType
  <2>5. /\ e.pc = "dropping" /\ e.rest = <<>> /\ e.at = i
        /\ e.batch = <<r.items[i]>>
      BY <1>1, <1>2 DEF DrainTyped, DrainType, Busy
  <2>6. DrainTyped(e) /\ DropsAreAborted(e) /\ Drops(r, e)
      BY <2>3, <2>4, <2>5 DEF DrainTyped, DropsAreAborted, Drops, Busy, Range
  <2>7. /\ queue' = [queue EXCEPT ![q] = r] /\ entry' = entry
        /\ drain' = [drain EXCEPT ![q] = e]
      BY <2>1 DEF TypeInv, RegistryTyped
  <2>8. Moves(q, r, e)
      BY <1>1, <2>5, <2>6, <2>7 DEF Moves, Settle
  <2>. QED
      BY <2>1, <2>6, <2>8
<1>5. CASE at =< Len(r.items) /\ hits = {} /\ Through
  <2>1. Through
      BY <1>5
  <2>2. CASE emptied
    <3>1. swept \in QueueType /\ ~Pending(swept)
      <4>1. swept = ClearSummary(r) /\ ClearSummary(r) \in QueueType
          BY <1>1, <2>2, QueueTypes
      <4>2. ClearSummary(r).items = <<>> /\ ClearSummary(r).dropped = 0
          BY <1>1, <2>2 DEF ClearSummary, QueueType
      <4>. QED
          BY <4>1, <4>2 DEF Pending
    <3>2. FinishDrain(q, swept)
        BY <2>1, <3>1
    <3>3. \E x : Moves(q, x, NoDrain) /\ Left(q, x, ClearSummary(r))
        BY <2>2, <3>1, <3>2, FinishMoves DEF Left
    <3>. QED
        BY <2>1, <2>2, <3>3
  <2>3. CASE ~emptied
    <3>1. completed' = completed /\ fate' = fate
        BY <1>1, <2>1, <2>3
    <3>2. CASE ~Pending(r)
      <4>1. FinishDrain(q, r)
          BY <2>1, <2>3, <3>2
      <4>. QED
          BY <1>1, <3>1, <4>1, FinishMoves, BlankOnes DEF Left, Quiet
    <3>3. CASE Pending(r) /\ d.again
      <4>1. NextBatch(q, r)
          BY <2>1, <2>3, <3>3
      <4>2. PICK x, e : /\ Moves(q, x, e)
                        /\ \/ Left(q, x, r) /\ e = NoDrain
                           \/ x = r /\ Batched(r, e)
          BY <1>1, <4>1, NextBatchMoves
      <4>. QED
          BY <3>1, <4>2, BlankOnes DEF Quiet
    <3>4. CASE Pending(r) /\ ~d.again
      <4>. DEFINE e == [NoDrain EXCEPT !.pc = "debounce", !.force = d.force]
      <4>1. /\ queue' = [queue EXCEPT ![q] = r]
            /\ drain' = [drain EXCEPT ![q] = e] /\ entry' = entry
          BY <2>1, <2>3, <3>4
      <4>2. e \in DrainType /\ e.pc = "debounce"
          BY <1>2, BlankOnes DEF DrainTyped, DrainType, NoDrain
      <4>3. DrainTyped(e) /\ DropsAreAborted(e) /\ Quiet(e)
          BY <4>2 DEF DrainTyped, DropsAreAborted, Quiet, Busy, NoDrain
      <4>4. Moves(q, r, e)
          BY <1>1, <4>1, <4>2, <4>3 DEF Moves, Settle
      <4>. QED
          BY <3>1, <4>3, <4>4 DEF Left
    <3>. QED
        BY <3>2, <3>3, <3>4
  <2>. QED
      BY <2>2, <2>3
<1>. QED
    BY <1>3, <1>4, <1>5, <1>6

LEMMA DropMoves ==
    ASSUME TypeInv, NEW q \in Queues, DropAborted(q)
    PROVE  \E x, d :
              /\ Moves(q, x, d) /\ Quiet(d)
              /\ x = [queue[q] EXCEPT !.items =
                        IF drain[q].at =< Len(@) THEN RemoveAt(@, drain[q].at)
                        ELSE @]
<1>. DEFINE r == queue[q]
            d == drain[q]
            items == IF d.at =< Len(r.items) THEN RemoveAt(r.items, d.at)
                     ELSE r.items
            x == [r EXCEPT !.items = items]
            e == [d EXCEPT !.pc = "sweep", !.at = d.at - 1, !.swept = TRUE,
                           !.batch = <<>>]
<1>1. /\ r \in QueueType /\ d \in DrainType /\ d.pc = "dropping"
      /\ d.at \in Nat \ {0} /\ d.rest = <<>> /\ r.items \in Seq(Messages)
      /\ Len(r.items) \in Nat
  <2>1. r \in QueueType /\ DrainTyped(d) /\ d.pc = "dropping"
      BY DEF TypeInv, RegistryTyped, DropAborted
  <2>2. r.items \in Seq(Messages) /\ Len(r.items) \in Nat
      BY <2>1, QueueTypes
  <2>. QED
      BY <2>1, <2>2 DEF DrainTyped, Busy
<1>2. items \in Seq(Messages)
  <2>1. CASE d.at =< Len(r.items)
    <3>1. d.at \in 1 .. Len(r.items)
        BY <1>1, <2>1
    <3>. QED
        BY <1>1, <2>1, <3>1, RemovingAt
  <2>. QED
      BY <1>1, <2>1
<1>3. x \in QueueType
    BY <1>1, <1>2, QueueTypes
<1>4. e \in DrainType /\ e.pc = "sweep" /\ e.batch = <<>> /\ e.rest = <<>>
  <2>1. d.at - 1 \in Nat /\ <<>> \in Seq(Messages)
      BY <1>1
  <2>. QED
      BY <1>1, <2>1 DEF DrainType
<1>5. DrainTyped(e) /\ DropsAreAborted(e) /\ Quiet(e)
    BY <1>4 DEF DrainTyped, DropsAreAborted, Quiet, Busy
<1>6. /\ queue' = [queue EXCEPT ![q] = x] /\ entry' = entry
      /\ drain' = [drain EXCEPT ![q] = e]
    BY DEF DropAborted, TypeInv, RegistryTyped
<1>. QED
    BY <1>3, <1>4, <1>5, <1>6 DEF Moves, Settle

LEMMA DebounceMoves ==
    ASSUME TypeInv, NEW q \in Queues, WaitForQueueDebounce(q)
    PROVE  \E d : Moves(q, queue[q], d) /\ Quiet(d)
<1>. DEFINE e == [BeginSweep EXCEPT !.again = TRUE, !.force = drain[q].force]
<1>1. /\ queue[q] \in QueueType /\ drain[q].force \in BOOLEAN
      /\ queue' = [queue EXCEPT ![q] = queue[q]] /\ entry' = entry
      /\ drain' = [drain EXCEPT ![q] = e]
    BY DEF TypeInv, RegistryTyped, WaitForQueueDebounce, DrainType
<1>2. e \in DrainType /\ e.pc = "sweep" /\ e.batch = <<>> /\ e.rest = <<>>
    BY <1>1, BlankOnes DEF DrainTyped, DrainType
<1>3. DrainTyped(e) /\ DropsAreAborted(e) /\ Quiet(e)
    BY <1>2 DEF DrainTyped, DropsAreAborted, Quiet, Busy
<1>. QED
    BY <1>1, <1>2, <1>3 DEF Moves, Settle

LEMMA AdmitMoves ==
    ASSUME TypeInv, NEW q \in Queues, AdmitReplyTurn(q)
    PROVE  Moves(q, queue[q], [drain[q] EXCEPT !.pc = "running"])
<1>. DEFINE e == [drain[q] EXCEPT !.pc = "running"]
<1>1. /\ queue[q] \in QueueType /\ drain[q] \in DrainType
      /\ queue' = [queue EXCEPT ![q] = queue[q]] /\ entry' = entry
      /\ drain' = [drain EXCEPT ![q] = e]
    BY DEF TypeInv, RegistryTyped, AdmitReplyTurn
<1>2. e \in DrainType /\ e.pc = "running"
    BY <1>1 DEF DrainType
<1>3. DrainTyped(e) /\ DropsAreAborted(e)
    BY <1>2 DEF DrainTyped, DropsAreAborted, Busy
<1>. QED
    BY <1>1, <1>2, <1>3 DEF Moves, Settle

LEMMA DeferMoves ==
    ASSUME TypeInv, NEW q \in Queues, DeferRun(q)
    PROVE  Moves(q, IF entry = q THEN Restore(queue[q], drain[q].summary)
                    ELSE Unused, NoDrain)
<1>1. queue[q] \in QueueType /\ drain[q].summary \in SummaryType
    BY DEF TypeInv, RegistryTyped, DrainType
<1>2. Restore(queue[q], drain[q].summary) \in QueueType
    BY <1>1, QueueTypes
<1>. QED
    BY <1>2, FinishMoves DEF DeferRun

LEMMA AfterRunTypes ==
    ASSUME TypeInv, NEW q \in Queues
    PROVE  /\ AfterRun(q) \in QueueType
           /\ AfterRun(q).items = Behind(drain[q].batch, queue[q].items)
           /\ drain[q].summary = NoSummary =>
                 /\ AfterRun(q).dropped = queue[q].dropped
                 /\ AfterRun(q).lines = queue[q].lines
                 /\ AfterRun(q).sources = queue[q].sources
           /\ drain[q].summary # NoSummary =>
                 /\ AfterRun(q).dropped = 0
                 /\ AfterRun(q).lines = <<>> /\ AfterRun(q).sources = <<>>
           /\ AfterRun(q).mode = queue[q].mode
           /\ AfterRun(q).drop = queue[q].drop
<1>. DEFINE r == queue[q]
            b == Behind(drain[q].batch, r.items)
            x == [r EXCEPT !.items = b]
<1>1. r \in QueueType /\ r.items \in Seq(Messages)
      /\ drain[q].batch \in Seq(Messages)
    BY QueueTypes DEF TypeInv, RegistryTyped, DrainType
<1>2. b \in Seq(Messages)
  <2>1. \A s, t \in Seq(Messages) : SubSeq(t, Len(s) + 1, Len(t))
                                       \in Seq(Messages)
      OBVIOUS
  <2>. QED
      BY <1>1, <2>1 DEF Behind
<1>. HIDE DEF b
<1>3. x \in QueueType
    BY <1>1, <1>2, QueueTypes
<1>4. /\ x.items = b /\ x.dropped = r.dropped /\ x.lines = r.lines
      /\ x.sources = r.sources /\ x.mode = r.mode /\ x.drop = r.drop
    BY <1>1 DEF QueueType
<1>5. /\ ClearSummary(x) \in QueueType /\ ClearSummary(x).items = b
      /\ ClearSummary(x).dropped = 0 /\ ClearSummary(x).lines = <<>>
      /\ ClearSummary(x).sources = <<>> /\ ClearSummary(x).mode = r.mode
      /\ ClearSummary(x).drop = r.drop
  <2>1. ClearSummary(x) \in QueueType
      BY <1>3, QueueTypes
  <2>. HIDE DEF x
  <2>. QED
      BY <1>3, <1>4, <2>1 DEF ClearSummary, QueueType
<1>6. AfterRun(q) = IF drain[q].summary # NoSummary THEN ClearSummary(x) ELSE x
    BY DEF AfterRun, b
<1>. HIDE DEF x
<1>. QED
    BY <1>3, <1>4, <1>5, <1>6 DEF b

\* The drain d runs the next group of what p has collected.
NextGroup(p, d) ==
    /\ p.rest # <<>>
    /\ d.pc = "admission" /\ d.summary = NoSummary
    /\ d.summaryOnly = p.summaryOnly
    /\ d.batch = FirstGroup(p.rest) /\ d.rest = Behind(d.batch, p.rest)

LEMMA ReturnMoves ==
    ASSUME TypeInv, NEW q \in Queues, RunReturns(q)
    PROVE  \E x, d : /\ Moves(q, x, d)
                     /\ \/ /\ drain[q].rest = <<>>
                           /\ Left(q, x, AfterRun(q)) /\ Quiet(d)
                        \/ x = AfterRun(q) /\ NextGroup(drain[q], d)
<1>. DEFINE d == drain[q]
            r == AfterRun(q)
<1>1. /\ r \in QueueType /\ d \in DrainType
      /\ d.rest \in Seq(Messages) /\ d.force \in BOOLEAN
    BY AfterRunTypes DEF TypeInv, RegistryTyped, DrainType
<1>2. CASE d.rest = <<>>
  <2>1. Iterate(q, r)
      BY <1>2 DEF RunReturns
  <2>2. CASE Pending(r)
    <3>. DEFINE e == [BeginSweep EXCEPT !.force = d.force]
    <3>1. /\ queue' = [queue EXCEPT ![q] = r] /\ entry' = entry
          /\ drain' = [drain EXCEPT ![q] = e]
        BY <2>1, <2>2 DEF Iterate
    <3>2. e \in DrainType /\ e.pc = "sweep" /\ e.batch = <<>> /\ e.rest = <<>>
        BY <1>1, BlankOnes DEF DrainTyped, DrainType
    <3>3. DrainTyped(e) /\ DropsAreAborted(e) /\ Quiet(e)
        BY <3>2 DEF DrainTyped, DropsAreAborted, Quiet, Busy
    <3>4. Moves(q, r, e)
        BY <1>1, <3>1, <3>2, <3>3 DEF Moves, Settle
    <3>. QED
        BY <1>2, <3>3, <3>4 DEF Left
  <2>3. CASE ~Pending(r)
    <3>1. FinishDrain(q, r)
        BY <2>1, <2>3 DEF Iterate
    <3>. QED
        BY <1>1, <1>2, <3>1, FinishMoves, BlankOnes DEF Left, Quiet
  <2>. QED
      BY <2>2, <2>3
<1>3. CASE d.rest # <<>>
  <2>. DEFINE g == FirstGroup(d.rest)
              s == Behind(g, d.rest)
              e == [d EXCEPT !.pc = "admission", !.batch = g, !.rest = s,
                             !.summary = NoSummary]
  <2>1. /\ queue' = [queue EXCEPT ![q] = r] /\ entry' = entry
        /\ drain' = [drain EXCEPT ![q].pc = "admission", ![q].batch = g,
                                  ![q].rest = s, ![q].summary = NoSummary]
      BY <1>3 DEF RunReturns
  <2>2. g \in Seq(Messages) /\ s \in Seq(Messages)
    <3>1. /\ g \in Seq(Messages) /\ Len(g) =< Len(d.rest)
          /\ \A i \in 1 .. Len(g) : g[i] = d.rest[i]
        BY <1>1, <1>3, FirstGroupIsFirst
    <3>. HIDE DEF g
    <3>. QED
        BY <1>1, <3>1, BehindIsTheRest
  <2>. HIDE DEF g, s
  <2>3. drain' = [drain EXCEPT ![q] = e]
      BY <2>1 DEF TypeInv, RegistryTyped
  <2>4. /\ e \in DrainType /\ e.pc = "admission" /\ e.summary = NoSummary
        /\ e.batch = g /\ e.rest = s /\ e.summaryOnly = d.summaryOnly
      BY <1>1, <2>2, BlankOnes DEF DrainType
  <2>5. DrainTyped(e) /\ DropsAreAborted(e) /\ NextGroup(d, e)
      BY <1>3, <2>4 DEF DrainTyped, DropsAreAborted, NextGroup, Busy, g, s
  <2>6. Moves(q, r, e)
      BY <1>1, <2>1, <2>3, <2>4, <2>5 DEF Moves, Settle
  <2>. QED
      BY <2>5, <2>6
<1>. QED
    BY <1>2, <1>3

\* What a failed run leaves of the queue.
AfterFailure(q) ==
    [queue[q] EXCEPT !.sources = IF drain[q].summary # NoSummary
                                 THEN <<>> ELSE @]

LEMMA FailMoves ==
    ASSUME TypeInv, NEW q \in Queues, RunFails(q)
    PROVE  Moves(q, IF entry = q THEN AfterFailure(q) ELSE Unused, NoDrain)
<1>1. queue[q] \in QueueType
    BY DEF TypeInv, RegistryTyped
<1>2. AfterFailure(q) \in QueueType
  <2>1. \A s \in Seq(Messages) : [queue[q] EXCEPT !.sources = s] \in QueueType
      BY <1>1 DEF QueueType
  <2>2. <<>> \in Seq(Messages) /\ queue[q].sources \in Seq(Messages)
      BY <1>1, QueueTypes
  <2>. QED
      BY <2>1, <2>2 DEF AfterFailure
<1>3. FinishDrain(q, AfterFailure(q))
    BY DEF RunFails, AfterFailure
<1>. QED
    BY <1>2, <1>3, FinishMoves

-----------------------------------------------------------------------------
(***************************************************************************)
(* An enqueue.                                                             *)
(***************************************************************************)

CapHit(r) == IsFull(r) /\ r.drop # "new"
Dropped(r) == IF CapHit(r) THEN Range(Overflowing(r)) ELSE {}
Shortened(r) == IF CapHit(r) THEN AfterDrop(r) ELSE r
Forgotten(r) ==
    (Range(r.sources) \cup Dropped(r)) \ Range(Shortened(r).sources)

\* The object that a message finds, or that is made for it.
Found(q, r, s) ==
    \/ entry = q /\ r = WithSettings(queue[q], s)
    \/ entry = NoQueue /\ drain[q].pc = "off" /\ r = QueueFor(s)

\* The message m is put into the object r of q.
Accepted(q, r, m) ==
    /\ m \notin recent
    /\ OverlapDrops \/ ~(CapHit(r) /\ drain[q].pc \in Busy \cup {"dropping"})
    /\ recent' = recent \cup {m}
    /\ arrived' = Append(arrived, m)
    /\ completed' = completed \cup (Forgotten(r) \cap fenced)
    /\ fate' = [n \in Messages |->
                  IF n = m THEN "waiting"
                  ELSE IF n \in Dropped(r) \cap Range(Shortened(r).lines)
                  THEN "summarising"
                  ELSE IF n \in Dropped(r)
                          \/ (n \in Range(r.lines) \ Range(Shortened(r).lines)
                              /\ fate[n] = "summarising")
                  THEN "dropped"
                  ELSE fate[n]]

WithMessage(r, m) ==
    [Shortened(r) EXCEPT !.items = Append(Shortened(r).items, m)]

LEMMA EnqueueMeans ==
    ASSUME TypeInv, NEW m \in Messages, NEW s \in Settings,
           EnqueueFollowupRun(m, s)
    PROVE  \E q \in Queues, r, x \in QueueType :
              /\ Found(q, r, s)
              /\ Settle(q, [queue EXCEPT ![q] = x], drain)
              /\ \/ x = WithMessage(r, m) /\ Accepted(q, r, m)
                 \/ /\ x = r /\ UNCHANGED <<recent, completed, arrived>>
                    /\ fate' = fate \/ fate' = [fate EXCEPT ![m] = "refused"]
<1>. DEFINE q == IF entry = NoQueue THEN CHOOSE x \in Queues : ~Draining(x)
                 ELSE entry
            r == IF entry = NoQueue THEN QueueFor(s)
                 ELSE WithSettings(queue[q], s)
            Queued(to) ==
                IF lane = "idle"
                THEN ScheduleDrain(q, [queue EXCEPT ![q] = to], drain)
                ELSE /\ entry' = q
                     /\ queue' = [queue EXCEPT ![q] = to]
                     /\ UNCHANGED drain
<1>1. q \in Queues /\ (entry = NoQueue => drain[q].pc = "off")
  <2>1. \E x \in Queues : entry = NoQueue => ~Draining(x)
      BY DEF EnqueueFollowupRun
  <2>2. entry \in Queues \cup {NoQueue}
      BY DEF TypeInv, RegistryTyped
  <2>. QED
      BY <2>1, <2>2 DEF Draining
<1>2. r \in QueueType
  <2>1. queue[q] \in QueueType
      BY <1>1 DEF TypeInv, RegistryTyped
  <2>. HIDE DEF q
  <2>. QED
      BY <2>1, QueueTypes
<1>3. Found(q, r, s)
    BY <1>1 DEF Found
<1>4. ASSUME NEW to, Queued(to)
      PROVE  Settle(q, [queue EXCEPT ![q] = to], drain)
    BY <1>4 DEF Settle
<1>5. \/ /\ Queued(r) /\ UNCHANGED <<recent, completed, fate, arrived>>
      \/ /\ Queued(r) /\ UNCHANGED <<recent, completed, arrived>>
         /\ fate' = [fate EXCEPT ![m] = "refused"]
      \/ /\ Queued([Shortened(r) EXCEPT !.items = Append(@, m)])
         /\ Accepted(q, r, m)
    BY DEF EnqueueFollowupRun, Accepted, CapHit, Dropped, Shortened, Forgotten,
           Busy
<1>. HIDE DEF q, r, Queued
<1>6. Shortened(r) \in QueueType /\ WithMessage(r, m) \in QueueType
  <2>1. Shortened(r) \in QueueType
      BY <1>2, AfterDropTypes DEF Shortened, CapHit
  <2>2. Append(Shortened(r).items, m) \in Seq(Messages)
      BY <2>1, QueueTypes, AppendProperties
  <2>. QED
      BY <2>1, <2>2, QueueTypes DEF WithMessage
<1>7. [Shortened(r) EXCEPT !.items = Append(@, m)] = WithMessage(r, m)
    BY <1>6 DEF WithMessage, QueueType
<1>. QED
    BY <1>1, <1>2, <1>3, <1>4, <1>5, <1>6, <1>7

\* What EnqueueMeans names is a registry.
LEMMA EnqueueStart ==
    ASSUME TypeInv, NEW q \in Queues, NEW r, NEW s, NEW x \in QueueType,
           Found(q, r, s)
    PROVE  RegistryTyped(q, [queue EXCEPT ![q] = x], drain)
BY BoundsAssumption DEF TypeInv, RegistryTyped, Found

-----------------------------------------------------------------------------
(***************************************************************************)
(* TypeInv and AuthInv are kept.                                           *)
(***************************************************************************)

\* What a batch of one object or of its rest has in common.
LEMMA BatchesAreUnmixed ==
    ASSUME NEW r \in QueueType, NEW d, Batched(r, d)
    PROVE  Unmixed(d)
<1>1. r.items \in Seq(Messages)
    BY QueueTypes
<1>2. CASE d.batch = <<>> /\ d.rest = <<>>
    BY <1>2 DEF Unmixed, Range
<1>3. CASE d.batch = <<Head(r.items)>> /\ d.rest = <<>>
    BY <1>3 DEF Unmixed, Range
<1>4. CASE /\ r.items # <<>> /\ ~IsCrossChannel(r.items)
           /\ d.batch = FirstGroup(r.items)
           /\ d.rest = Behind(FirstGroup(r.items), r.items)
  <2>1. /\ d.batch \in Seq(Messages) /\ Len(d.batch) =< Len(r.items)
        /\ \A i \in 1 .. Len(d.batch) : d.batch[i] = r.items[i]
        /\ \A m, n \in Range(d.batch) : Sender[m] = Sender[n]
      BY <1>1, <1>4, FirstGroupIsFirst
  <2>2. d.rest = Behind(d.batch, r.items)
      BY <1>4
  <2>3. Range(r.items) = Range(d.batch) \cup Range(d.rest)
      BY <1>1, <2>1, <2>2, BehindIsTheRest
  <2>4. \A m, n \in Range(r.items) : Route[m] = Route[n]
      BY <1>4 DEF IsCrossChannel
  <2>. QED
      BY <2>1, <2>3, <2>4 DEF Unmixed
<1>. QED
    BY <1>2, <1>3, <1>4 DEF Batched

LEMMA GroupsAreUnmixed ==
    ASSUME NEW p, p.rest \in Seq(Messages), Unmixed(p), NEW d, NextGroup(p, d)
    PROVE  Unmixed(d)
<1>1. /\ d.batch \in Seq(Messages) /\ Len(d.batch) =< Len(p.rest)
      /\ \A i \in 1 .. Len(d.batch) : d.batch[i] = p.rest[i]
      /\ \A m, n \in Range(d.batch) : Sender[m] = Sender[n]
    BY FirstGroupIsFirst DEF NextGroup
<1>2. d.rest = Behind(d.batch, p.rest)
    BY DEF NextGroup
<1>3. Range(p.rest) = Range(d.batch) \cup Range(d.rest)
    BY <1>1, <1>2, BehindIsTheRest
<1>. QED
    BY <1>1, <1>3 DEF Unmixed

\* A drain that has taken nothing, or one message, mixes nothing.
LEMMA SmallHands ==
    ASSUME NEW d, DrainTyped(d), Quiet(d) \/ d.pc = "dropping"
    PROVE  Unmixed(d)
<1>1. d.rest = <<>> /\ d.batch \in Seq(Messages)
    BY DEF DrainTyped, Quiet, Busy, DrainType
<1>2. CASE Quiet(d)
  <2>1. d.batch = <<>>
      BY <1>2 DEF DrainTyped, Quiet, Busy
  <2>. QED
      BY <1>1, <2>1 DEF Unmixed, Range
<1>3. CASE d.pc = "dropping"
  <2>1. Len(d.batch) = 1
      BY <1>3 DEF DrainTyped
  <2>2. \A m, n \in Range(d.batch) : m = n
      BY <1>1, <2>1 DEF Range
  <2>3. Range(d.rest) = {}
      BY <1>1 DEF Range
  <2>. QED
      BY <2>2, <2>3 DEF Unmixed
<1>. QED
    BY <1>2, <1>3

\* What a step of a drain has to show.
LEMMA MovesKeepAuth ==
    ASSUME AuthInv, NEW q \in Queues, NEW x, NEW d, Moves(q, x, d), Unmixed(d),
           aborted' = aborted, OthersTyped'
    PROVE  AuthInv'
<1>1. TypeInv
    BY DEF AuthInv
<1>2. /\ TypeInv'
      /\ \A y \in Queues : \/ drain'[y] = IF y = q THEN d ELSE drain[y]
                           \/ drain'[y] = BeginSweep
    BY <1>1, MovesKeepTypes DEF TypeInv
<1>3. Unmixed(BeginSweep)
    BY BlankOnes, SmallHands DEF Quiet
<1>4. \A y \in Queues : Unmixed(drain'[y])
    BY <1>2, <1>3 DEF AuthInv
<1>. QED
    BY <1>2, <1>4 DEF AuthInv

LEMMA AuthInvStarts == Init => AuthInv
<1>. SUFFICES ASSUME Init PROVE AuthInv
    OBVIOUS
<1>1. RegistryTyped(entry, queue, drain)
    BY BlankOnes DEF Init, RegistryTyped, DrainTyped
<1>2. OthersTyped
    BY BoundsAssumption, MessagesAssumption DEF Init, OthersTyped, Fates
<1>3. \A q \in Queues : DropsAreAborted(drain[q]) /\ Unmixed(drain[q])
    BY BlankOnes, SmallHands DEF Init, DropsAreAborted, Quiet
<1>. QED
    BY <1>1, <1>2, <1>3 DEF AuthInv, TypeInv

LEMMA StepsKeepAuth == AuthInv /\ [Next]_vars => AuthInv'
<1>. SUFFICES ASSUME AuthInv, [Next]_vars PROVE AuthInv'
    OBVIOUS
<1>. USE DEF registry, history
<1>0. TypeInv /\ OthersTyped /\ fenced \in Fences /\ fenced \subseteq Messages
    BY MessagesAssumption DEF AuthInv, TypeInv, OthersTyped
<1>1. ASSUME NEW m \in Messages, NEW s \in Settings, EnqueueFollowupRun(m, s)
      PROVE  AuthInv'
  <2>1. PICK q \in Queues, r, x \in QueueType :
              /\ Found(q, r, s)
              /\ Settle(q, [queue EXCEPT ![q] = x], drain)
              /\ \/ x = WithMessage(r, m) /\ Accepted(q, r, m)
                 \/ /\ x = r /\ UNCHANGED <<recent, completed, arrived>>
                    /\ fate' = fate \/ fate' = [fate EXCEPT ![m] = "refused"]
      BY <1>0, <1>1, EnqueueMeans
  <2>2. UNCHANGED <<fenced, lane, aborted, stops, fails, answers>>
      BY <1>1 DEF EnqueueFollowupRun
  <2>3. /\ RegistryTyped(entry', queue', drain')
        /\ \A y \in Queues : drain'[y] = drain[y] \/ drain'[y] = BeginSweep
      BY <1>0, <2>1, EnqueueStart, Settling
  <2>4. RegistryTyped(entry, queue, drain)'
      BY <2>3 DEF RegistryTyped
  <2>5. OthersTyped'
    <3>1. CASE Accepted(q, r, m)
      <4>1. fate' \in [Messages -> Fates]
          BY <1>0, <3>1 DEF Accepted, OthersTyped, Fates
      <4>2. arrived' \in Seq(Messages) /\ recent' \subseteq Messages
            /\ completed' \subseteq fenced
          BY <1>0, <3>1, AppendProperties DEF Accepted, OthersTyped
      <4>. QED
          BY <1>0, <2>2, <4>1, <4>2 DEF OthersTyped
    <3>2. CASE /\ UNCHANGED <<recent, completed, arrived>>
               /\ fate' = fate \/ fate' = [fate EXCEPT ![m] = "refused"]
        BY <1>0, <2>2, <3>2 DEF OthersTyped, Fates
    <3>. QED
        BY <2>1, <3>1, <3>2
  <2>6. Unmixed(BeginSweep) /\ BeginSweep.pc # "dropping"
      BY BlankOnes, SmallHands DEF Quiet
  <2>7. \A y \in Queues : DropsAreAborted(drain[y])' /\ Unmixed(drain'[y])
      BY <2>2, <2>3, <2>6 DEF AuthInv, TypeInv, DropsAreAborted
  <2>. QED
      BY <2>4, <2>5, <2>7 DEF AuthInv, TypeInv
<1>2. ASSUME NEW m \in Messages, AbortMessage(m) PROVE AuthInv'
    BY <1>2 DEF AbortMessage, AuthInv, TypeInv, RegistryTyped, OthersTyped,
                DropsAreAborted
<1>3. CASE TurnStarts
    BY <1>3 DEF TurnStarts, AuthInv, TypeInv, RegistryTyped, OthersTyped,
                DropsAreAborted
<1>4. CASE TurnEnds
  <2>1. OthersTyped'
      BY <1>0, <1>4 DEF TurnEnds, OthersTyped
  <2>2. /\ RegistryTyped(entry', queue', drain')
        /\ \A y \in Queues : drain'[y] = drain[y] \/ drain'[y] = BeginSweep
    <3>1. Settle(entry, queue, drain)
        BY <1>4 DEF TurnEnds, Settle
    <3>. QED
        BY <1>0, <3>1, Settling DEF TypeInv
  <2>3. RegistryTyped(entry, queue, drain)'
      BY <2>2 DEF RegistryTyped
  <2>4. Unmixed(BeginSweep) /\ BeginSweep.pc # "dropping"
      BY BlankOnes, SmallHands DEF Quiet
  <2>5. aborted' = aborted
      BY <1>4 DEF TurnEnds
  <2>6. \A y \in Queues : DropsAreAborted(drain[y])' /\ Unmixed(drain'[y])
      BY <2>2, <2>4, <2>5 DEF AuthInv, TypeInv, DropsAreAborted
  <2>. QED
      BY <2>1, <2>3, <2>6 DEF AuthInv, TypeInv
<1>5. CASE ClearFollowupQueue
  <2>1. /\ entry \in Queues /\ entry' = NoQueue /\ drain' = drain
        /\ stops < StopCap /\ stops' = stops + 1 /\ arrived' = <<>>
        /\ UNCHANGED <<fenced, lane, recent, aborted, fails, answers>>
      BY <1>0, <1>5 DEF ClearFollowupQueue, TypeInv, RegistryTyped
  <2>2. OthersTyped'
    <3>1. completed' \subseteq fenced /\ fate' \in [Messages -> Fates]
        BY <1>0, <1>5 DEF ClearFollowupQueue, OthersTyped, Fates
    <3>2. stops' \in Nat /\ stops' =< StopCap
        BY <1>0, <2>1, BoundsAssumption DEF OthersTyped
    <3>. QED
        BY <1>0, <2>1, <3>1, <3>2 DEF OthersTyped
  <2>3. RegistryTyped(entry, queue, drain)'
    <3>. DEFINE r == queue[entry]
                x == IF drain[entry].pc # "off"
                     THEN [ClearSummary(r) EXCEPT !.items = <<>>] ELSE Unused
    <3>1. queue' = [queue EXCEPT ![entry] = x]
        BY <1>5 DEF ClearFollowupQueue, Draining
    <3>2. x \in QueueType /\ (drain[entry].pc = "off" => x = Unused)
      <4>1. r \in QueueType /\ <<>> \in Seq(Messages)
          BY <1>0, <2>1 DEF TypeInv, RegistryTyped
      <4>2. ClearSummary(r) \in QueueType
          BY <4>1, QueueTypes
      <4>. QED
          BY <4>1, <4>2, QueueTypes, BlankOnes
    <3>. HIDE DEF x
    <3>. QED
        BY <1>0, <2>1, <3>1, <3>2 DEF TypeInv, RegistryTyped
  <2>. QED
      BY <2>1, <2>2, <2>3 DEF AuthInv, TypeInv, DropsAreAborted
<1>6. ASSUME NEW q \in Queues, Sweep(q) PROVE AuthInv'
  <2>1. UNCHANGED <<lane, recent, aborted, stops, fails, fenced, arrived,
                    answers>>
      BY <1>6 DEF Sweep
  <2>2. OthersTyped' /\ \E x, d : Moves(q, x, d) /\ Unmixed(d)
    <3>1. CASE /\ UNCHANGED <<completed, fate>>
               /\ \E x, d : /\ Moves(q, x, d)
                            /\ \/ Left(q, x, queue[q]) /\ Quiet(d)
                               \/ x = queue[q] /\ Batched(queue[q], d)
                               \/ x = queue[q] /\ Drops(queue[q], d)
      <4>1. OthersTyped'
          BY <1>0, <2>1, <3>1 DEF OthersTyped
      <4>2. PICK x, d : /\ Moves(q, x, d)
                        /\ Quiet(d) \/ Batched(queue[q], d)
                           \/ Drops(queue[q], d)
          BY <3>1
      <4>3. queue[q] \in QueueType /\ DrainTyped(d)
          BY <1>0, <4>2 DEF Moves, TypeInv, RegistryTyped
      <4>4. Unmixed(d)
          BY <4>2, <4>3, BatchesAreUnmixed, SmallHands DEF Drops
      <4>. QED
          BY <4>1, <4>2, <4>4
    <3>2. CASE /\ queue[q].items = <<>>
               /\ \E x : /\ Moves(q, x, NoDrain)
                         /\ Left(q, x, ClearSummary(queue[q]))
               /\ completed' = completed
                                 \cup (Range(queue[q].sources) \cap fenced)
               /\ fate' = [m \in Messages |->
                             IF fate[m] = "summarising"
                                /\ m \in Range(queue[q].lines)
                             THEN "dropped" ELSE fate[m]]
      <4>1. fate' \in [Messages -> Fates] /\ completed' \subseteq fenced
          BY <1>0, <3>2 DEF OthersTyped, Fates
      <4>2. OthersTyped'
          BY <1>0, <2>1, <4>1 DEF OthersTyped
      <4>. QED
          BY <3>2, <4>2, BlankOnes, SmallHands DEF Quiet
    <3>. QED
        BY <1>0, <1>6, <3>1, <3>2, SweepMoves
  <2>. QED
      BY <2>1, <2>2, MovesKeepAuth
<1>7. ASSUME NEW q \in Queues, DropAborted(q) PROVE AuthInv'
  <2>1. UNCHANGED <<lane, recent, aborted, stops, fails, fenced, arrived,
                    answers>>
      BY <1>7 DEF DropAborted
  <2>2. PICK x, d : Moves(q, x, d) /\ Quiet(d)
      BY <1>0, <1>7, DropMoves
  <2>3. Unmixed(d)
      BY <2>2, SmallHands DEF Moves
  <2>4. completed' \subseteq fenced /\ fate' \in [Messages -> Fates]
      BY <1>0, <1>7 DEF DropAborted, OthersTyped, Fates, TypeInv,
                        DropsAreAborted
  <2>5. OthersTyped'
      BY <1>0, <2>1, <2>4 DEF OthersTyped
  <2>. QED
      BY <2>1, <2>2, <2>3, <2>5, MovesKeepAuth
<1>8. ASSUME NEW q \in Queues, WaitForQueueDebounce(q) PROVE AuthInv'
  <2>1. aborted' = aborted /\ OthersTyped'
      BY <1>0, <1>8 DEF WaitForQueueDebounce, OthersTyped
  <2>2. PICK d : Moves(q, queue[q], d) /\ Quiet(d)
      BY <1>0, <1>8, DebounceMoves
  <2>3. Unmixed(d)
      BY <2>2, SmallHands DEF Moves
  <2>. QED
      BY <2>1, <2>2, <2>3, MovesKeepAuth
<1>9. ASSUME NEW q \in Queues, AdmitReplyTurn(q) PROVE AuthInv'
  <2>. DEFINE d == [drain[q] EXCEPT !.pc = "running"]
  <2>1. aborted' = aborted /\ OthersTyped'
      BY <1>0, <1>9 DEF AdmitReplyTurn, OthersTyped
  <2>2. drain[q] \in DrainType
      BY <1>0 DEF TypeInv, RegistryTyped
  <2>3. d.batch = drain[q].batch /\ d.rest = drain[q].rest
      BY <2>2 DEF DrainType
  <2>4. Moves(q, queue[q], d)
      BY <1>0, <1>9, AdmitMoves
  <2>. HIDE DEF d
  <2>5. Unmixed(d)
      BY <2>3 DEF AuthInv, Unmixed
  <2>. QED
      BY <2>1, <2>4, <2>5, MovesKeepAuth
<1>10. ASSUME NEW q \in Queues, DeferRun(q) PROVE AuthInv'
  <2>1. aborted' = aborted /\ OthersTyped'
      BY <1>0, <1>10 DEF DeferRun, OthersTyped
  <2>2. \E x : Moves(q, x, NoDrain)
      BY <1>0, <1>10, DeferMoves
  <2>3. Unmixed(NoDrain)
      BY BlankOnes, SmallHands DEF Quiet
  <2>. QED
      BY <2>1, <2>2, <2>3, MovesKeepAuth
<1>11. ASSUME NEW q \in Queues, RunReturns(q) PROVE AuthInv'
  <2>1. UNCHANGED <<recent, aborted, stops, fails, fenced, arrived>>
      BY <1>11 DEF RunReturns
  <2>2. drain[q] \in DrainType /\ drain[q].rest \in Seq(Messages)
        /\ drain[q].batch \in Seq(Messages)
      BY <1>0 DEF TypeInv, RegistryTyped, DrainType
  <2>3. /\ lane' \in {"idle", "turn"} \cup Queues
        /\ completed' \subseteq fenced /\ fate' \in [Messages -> Fates]
      BY <1>0, <1>11 DEF RunReturns, RunCompletes, OthersTyped, Fates
  <2>4. answers' \in Seq(Messages)
    <3>. DEFINE d == drain[q]
                s == IF d.summaryOnly \/ Withdrawn(q) THEN <<>> ELSE d.batch
    <3>1. answers' = answers \o s /\ s \in Seq(Messages)
        BY <1>11, <2>2 DEF RunReturns
    <3>. HIDE DEF s
    <3>. QED
        BY <1>0, <2>2, <3>1, ConcatProperties DEF OthersTyped
  <2>5. OthersTyped'
      BY <1>0, <2>1, <2>3, <2>4 DEF OthersTyped
  <2>6. PICK x, d : Moves(q, x, d) /\ (Quiet(d) \/ NextGroup(drain[q], d))
      BY <1>0, <1>11, ReturnMoves
  <2>7. Unmixed(d)
      BY <2>2, <2>6, SmallHands, GroupsAreUnmixed DEF Moves, AuthInv
  <2>. QED
      BY <2>1, <2>5, <2>6, <2>7, MovesKeepAuth
<1>12. ASSUME NEW q \in Queues, RunFails(q) PROVE AuthInv'
  <2>1. UNCHANGED <<recent, aborted, stops, fate, fenced, arrived, answers>>
        /\ fails < FailCap /\ fails' = fails + 1
      BY <1>12 DEF RunFails
  <2>2. lane' \in {"idle", "turn"} \cup Queues /\ completed' \subseteq fenced
      BY <1>0, <1>12 DEF RunFails, RunCompletes, OthersTyped
  <2>3. fails' \in Nat /\ fails' =< FailCap
      BY <1>0, <2>1, BoundsAssumption DEF OthersTyped
  <2>4. OthersTyped'
      BY <1>0, <2>1, <2>2, <2>3 DEF OthersTyped
  <2>5. \E x : Moves(q, x, NoDrain)
      BY <1>0, <1>12, FailMoves
  <2>6. Unmixed(NoDrain)
      BY BlankOnes, SmallHands DEF Quiet
  <2>. QED
      BY <2>1, <2>4, <2>5, <2>6, MovesKeepAuth
<1>13. CASE UNCHANGED vars
    BY <1>13 DEF vars, AuthInv, TypeInv, RegistryTyped, OthersTyped,
                 DropsAreAborted
<1>. QED
    BY <1>1, <1>2, <1>3, <1>4, <1>5, <1>6, <1>7, <1>8, <1>9, <1>10, <1>11,
       <1>12, <1>13 DEF Next, DrainStep

LEMMA AuthInvHolds == Spec => []AuthInv
<1>. QED
    BY AuthInvStarts, StepsKeepAuth, PTL DEF Spec

\* The registry, the drains and the histories keep their types, and an object
\* that neither the key nor a drain uses is blank.
THEOREM TypeCorrect == Spec => []TypeOK
<1>1. AuthInv => TypeOK
    BY BoundsAssumption DEF AuthInv, TypeInv, RegistryTyped, OthersTyped,
       TypeOK, Fates, Draining
<1>. QED
    BY <1>1, AuthInvHolds, PTL

\* A batch is of one sender and one route, whatever is enqueued, withdrawn,
\* stopped or tried again between its groups, for any senders and routes.
THEOREM BatchesSpeakForOneSender == Spec => []AuthorizationsNeverMix
<1>1. AuthInv => AuthorizationsNeverMix
    BY DEF AuthInv, Unmixed, AuthorizationsNeverMix
<1>. QED
    BY <1>1, AuthInvHolds, PTL

-----------------------------------------------------------------------------
(***************************************************************************)
(* Sequences that share an order.                                          *)
(***************************************************************************)

\* What s holds, t holds in the same order.
Selected(s, t) ==
    /\ Range(s) \subseteq Range(t)
    /\ \A i, j \in 1 .. Len(s) : i < j =>
          \E k, l \in 1 .. Len(t) : k < l /\ s[i] = t[k] /\ s[j] = t[l]

LEMMA NothingIsSelected ==
    ASSUME NEW t
    PROVE  Selected(<<>>, t)
BY DEF Selected, Range

LEMMA AllIsSelected ==
    ASSUME NEW S, NEW t \in Seq(S)
    PROVE  Selected(t, t)
BY DEF Selected

LEMMA BehindIsSelected ==
    ASSUME NEW S, NEW s \in Seq(S), NEW t \in Seq(S), Len(s) =< Len(t),
           \A i \in 1 .. Len(s) : s[i] = t[i]
    PROVE  /\ Selected(Behind(s, t), t)
           /\ \A i \in 1 .. Len(s), j \in 1 .. Len(Behind(s, t)) :
                 \E k, l \in 1 .. Len(t) :
                    k < l /\ s[i] = t[k] /\ Behind(s, t)[j] = t[l]
<1>. DEFINE b == Behind(s, t)
<1>1. /\ b \in Seq(S) /\ Len(b) = Len(t) - Len(s)
      /\ \A i \in 1 .. Len(b) : b[i] = t[Len(s) + i]
      /\ Range(b) \subseteq Range(t)
      /\ Len(s) \in Nat /\ Len(t) \in Nat
    BY BehindIsTheRest
<1>. HIDE DEF b
<1>2. \A i \in 1 .. Len(b) : Len(s) + i \in 1 .. Len(t)
    BY <1>1
<1>3. ASSUME NEW i \in 1 .. Len(b), NEW j \in 1 .. Len(b), i < j
      PROVE  \E k, l \in 1 .. Len(t) : k < l /\ b[i] = t[k] /\ b[j] = t[l]
  <2>1. Len(s) + i < Len(s) + j
      BY <1>1, <1>3
  <2>. QED
      BY <1>1, <1>2, <2>1
<1>4. ASSUME NEW i \in 1 .. Len(s), NEW j \in 1 .. Len(b)
      PROVE  \E k, l \in 1 .. Len(t) : k < l /\ s[i] = t[k] /\ b[j] = t[l]
  <2>1. i \in 1 .. Len(t) /\ i < Len(s) + j /\ s[i] = t[i]
      BY <1>1
  <2>. QED
      BY <1>1, <1>2, <2>1
<1>. QED
    BY <1>1, <1>3, <1>4 DEF Selected, b

\* What stays when as many as s has are removed, whether s was there or not.
LEMMA BehindIsPart ==
    ASSUME NEW S, NEW s \in Seq(S), NEW t \in Seq(S)
    PROVE  /\ Behind(s, t) \in Seq(S)
           /\ Selected(Behind(s, t), t)
           /\ \A i \in 1 .. Len(Behind(s, t)) :
                 Len(s) + i \in 1 .. Len(t) /\ Behind(s, t)[i] = t[Len(s) + i]
<1>. DEFINE b == Behind(s, t)
<1>1. Len(s) \in Nat /\ Len(t) \in Nat
    OBVIOUS
<1>2. /\ b \in Seq(S)
      /\ \A i \in 1 .. Len(b) :
            Len(s) + i \in 1 .. Len(t) /\ b[i] = t[Len(s) + i]
  <2>1. CASE Len(s) + 1 > Len(t)
    <3>1. b = <<>>
        BY <1>1, <2>1 DEF Behind
    <3>. QED
        BY <3>1
  <2>2. CASE Len(s) + 1 =< Len(t)
    <3>. DEFINE k == Len(s) + 1
    <3>1. b = SubSeq(t, k, Len(t)) /\ k \in 1 .. Len(t)
        BY <1>1, <2>2 DEF Behind
    <3>. HIDE DEF k
    <3>2. /\ b \in Seq(S) /\ Len(b) = Len(t) - k + 1
          /\ \A i \in 1 .. Len(b) : b[i] = t[k + i - 1]
        BY <1>1, <3>1
    <3>. HIDE DEF b
    <3>3. k = Len(s) + 1 /\ Len(b) \in Nat
        BY <3>2 DEF k
    <3>4. ASSUME NEW i \in 1 .. Len(b)
          PROVE  Len(s) + i \in 1 .. Len(t) /\ b[i] = t[Len(s) + i]
      <4>1. k + i - 1 = Len(s) + i /\ Len(s) + i \in 1 .. Len(t)
          BY <1>1, <3>1, <3>2, <3>3
      <4>2. b[i] = t[k + i - 1]
          BY <3>2
      <4>. QED
          BY <4>1, <4>2
    <3>. QED
        BY <3>2, <3>4
  <2>. QED
      BY <1>1, <2>1, <2>2
<1>. HIDE DEF b
<1>3. Range(b) \subseteq Range(t)
  <2>1. DOMAIN b = 1 .. Len(b) /\ DOMAIN t = 1 .. Len(t)
      BY <1>2
  <2>. QED
      BY <1>2, <2>1 DEF Range
<1>4. ASSUME NEW i \in 1 .. Len(b), NEW j \in 1 .. Len(b), i < j
      PROVE  \E k, l \in 1 .. Len(t) : k < l /\ b[i] = t[k] /\ b[j] = t[l]
  <2>1. Len(s) + i < Len(s) + j
      BY <1>1, <1>4
  <2>. QED
      BY <1>2, <2>1
<1>. QED
    BY <1>2, <1>3, <1>4 DEF Selected, b

LEMMA RemovedIsSelected ==
    ASSUME NEW S, NEW s \in Seq(S), NEW i \in 1 .. Len(s)
    PROVE  /\ Selected(RemoveAt(s, i), s)
           /\ Range(s) \subseteq Range(RemoveAt(s, i)) \cup {s[i]}
<1>. DEFINE t == RemoveAt(s, i)
            at(j) == IF j < i THEN j ELSE j + 1
<1>1. /\ t \in Seq(S) /\ Len(t) = Len(s) - 1 /\ Len(s) \in Nat
      /\ \A j \in 1 .. Len(t) : t[j] = s[at(j)]
      /\ DOMAIN t = 1 .. Len(t) /\ DOMAIN s = 1 .. Len(s)
  <2>1. /\ t \in Seq(S) /\ Len(t) = Len(s) - 1
        /\ \A j \in 1 .. Len(s) - 1 : t[j] = s[IF j < i THEN j ELSE j + 1]
      BY RemovingAt, Zenon
  <2>. HIDE DEF t
  <2>. QED
      BY <2>1
<1>. HIDE DEF t
<1>2. \A j \in 1 .. Len(t) : at(j) \in 1 .. Len(s)
    BY <1>1
<1>3. \A j, k \in 1 .. Len(t) : j < k => at(j) < at(k)
    BY <1>1
<1>4. ASSUME NEW j \in 1 .. Len(s), j # i
      PROVE  \E k \in 1 .. Len(t) : s[j] = t[k]
  <2>1. CASE j < i
    <3>1. j \in 1 .. Len(t) /\ at(j) = j
        BY <1>1, <2>1
    <3>. QED
        BY <1>1, <3>1
  <2>2. CASE j > i
    <3>1. j - 1 \in 1 .. Len(t) /\ at(j - 1) = j
        BY <1>1, <2>2
    <3>. QED
        BY <1>1, <3>1
  <2>. QED
      BY <1>1, <1>4, <2>1, <2>2
<1>. HIDE DEF at
<1>5. Range(t) \subseteq Range(s)
    BY <1>1, <1>2 DEF Range
<1>6. ASSUME NEW m \in Range(s), m # s[i] PROVE m \in Range(t)
  <2>1. PICK j \in 1 .. Len(s) : m = s[j] /\ j # i
      BY <1>1, <1>6 DEF Range
  <2>2. PICK k \in 1 .. Len(t) : m = t[k]
      BY <1>4, <2>1
  <2>. QED
      BY <1>1, <2>2 DEF Range
<1>7. ASSUME NEW j \in 1 .. Len(t), NEW k \in 1 .. Len(t), j < k
      PROVE  \E m, n \in 1 .. Len(s) : m < n /\ t[j] = s[m] /\ t[k] = s[n]
    BY <1>1, <1>2, <1>3, <1>7
<1>. QED
    BY <1>5, <1>6, <1>7 DEF Selected, t

LEMMA InjectiveTogether ==
    ASSUME NEW S, NEW s \in Seq(S), NEW t \in Seq(S),
           IsInjective(s), IsInjective(t), Range(s) \cap Range(t) = {}
    PROVE  IsInjective(s \o t)
<1>1. /\ s \o t \in Seq(S) /\ Len(s \o t) = Len(s) + Len(t)
      /\ \A i \in 1 .. Len(s) + Len(t) :
            (s \o t)[i] = IF i =< Len(s) THEN s[i] ELSE t[i - Len(s)]
      /\ Len(s) \in Nat /\ Len(t) \in Nat
      /\ DOMAIN s = 1 .. Len(s) /\ DOMAIN t = 1 .. Len(t)
    BY ConcatProperties
<1>. DEFINE u == s \o t
<1>2. DOMAIN u = 1 .. Len(s) + Len(t)
    BY <1>1
<1>. HIDE DEF u
<1>3. ASSUME NEW i \in DOMAIN u, NEW j \in DOMAIN u, u[i] = u[j]
      PROVE  i = j
  <2>1. CASE i =< Len(s) /\ j =< Len(s)
    <3>1. i \in DOMAIN s /\ j \in DOMAIN s /\ s[i] = s[j]
        BY <1>1, <1>2, <1>3, <2>1 DEF u
    <3>. QED
        BY <3>1 DEF IsInjective
  <2>2. CASE i > Len(s) /\ j > Len(s)
    <3>1. /\ i - Len(s) \in DOMAIN t /\ j - Len(s) \in DOMAIN t
          /\ t[i - Len(s)] = t[j - Len(s)]
        BY <1>1, <1>2, <1>3, <2>2 DEF u
    <3>2. i - Len(s) = j - Len(s)
        BY <3>1 DEF IsInjective
    <3>. QED
        BY <1>1, <1>2, <3>2
  <2>3. CASE i =< Len(s) /\ j > Len(s)
    <3>1. i \in DOMAIN s /\ j - Len(s) \in DOMAIN t /\ s[i] = t[j - Len(s)]
        BY <1>1, <1>2, <1>3, <2>3 DEF u
    <3>. QED
        BY <3>1 DEF Range
  <2>4. CASE i > Len(s) /\ j =< Len(s)
    <3>1. j \in DOMAIN s /\ i - Len(s) \in DOMAIN t /\ s[j] = t[i - Len(s)]
        BY <1>1, <1>2, <1>3, <2>4 DEF u
    <3>. QED
        BY <3>1 DEF Range
  <2>. QED
      BY <1>1, <1>2, <2>1, <2>2, <2>3, <2>4
<1>. QED
    BY <1>3 DEF IsInjective, u

-----------------------------------------------------------------------------
(***************************************************************************)
(* What the registry holds, and who has taken of it.                       *)
(***************************************************************************)

LEMMA SettlingKeepsContents ==
    ASSUME NEW e, NEW qs, NEW ds, RegistryTyped(e, qs, ds), Sound(e, qs, ds),
           Settle(e, qs, ds)
    PROVE  /\ Sound(entry', queue', drain')
           /\ Items' = Held(e, qs).items
           /\ Lines' = Held(e, qs).lines
           /\ Sources' = Held(e, qs).sources
           /\ \A y \in Queues : /\ drain'[y].batch = ds[y].batch
                                /\ drain'[y].rest = ds[y].rest
           /\ \A y \in Queues : y # entry' => y # e \/ Taken(ds[y]) = {}
           /\ entry' = e \/ entry' = NoQueue
           /\ \A y \in Queues : drain'[y].pc \in Busy => drain'[y] = ds[y]
<1>1. \A y \in Queues : \/ drain'[y] = ds[y]
                        \/ ds[y] = NoDrain /\ drain'[y] = BeginSweep
    BY Settling
<1>2. \A y \in Queues : /\ drain'[y].batch = ds[y].batch
                        /\ drain'[y].rest = ds[y].rest
                        /\ drain'[y].pc \in Busy => drain'[y] = ds[y]
    BY <1>1, BlankOnes DEF Busy
<1>3. CASE entry' = e /\ queue' = qs
  <2>1. ASSUME NEW y \in Queues PROVE DrainOK(y, entry', queue'[y], drain'[y])
    <3>1. DrainOK(y, entry', queue'[y], ds[y])
        BY <1>3 DEF Sound
    <3>2. CASE drain'[y] = BeginSweep
        BY <3>2, BlankOnes DEF DrainOK, Busy
    <3>. QED
        BY <1>1, <3>1, <3>2
  <2>2. Sound(entry', queue', drain')
      BY <1>3, <2>1 DEF Sound
  <2>. QED
      BY <1>2, <1>3, <2>2 DEF Items, Lines, Sources, Held
<1>4. CASE /\ e \in Queues /\ ds[e] = NoDrain /\ ~Pending(qs[e])
           /\ entry' = NoQueue /\ drain' = ds
           /\ queue' = [qs EXCEPT ![e] = Unused]
  <2>1. NoQueue \notin Queues /\ e # NoQueue
      BY <1>4, BoundsAssumption
  <2>2. qs[e].items = <<>> /\ qs[e].dropped = 0 /\ qs[e].lines = <<>>
        /\ qs[e].sources = <<>>
    <3>1. qs[e].items = <<>> /\ qs[e].dropped = 0
        BY <1>4, QueueTypes DEF Pending, RegistryTyped
    <3>. QED
        BY <1>4, <3>1 DEF Sound, QueueOK
  <2>3. \A y \in Queues : queue'[y] = IF y = e THEN Unused ELSE qs[y]
      BY <1>4 DEF RegistryTyped
  <2>4. ASSUME NEW y \in Queues PROVE QueueOK(y, entry', queue'[y])
    <3>1. CASE y = e
        BY <2>3, <3>1, BlankOnes DEF QueueOK, TellsInBatches, Unused, QueueFor
    <3>2. CASE y # e
        BY <2>3, <3>2 DEF Sound, QueueOK
    <3>. QED
        BY <3>1, <3>2
  <2>5. ASSUME NEW y \in Queues PROVE DrainOK(y, entry', queue'[y], drain'[y])
      BY <1>4, <2>1 DEF Sound, DrainOK
  <2>6. Sound(entry', queue', drain')
      BY <2>4, <2>5 DEF Sound
  <2>7. Taken(ds[e]) = {}
      BY <1>4, BlankOnes DEF Taken, Range
  <2>. QED
      BY <1>2, <1>4, <2>1, <2>2, <2>6, <2>7, BlankOnes
      DEF Items, Lines, Sources, Held
<1>. QED
    BY <1>3, <1>4, Settling

LEMMA StaysSound ==
    ASSUME Sound(entry', queue', drain'), fenced' = fenced
    PROVE  Sound(entry, queue, drain)'
BY DEF Sound, QueueOK, DrainOK, RestsOnItems

LEMMA MovesKeepSound ==
    ASSUME TypeInv, Sound(entry, queue, drain), fenced' = fenced,
           NEW q \in Queues, NEW x, NEW d, Moves(q, x, d),
           QueueOK(q, entry, x), DrainOK(q, entry, x, d)
    PROVE  /\ Sound(entry, queue, drain)'
           /\ Items' = IF q = entry THEN x.items ELSE Items
           /\ Lines' = IF q = entry THEN x.lines ELSE Lines
           /\ Sources' = IF q = entry THEN x.sources ELSE Sources
           /\ drain'[q].batch = d.batch /\ drain'[q].rest = d.rest
           /\ \A y \in Queues \ {q} : /\ drain'[y].batch = drain[y].batch
                                      /\ drain'[y].rest = drain[y].rest
           /\ \A y \in Queues : y # entry' =>
                                   y # entry \/ Taken(drain'[y]) = {}
           /\ entry' = entry \/ entry' = NoQueue
           /\ drain'[q].pc \in Busy => drain'[q] = d
           /\ \A y \in Queues \ {q} :
                drain'[y].pc \in Busy => drain'[y] = drain[y]
<1>. DEFINE qs == [queue EXCEPT ![q] = x]
            ds == [drain EXCEPT ![q] = d]
<1>1. RegistryTyped(entry, qs, ds) /\ Settle(entry, qs, ds)
    BY MovesStart DEF Moves
<1>2. \A y \in Queues : /\ ds[y] = IF y = q THEN d ELSE drain[y]
                        /\ qs[y] = IF y = q THEN x ELSE queue[y]
    BY DEF TypeInv, RegistryTyped
<1>3. Held(entry, qs) = IF q = entry THEN x ELSE Held(entry, queue)
    BY <1>2, BoundsAssumption DEF Held, TypeInv, RegistryTyped
<1>. HIDE DEF qs, ds
<1>4. Sound(entry, qs, ds)
    BY <1>2 DEF Sound
<1>5. /\ Sound(entry', queue', drain')
      /\ Items' = Held(entry, qs).items
      /\ Lines' = Held(entry, qs).lines
      /\ Sources' = Held(entry, qs).sources
      /\ \A y \in Queues : /\ drain'[y].batch = ds[y].batch
                           /\ drain'[y].rest = ds[y].rest
      /\ \A y \in Queues : y # entry' => y # entry \/ Taken(ds[y]) = {}
      /\ entry' = entry \/ entry' = NoQueue
      /\ \A y \in Queues : drain'[y].pc \in Busy => drain'[y] = ds[y]
    BY <1>1, <1>4, SettlingKeepsContents
<1>6. \A y \in Queues : Taken(drain'[y]) = Taken(ds[y])
    BY <1>5 DEF Taken
<1>7. Sound(entry, queue, drain)'
    BY <1>5, StaysSound
<1>8. /\ Items' = IF q = entry THEN x.items ELSE Items
      /\ Lines' = IF q = entry THEN x.lines ELSE Lines
      /\ Sources' = IF q = entry THEN x.sources ELSE Sources
    BY <1>3, <1>5 DEF Items, Lines, Sources
<1>. QED
    BY <1>2, <1>5, <1>6, <1>7, <1>8

\* What the registered object holds is what its object in queue says.
LEMMA HeldIsTyped ==
    ASSUME TypeInv
    PROVE  /\ Items \in Seq(Messages) /\ Lines \in Seq(Messages)
           /\ Sources \in Seq(Messages)
           /\ \A q \in Queues : q = entry => /\ Items = queue[q].items
                                             /\ Lines = queue[q].lines
                                             /\ Sources = queue[q].sources
<1>1. Held(entry, queue) \in QueueType
    BY BlankOnes DEF Held, TypeInv, RegistryTyped
<1>2. \A q \in Queues : q = entry => Held(entry, queue) = queue[q]
    BY BoundsAssumption DEF Held
<1>. QED
    BY <1>1, <1>2, QueueTypes DEF Items, Lines, Sources

LEMMA ItemsAreDistinct ==
    ASSUME TypeInv, ItemsInOrder
    PROVE  /\ IsInjective(Items)
           /\ \A m, n \in Messages : Before(m, n) => m # n
<1>1. ASSUME NEW m, NEW n, Before(m, n) PROVE m # n
  <2>1. PICK i \in 1 .. Len(arrived), j \in 1 .. Len(arrived) :
            i < j /\ arrived[i] = m /\ arrived[j] = n
      BY <1>1 DEF Before
  <2>2. i \in DOMAIN arrived /\ j \in DOMAIN arrived /\ i # j
      BY <2>1 DEF TypeInv, OthersTyped
  <2>. QED
      BY <2>1, <2>2 DEF ItemsInOrder, IsInjective
<1>2. Items \in Seq(Messages)
    BY HeldIsTyped
<1>3. ASSUME NEW i \in DOMAIN Items, NEW j \in DOMAIN Items,
             Items[i] = Items[j]
      PROVE  i = j
  <2>1. i \in 1 .. Len(Items) /\ j \in 1 .. Len(Items) /\ Len(Items) \in Nat
      BY <1>2
  <2>2. ~(i < j) /\ ~(j < i)
      BY <1>1, <1>3, <2>1 DEF ItemsInOrder
  <2>. QED
      BY <2>1, <2>2
<1>. QED
    BY <1>1, <1>3 DEF IsInjective

LEMMA FewerItemsInOrder ==
    ASSUME ItemsInOrder, Selected(Items', Items), UNCHANGED <<arrived, recent>>
    PROVE  ItemsInOrder'
<1>1. \A m, n : Before(m, n)' = Before(m, n)
    BY DEF Before
<1>2. Range(Items') \subseteq Range(Items)
    BY DEF Selected
<1>3. ASSUME NEW i \in 1 .. Len(Items'), NEW j \in 1 .. Len(Items'), i < j
      PROVE  Before(Items[i], Items[j])'
  <2>1. PICK k \in 1 .. Len(Items), l \in 1 .. Len(Items) :
            k < l /\ Items'[i] = Items[k] /\ Items'[j] = Items[l]
      BY <1>3 DEF Selected
  <2>2. Before(Items[k], Items[l])
      BY <2>1 DEF ItemsInOrder
  <2>. QED
      BY <1>1, <2>1, <2>2
<1>. QED
    BY <1>2, <1>3 DEF ItemsInOrder

LEMMA FewerItems ==
    ASSUME ItemsInOrder, AnsweredInOrder, Selected(Items', Items),
           UNCHANGED <<arrived, answers, recent>>
    PROVE  ItemsInOrder' /\ AnsweredInOrder'
<1>1. \A m, n : Before(m, n)' = Before(m, n)
    BY DEF Before
<1>2. Range(Items') \subseteq Range(Items)
    BY DEF Selected
<1>3. AnsweredInOrder'
    BY <1>1, <1>2 DEF AnsweredInOrder
<1>. QED
    BY <1>3, FewerItemsInOrder

\* Answers that came before the items which stay, and after those given.
LEMMA MoreAnswers ==
    ASSUME TypeInv, AnsweredInOrder, UNCHANGED <<arrived, recent>>,
           NEW a \in Seq(Messages), answers' = answers \o a,
           IsInjective(a), Range(a) \subseteq recent,
           Range(a) \cap Range(answers) = {},
           Range(a) \cap Range(Items') = {},
           Range(Items') \subseteq Range(Items),
           \A m \in Range(answers) \cap Range(arrived),
              n \in Range(a) \cap Range(arrived) : Before(m, n),
           \A m \in Range(a) \cap Range(arrived), n \in Range(Items') :
                Before(m, n),
           \A i, j \in 1 .. Len(a) :
                i < j /\ {a[i], a[j]} \subseteq Range(arrived)
                => Before(a[i], a[j])
    PROVE  AnsweredInOrder' /\ Range(answers') = Range(answers) \cup Range(a)
<1>. DEFINE s == answers
            u == s \o a
<1>1. s \in Seq(Messages)
    BY DEF TypeInv, OthersTyped
<1>2. IsInjective(u)
    BY <1>1, InjectiveTogether DEF AnsweredInOrder
<1>3. /\ u \in Seq(Messages) /\ Len(u) = Len(s) + Len(a)
      /\ \A i \in 1 .. Len(s) + Len(a) :
            u[i] = IF i =< Len(s) THEN s[i] ELSE a[i - Len(s)]
      /\ Range(u) = Range(s) \cup Range(a)
      /\ Len(s) \in Nat /\ Len(a) \in Nat
  <2>1. Range(u) = Range(s) \cup Range(a)
      BY <1>1, RangeConcatenation
  <2>. QED
      BY <1>1, <2>1, ConcatProperties
<1>4. answers' = u
    OBVIOUS
<1>. HIDE DEF u
<1>5. \A m, n : Before(m, n)' = Before(m, n)
    BY DEF Before
<1>6. \A m \in Range(u) \cap Range(arrived), n \in Range(Items') : Before(m, n)
    BY <1>3 DEF AnsweredInOrder
<1>7. ASSUME NEW i \in 1 .. Len(u), NEW j \in 1 .. Len(u), i < j,
             {u[i], u[j]} \subseteq Range(arrived)
      PROVE  Before(u[i], u[j])
  <2>1. CASE j =< Len(s)
    <3>1. i \in 1 .. Len(s) /\ j \in 1 .. Len(s) /\ u[i] = s[i] /\ u[j] = s[j]
        BY <1>3, <1>7, <2>1
    <3>. QED
        BY <1>7, <3>1 DEF AnsweredInOrder
  <2>2. CASE i =< Len(s) /\ j > Len(s)
    <3>1. /\ i \in 1 .. Len(s) /\ u[i] = s[i]
          /\ j - Len(s) \in 1 .. Len(a) /\ u[j] = a[j - Len(s)]
        BY <1>3, <1>7, <2>2
    <3>2. u[i] \in Range(s) /\ u[j] \in Range(a)
        BY <1>1, <3>1 DEF Range
    <3>. QED
        BY <1>7, <3>2
  <2>3. CASE i > Len(s)
    <3>1. /\ i - Len(s) \in 1 .. Len(a) /\ u[i] = a[i - Len(s)]
          /\ j - Len(s) \in 1 .. Len(a) /\ u[j] = a[j - Len(s)]
          /\ i - Len(s) < j - Len(s)
        BY <1>3, <1>7, <2>3
    <3>. QED
        BY <1>7, <3>1
  <2>. QED
      BY <1>3, <1>7, <2>1, <2>2, <2>3
<1>8. Range(u) \subseteq recent /\ Range(u) \cap Range(Items') = {}
    BY <1>3 DEF AnsweredInOrder
<1>9. AnsweredInOrder'
    BY <1>2, <1>4, <1>5, <1>6, <1>7, <1>8 DEF AnsweredInOrder
<1>. QED
    BY <1>3, <1>4, <1>9

\* Drains that take nothing more keep their hands apart.
LEMMA HandsStayApart ==
    ASSUME HandsApart, answers' = answers, recent \subseteq recent',
           Range(arrived') \cap recent \subseteq Range(arrived),
           \A y \in Queues : \/ /\ drain'[y].batch = drain[y].batch
                                /\ drain'[y].rest = drain[y].rest
                             \/ drain'[y].batch = <<>> /\ drain'[y].rest = <<>>,
           \A y \in Queues : y # entry' =>
                \/ y # entry \/ Taken(drain'[y]) = {} \/ Range(arrived') = {}
    PROVE  HandsApart'
<1>1. Range(<<>>) = {} /\ IsInjective(<<>>)
    BY DEF Range, IsInjective
<1>2. \A y \in Queues : \/ Taken(drain'[y]) = Taken(drain[y])
                        \/ Taken(drain'[y]) = {}
    BY <1>1 DEF Taken
<1>3. \A y \in Queues : TakenOnce(drain'[y])
    BY <1>1 DEF TakenOnce, HandsApart
<1>4. \A y \in Queues : /\ Taken(drain'[y]) \subseteq recent'
                        /\ Taken(drain'[y]) \cap Range(answers') = {}
    BY <1>2 DEF HandsApart
<1>5. \A y \in Queues \ {entry'} : Taken(drain'[y]) \cap Range(arrived') = {}
    BY <1>2 DEF HandsApart
<1>6. \A p, q \in Queues : p # q => Taken(drain'[p]) \cap Taken(drain'[q]) = {}
    BY <1>2 DEF HandsApart
<1>. QED
    BY <1>3, <1>4, <1>5, <1>6 DEF HandsApart

\* Nothing of what a hand is compared with has changed.
LEMMA LeadsStay ==
    ASSUME arrived' = arrived, Items' = Items,
           Range(answers') \cap Range(arrived)
              = Range(answers) \cap Range(arrived)
    PROVE  \A s : Leads(s) => Leads(s)'
<1>1. \A m, n : Before(m, n)' = Before(m, n)
    BY DEF Before
<1>2. \A s : InOrder(s) => InOrder(s)'
    BY <1>1 DEF InOrder
<1>. QED
    BY <1>1, <1>2 DEF Leads

\* The hand of the registered object's drain is what it was, or new and at the
\* front of the queue.
LEMMA HandStillLeads ==
    ASSUME HandLeads, arrived' = arrived,
           Range(answers') \cap Range(arrived)
              = Range(answers) \cap Range(arrived),
           \A y \in Queues : y = entry' /\ drain'[y].pc \in Busy =>
                /\ Items' = Items
                /\ \/ /\ y = entry /\ drain[y].pc \in Busy
                      /\ drain'[y].batch = drain[y].batch
                      /\ drain'[y].rest = drain[y].rest
                   \/ Leads(Hand(drain'[y]))
    PROVE  HandLeads'
<1>. SUFFICES ASSUME NEW y \in Queues, y = entry', drain'[y].pc \in Busy
              PROVE  Leads(Hand(drain[y]))'
    BY DEF HandLeads
<1>1. Leads(Hand(drain'[y]))
  <2>1. CASE /\ y = entry /\ drain[y].pc \in Busy
             /\ drain'[y].batch = drain[y].batch
             /\ drain'[y].rest = drain[y].rest
    <3>1. Leads(Hand(drain[y])) /\ Hand(drain'[y]) = Hand(drain[y])
        BY <2>1 DEF HandLeads, Hand
    <3>. QED
        BY <3>1
  <2>. QED
      BY <2>1
<1>2. Items' = Items
    OBVIOUS
<1>3. \A s : Leads(s) => Leads(s)'
    BY <1>2, LeadsStay
<1>. QED
    BY <1>1, <1>3

\* What is taken from the front leads.
LEMMA FrontLeads ==
    ASSUME TypeInv, ItemsInOrder, AnsweredInOrder, NEW s \in Seq(Messages),
           Len(s) =< Len(Items), \A i \in 1 .. Len(s) : s[i] = Items[i]
    PROVE  Leads(s)
<1>1. /\ Items \in Seq(Messages) /\ Len(Items) \in Nat /\ Len(s) \in Nat
      /\ DOMAIN Items = 1 .. Len(Items) /\ DOMAIN s = 1 .. Len(s)
      /\ \A i \in 1 .. Len(s) : i \in 1 .. Len(Items)
    BY HeldIsTyped
<1>2. /\ \A i, j \in 1 .. Len(Items) : i < j => Before(Items[i], Items[j])
      /\ \A i, j \in 1 .. Len(Items) : Items[i] = Items[j] => i = j
      /\ Range(Items) \subseteq Range(arrived)
    BY <1>1, ItemsAreDistinct DEF ItemsInOrder, IsInjective
<1>3. Range(s) \subseteq Range(Items)
    BY <1>1 DEF Range
<1>4. InOrder(s)
    BY <1>1, <1>2 DEF InOrder
<1>5. ASSUME NEW m \in Range(s), NEW n \in Range(Items) \ Range(s)
      PROVE  Before(m, n)
  <2>1. PICK i \in 1 .. Len(s) : m = s[i]
      BY <1>1 DEF Range
  <2>2. PICK j \in 1 .. Len(Items) : n = Items[j]
      BY <1>1 DEF Range
  <2>3. j \notin 1 .. Len(s)
    <3>1. j \in 1 .. Len(s) => n \in Range(s)
        BY <1>1, <2>2 DEF Range
    <3>. QED
        BY <3>1
  <2>4. i \in 1 .. Len(Items) /\ i < j /\ m = Items[i]
      BY <1>1, <2>1, <2>2, <2>3
  <2>. QED
      BY <1>2, <2>2, <2>4
<1>6. \A m \in Range(answers) \cap Range(arrived), n \in Range(s) : Before(m, n)
    BY <1>3 DEF AnsweredInOrder
<1>7. ASSUME NEW i \in 1 .. Len(Items), NEW j \in 1 .. Len(s), Items[i] = s[j]
      PROVE  i =< j
  <2>1. i = j
      BY <1>1, <1>2, <1>7
  <2>. QED
      BY <1>1, <2>1
<1>. QED
    BY <1>2, <1>3, <1>4, <1>5, <1>6, <1>7 DEF Leads

\* A hand that rests on the items is their front.
LEMMA HandRests ==
    ASSUME NEW r \in QueueType, NEW d \in DrainType, RestsOnItems(r, d)
    PROVE  /\ Hand(d) \in Seq(Messages) /\ Len(Hand(d)) =< Len(r.items)
           /\ \A i \in 1 .. Len(Hand(d)) : Hand(d)[i] = r.items[i]
<1>. DEFINE b == d.batch
            t == d.rest
            u == r.items
            h == Hand(d)
<1>1. b \in Seq(Messages) /\ t \in Seq(Messages) /\ u \in Seq(Messages)
    BY QueueTypes DEF DrainType
<1>2. /\ Len(b) + Len(t) =< Len(u)
      /\ \A i \in 1 .. Len(b) : b[i] = u[i]
      /\ \A i \in 1 .. Len(t) : t[i] = u[Len(b) + i]
    BY DEF RestsOnItems
<1>3. h = b \o t
    BY DEF Hand
<1>. HIDE DEF b, t, u, h
<1>4. /\ h \in Seq(Messages) /\ Len(h) = Len(b) + Len(t)
      /\ \A i \in 1 .. Len(b) + Len(t) :
            h[i] = IF i =< Len(b) THEN b[i] ELSE t[i - Len(b)]
      /\ Len(b) \in Nat /\ Len(t) \in Nat
    BY <1>1, <1>3, ConcatProperties
<1>5. ASSUME NEW i \in 1 .. Len(h) PROVE h[i] = u[i]
  <2>1. CASE i =< Len(b)
      BY <1>2, <1>4, <2>1
  <2>2. CASE i > Len(b)
    <3>1. i - Len(b) \in 1 .. Len(t) /\ Len(b) + (i - Len(b)) = i
        BY <1>4, <2>2
    <3>2. h[i] = t[i - Len(b)]
        BY <1>4, <2>2
    <3>. QED
        BY <1>2, <3>1, <3>2
  <2>. QED
      BY <1>4, <2>1, <2>2
<1>. QED
    BY <1>2, <1>4, <1>5 DEF u, h

\* Of what leads, the first part b and the rest t; and what stays of the items
\* when as many as b has are removed.
LEMMA LeadingParts ==
    ASSUME TypeInv, NEW b \in Seq(Messages), NEW t \in Seq(Messages),
           Leads(b \o t)
    PROVE  LET x == Behind(b, Items)
           IN  /\ Selected(x, Items) /\ Range(b) \cap Range(x) = {}
               /\ Range(b) \cup Range(t) \subseteq Range(arrived)
               /\ InOrder(b) /\ InOrder(t)
               /\ \A m \in Range(answers) \cap Range(arrived),
                     n \in Range(b) \cup Range(t) : Before(m, n)
               /\ \A m \in Range(b), n \in Range(t) \cup Range(x) : Before(m, n)
               /\ \A m \in Range(t), n \in Range(x) \ Range(t) : Before(m, n)
               /\ \A i \in 1 .. Len(x), j \in 1 .. Len(t) :
                     x[i] = t[j] => i =< j
<1>. DEFINE h == b \o t
            x == Behind(b, Items)
<1>1. /\ Len(h) = Len(b) + Len(t)
      /\ \A i \in 1 .. Len(b) + Len(t) :
            h[i] = IF i =< Len(b) THEN b[i] ELSE t[i - Len(b)]
      /\ Len(b) \in Nat /\ Len(t) \in Nat
      /\ DOMAIN b = 1 .. Len(b) /\ DOMAIN t = 1 .. Len(t)
      /\ Range(h) = Range(b) \cup Range(t)
    BY ConcatProperties, RangeConcatenation
<1>2. Leads(h)
    OBVIOUS
<1>. HIDE DEF h
<1>3. /\ \A i \in 1 .. Len(b) : i \in 1 .. Len(h) /\ h[i] = b[i]
      /\ \A i \in 1 .. Len(t) :
            Len(b) + i \in 1 .. Len(h) /\ h[Len(b) + i] = t[i]
    BY <1>1
<1>4. Items \in Seq(Messages)
    BY HeldIsTyped
<1>5. /\ x \in Seq(Messages) /\ Selected(x, Items)
      /\ \A i \in 1 .. Len(x) : /\ Len(b) + i \in 1 .. Len(Items)
                                /\ x[i] = Items[Len(b) + i]
      /\ DOMAIN x = 1 .. Len(x)
  <2>1. /\ x \in Seq(Messages) /\ Selected(x, Items)
        /\ \A i \in 1 .. Len(x) : /\ Len(b) + i \in 1 .. Len(Items)
                                  /\ x[i] = Items[Len(b) + i]
      BY <1>4, BehindIsPart
  <2>. HIDE DEF x
  <2>. QED
      BY <2>1
<1>. HIDE DEF x
<1>6. /\ \A i, j \in 1 .. Len(h) : i < j => Before(h[i], h[j])
      /\ \A i \in 1 .. Len(Items), j \in 1 .. Len(h) : Items[i] = h[j] => i =< j
    BY <1>2 DEF Leads, InOrder
<1>7. Range(b) \cap Range(x) = {}
  <2>. SUFFICES ASSUME NEW i \in 1 .. Len(b), NEW j \in 1 .. Len(x), b[i] = x[j]
                PROVE  FALSE
      BY <1>1, <1>5 DEF Range
  <2>1. Len(b) + j =< i
      BY <1>3, <1>5, <1>6
  <2>. QED
      BY <1>1, <1>5, <2>1
<1>8. InOrder(b)
    BY <1>3, <1>6 DEF InOrder
<1>9. InOrder(t)
  <2>. SUFFICES ASSUME NEW i \in 1 .. Len(t), NEW j \in 1 .. Len(t), i < j
                PROVE  Before(t[i], t[j])
      BY DEF InOrder
  <2>1. Len(b) + i < Len(b) + j
      BY <1>1
  <2>. QED
      BY <1>3, <1>6, <2>1
<1>10. ASSUME NEW m \in Range(b), NEW n \in Range(t) PROVE Before(m, n)
  <2>1. PICK i \in 1 .. Len(b), j \in 1 .. Len(t) : m = b[i] /\ n = t[j]
      BY <1>1 DEF Range
  <2>2. i < Len(b) + j
      BY <1>1
  <2>. QED
      BY <1>3, <1>6, <2>1, <2>2
<1>11. /\ Range(x) \subseteq Range(Items)
       /\ \A m \in Range(h), n \in Range(Items) \ Range(h) : Before(m, n)
       /\ \A m \in Range(answers) \cap Range(arrived), n \in Range(h) :
             Before(m, n)
       /\ Range(h) \subseteq Range(arrived)
    BY <1>2, <1>5 DEF Leads, Selected
<1>12. ASSUME NEW m \in Range(b), NEW n \in Range(x) PROVE Before(m, n)
    BY <1>1, <1>7, <1>10, <1>11
<1>13. \A m \in Range(t), n \in Range(x) \ Range(t) : Before(m, n)
    BY <1>1, <1>7, <1>11
<1>14. ASSUME NEW i \in 1 .. Len(x), NEW j \in 1 .. Len(t), x[i] = t[j]
       PROVE  i =< j
  <2>1. Len(b) + i \in 1 .. Len(Items) /\ Len(b) + j \in 1 .. Len(h)
      BY <1>3, <1>5
  <2>2. Items[Len(b) + i] = h[Len(b) + j]
      BY <1>3, <1>5, <1>14
  <2>3. Len(b) + i =< Len(b) + j
      BY <1>6, <2>1, <2>2
  <2>. QED
      BY <1>1, <1>5, <2>3
<1>. QED
    BY <1>1, <1>5, <1>7, <1>8, <1>9, <1>10, <1>11, <1>12, <1>13, <1>14 DEF x

-----------------------------------------------------------------------------
(***************************************************************************)
(* The steps of a drain keep everything.                                   *)
(***************************************************************************)

LEMMA DetachedIsEmpty ==
    ASSUME Sound(entry, queue, drain), NEW q \in Queues, q # entry
    PROVE  /\ queue[q].items = <<>> /\ queue[q].dropped = 0
           /\ queue[q].lines = <<>> /\ queue[q].sources = <<>>
BY DEF Sound, QueueOK

LEMMA UnusedIsOK ==
    ASSUME NEW q, NEW e
    PROVE  QueueOK(q, e, Unused)
BY BlankOnes DEF QueueOK, TellsInBatches, Unused, QueueFor

LEMMA LeftIsOK ==
    ASSUME NEW q, NEW r, NEW x, Left(q, x, r), QueueOK(q, entry, r)
    PROVE  QueueOK(q, entry, x)
BY UnusedIsOK DEF Left

LEMMA QuietIsOK ==
    ASSUME NEW q, NEW e, NEW r, NEW d, DrainTyped(d), Quiet(d)
    PROVE  /\ DrainOK(q, e, r, d)
           /\ d.batch = <<>> /\ d.rest = <<>>
BY DEF DrainTyped, Quiet, Busy, DrainOK

\* A step that takes nothing new out of the queue for the drain.
LEMMA QuietMove ==
    ASSUME IInv, UNCHANGED <<fenced, arrived, answers, recent>>,
           NEW q \in Queues, NEW x, NEW d, Moves(q, x, d),
           QueueOK(q, entry, x), DrainOK(q, entry, x, d),
           q = entry => Selected(x.items, queue[q].items),
           \/ Quiet(d)
           \/ /\ q = entry => x.items = queue[q].items
              /\ drain[q].pc \in Busy
              /\ d.batch = drain[q].batch /\ d.rest = drain[q].rest
    PROVE  /\ Sound(entry, queue, drain)'
           /\ ItemsInOrder' /\ HandsApart' /\ AnsweredInOrder' /\ HandLeads'
           /\ Items' = IF q = entry THEN x.items ELSE Items
           /\ Lines' = IF q = entry THEN x.lines ELSE Lines
           /\ Sources' = IF q = entry THEN x.sources ELSE Sources
<1>1. TypeInv /\ Kept
    BY DEF IInv, AuthInv
<1>2. /\ Sound(entry, queue, drain)'
      /\ Items' = IF q = entry THEN x.items ELSE Items
      /\ Lines' = IF q = entry THEN x.lines ELSE Lines
      /\ Sources' = IF q = entry THEN x.sources ELSE Sources
      /\ drain'[q].batch = d.batch /\ drain'[q].rest = d.rest
      /\ \A y \in Queues \ {q} : /\ drain'[y].batch = drain[y].batch
                                 /\ drain'[y].rest = drain[y].rest
      /\ \A y \in Queues : y # entry' => y # entry \/ Taken(drain'[y]) = {}
      /\ entry' = entry \/ entry' = NoQueue
      /\ drain'[q].pc \in Busy => drain'[q] = d
      /\ \A y \in Queues \ {q} :
            drain'[y].pc \in Busy => drain'[y] = drain[y]
    BY <1>1, MovesKeepSound DEF Kept
<1>3. Selected(Items', Items)
  <2>1. /\ Items \in Seq(Messages)
        /\ q = entry => Items = queue[q].items
      BY <1>1, HeldIsTyped
  <2>. QED
      BY <1>2, <2>1, AllIsSelected
<1>4. ItemsInOrder' /\ AnsweredInOrder'
    BY <1>1, <1>3, FewerItems DEF Kept
<1>5. HandsApart'
  <2>1. \/ d.batch = <<>> /\ d.rest = <<>>
        \/ d.batch = drain[q].batch /\ d.rest = drain[q].rest
      BY QuietIsOK DEF Moves
  <2>. QED
      BY <1>1, <1>2, <2>1, HandsStayApart DEF Kept
<1>6. HandLeads'
  <2>1. ASSUME NEW y \in Queues, y = entry', drain'[y].pc \in Busy
        PROVE  /\ Items' = Items /\ y = entry /\ drain[y].pc \in Busy
               /\ drain'[y].batch = drain[y].batch
               /\ drain'[y].rest = drain[y].rest
    <3>1. y = entry
        BY <1>2, <2>1, BoundsAssumption
    <3>2. CASE y = q
      <4>1. ~Quiet(d)
          BY <1>2, <2>1, <3>2 DEF Quiet, Busy
      <4>2. Items = queue[q].items
          BY <1>1, <3>1, <3>2, HeldIsTyped
      <4>. QED
          BY <1>2, <3>1, <3>2, <4>1, <4>2
    <3>3. CASE y # q
        BY <1>2, <2>1, <3>1, <3>3
    <3>. QED
        BY <3>2, <3>3
  <2>2. HandLeads /\ Range(answers') \cap Range(arrived)
                        = Range(answers) \cap Range(arrived)
      BY <1>1 DEF Kept
  <2>. QED
      BY <2>1, <2>2, HandStillLeads
<1>. QED
    BY <1>2, <1>4, <1>5, <1>6

\* A step that takes items of the queue into the hands of the drain.
LEMMA TakingMove ==
    ASSUME IInv, UNCHANGED <<fenced, arrived, answers, recent>>,
           NEW q \in Queues, NEW d, Moves(q, queue[q], d),
           DrainOK(q, entry, queue[q], d), TakenOnce(d),
           Taken(d) \subseteq Range(queue[q].items),
           d.pc \in Busy => RestsOnItems(queue[q], d)
    PROVE  /\ Sound(entry, queue, drain)'
           /\ ItemsInOrder' /\ HandsApart' /\ AnsweredInOrder' /\ HandLeads'
           /\ Items' = Items /\ Lines' = Lines /\ Sources' = Sources
<1>1. TypeInv /\ Kept
    BY DEF IInv, AuthInv
<1>2. QueueOK(q, entry, queue[q])
    BY <1>1 DEF Kept, Sound
<1>3. /\ Items \in Seq(Messages)
      /\ q = entry => /\ Items = queue[q].items
                      /\ Lines = queue[q].lines
                      /\ Sources = queue[q].sources
    BY <1>1, HeldIsTyped
<1>4. /\ Sound(entry, queue, drain)'
      /\ Items' = Items /\ Lines' = Lines /\ Sources' = Sources
      /\ drain'[q].batch = d.batch /\ drain'[q].rest = d.rest
      /\ \A y \in Queues \ {q} : /\ drain'[y].batch = drain[y].batch
                                 /\ drain'[y].rest = drain[y].rest
      /\ \A y \in Queues : y # entry' => y # entry \/ Taken(drain'[y]) = {}
      /\ entry' = entry \/ entry' = NoQueue
      /\ drain'[q].pc \in Busy => drain'[q] = d
      /\ \A y \in Queues \ {q} :
            drain'[y].pc \in Busy => drain'[y] = drain[y]
    BY <1>1, <1>2, <1>3, MovesKeepSound DEF Kept
<1>5. ItemsInOrder' /\ AnsweredInOrder'
    BY <1>1, <1>3, <1>4, AllIsSelected, FewerItems DEF Kept
<1>6. HandsApart'
  <2>1. /\ TakenOnce(drain'[q]) /\ Taken(drain'[q]) = Taken(d)
        /\ \A y \in Queues \ {q} : /\ TakenOnce(drain'[y])
                                   /\ Taken(drain'[y]) = Taken(drain[y])
      BY <1>1, <1>4 DEF Taken, TakenOnce, Kept, HandsApart
  <2>2. q # entry => Taken(d) = {}
    <3>1. q # entry => Range(queue[q].items) = {}
        BY <1>1, DetachedIsEmpty DEF Kept, Range
    <3>. QED
        BY <3>1
  <2>3. q = entry => /\ Taken(d) \subseteq Range(arrived)
                     /\ Taken(d) \subseteq recent
                     /\ Taken(d) \cap Range(answers) = {}
      BY <1>1, <1>3 DEF Kept, ItemsInOrder, AnsweredInOrder
  <2>4. \A y \in Queues : /\ TakenOnce(drain'[y])
                          /\ Taken(drain'[y]) \subseteq recent
                          /\ Taken(drain'[y]) \cap Range(answers) = {}
      BY <1>1, <2>1, <2>2, <2>3 DEF Kept, HandsApart
  <2>5. \A y \in Queues \ {entry'} : Taken(drain'[y]) \cap Range(arrived) = {}
      BY <1>1, <1>4, <2>1, <2>2 DEF Kept, HandsApart
  <2>6. \A y \in Queues \ {q} : Taken(d) \cap Taken(drain[y]) = {}
      BY <1>1, <2>2, <2>3 DEF Kept, HandsApart
  <2>7. ASSUME NEW y \in Queues, NEW z \in Queues, y # z
        PROVE  Taken(drain'[y]) \cap Taken(drain'[z]) = {}
    <3>1. CASE y = q
        BY <2>1, <2>6, <2>7, <3>1
    <3>2. CASE z = q
        BY <2>1, <2>6, <2>7, <3>2
    <3>3. CASE y # q /\ z # q
        BY <1>1, <2>1, <2>7, <3>3 DEF Kept, HandsApart
    <3>. QED
        BY <3>1, <3>2, <3>3
  <2>. QED
      BY <2>4, <2>5, <2>7 DEF HandsApart
<1>7. HandLeads'
  <2>1. ASSUME NEW y \in Queues, y = entry', drain'[y].pc \in Busy
        PROVE  /\ Items' = Items
               /\ \/ /\ y = entry /\ drain[y].pc \in Busy
                     /\ drain'[y].batch = drain[y].batch
                     /\ drain'[y].rest = drain[y].rest
                  \/ Leads(Hand(drain'[y]))
    <3>1. y = entry
        BY <1>4, <2>1, BoundsAssumption
    <3>2. CASE y = q
      <4>1. drain'[y] = d /\ d.pc \in Busy /\ d \in DrainType
          BY <1>4, <2>1, <3>2 DEF Moves, DrainTyped
      <4>2. queue[q] \in QueueType
          BY <1>1 DEF TypeInv, RegistryTyped
      <4>3. /\ Hand(d) \in Seq(Messages) /\ Len(Hand(d)) =< Len(Items)
            /\ \A i \in 1 .. Len(Hand(d)) : Hand(d)[i] = Items[i]
          BY <1>3, <3>1, <3>2, <4>1, <4>2, HandRests
      <4>4. Leads(Hand(d))
          BY <1>1, <4>3, FrontLeads DEF Kept
      <4>. QED
          BY <1>4, <4>1, <4>4
    <3>3. CASE y # q
        BY <1>4, <2>1, <3>1, <3>3
    <3>. QED
        BY <3>2, <3>3
  <2>2. HandLeads /\ Range(answers') \cap Range(arrived)
                        = Range(answers) \cap Range(arrived)
      BY <1>1 DEF Kept
  <2>. QED
      BY <2>1, <2>2, HandStillLeads
<1>. QED
    BY <1>4, <1>5, <1>6, <1>7

LEMMA BatchedIsOK ==
    ASSUME TypeInv, NEW q, NEW r \in QueueType, NEW d, DrainTyped(d),
           Batched(r, d), QueueOK(q, entry, r), IsInjective(r.items)
    PROVE  /\ DrainOK(q, entry, r, d)
           /\ RestsOnItems(r, d)
           /\ TakenOnce(d)
           /\ Taken(d) \subseteq Range(r.items)
<1>1. /\ r.items \in Seq(Messages) /\ r.mode \in {"followup", "collect"}
      /\ d.pc \in Busy /\ d.pc # "dropping"
    BY QueueTypes DEF QueueType, Batched, Busy
<1>2. Range(<<>>) = {} /\ IsInjective(<<>>)
    BY DEF Range, IsInjective
<1>3. SummariesAreBatched => (r.mode # "collect" => Summary(r) = NoSummary)
    BY <1>1 DEF QueueOK, TellsInBatches, Summary
<1>4. /\ SummariesAreBatched => ~d.summaryOnly
      /\ d.summary # NoSummary =>
            d.summary = [dropped |-> r.dropped, lines |-> r.lines]
      /\ d.summary.dropped = 0 => d.summary.lines = <<>>
  <2>1. /\ d.summary \in {NoSummary, Summary(r)}
        /\ SummariesAreBatched => ~d.summaryOnly
      BY <1>3 DEF Batched
  <2>2. Summary(r) # NoSummary =>
            /\ Summary(r) = [dropped |-> r.dropped, lines |-> r.lines]
            /\ r.dropped # 0
      BY DEF Summary
  <2>3. NoSummary.lines = <<>>
      BY DEF NoSummary
  <2>. QED
      BY <2>1, <2>2, <2>3
<1>5. CASE r.items = <<>> /\ d.batch = <<>> /\ d.rest = <<>>
  <2>1. RestsOnItems(r, d)
      BY <1>5 DEF RestsOnItems
  <2>2. TakenOnce(d) /\ Taken(d) = {}
      BY <1>2, <1>5 DEF TakenOnce, Taken
  <2>3. DrainOK(q, entry, r, d)
      BY <1>1, <1>2, <1>4, <1>5, <2>1 DEF DrainOK
  <2>. QED
      BY <2>1, <2>2, <2>3
<1>6. CASE /\ r.items # <<>> /\ ~IsCrossChannel(r.items)
           /\ d.batch = FirstGroup(r.items)
           /\ d.rest = Behind(FirstGroup(r.items), r.items)
  <2>1. /\ d.batch \in Seq(Messages) /\ Len(d.batch) =< Len(r.items)
        /\ \A i \in 1 .. Len(d.batch) : d.batch[i] = r.items[i]
      BY <1>1, <1>6, FirstGroupIsFirst
  <2>2. d.rest = Behind(d.batch, r.items)
      BY <1>6
  <2>3. /\ Len(d.rest) = Len(r.items) - Len(d.batch)
        /\ \A i \in 1 .. Len(d.rest) : d.rest[i] = r.items[Len(d.batch) + i]
        /\ Range(r.items) = Range(d.batch) \cup Range(d.rest)
        /\ IsInjective(d.batch) /\ IsInjective(d.rest)
        /\ Range(d.batch) \cap Range(d.rest) = {}
    <3>. DEFINE b == d.batch
                t == r.items
    <3>1. /\ b \in Seq(Messages) /\ t \in Seq(Messages)
          /\ Len(b) =< Len(t) /\ \A i \in 1 .. Len(b) : b[i] = t[i]
          /\ IsInjective(t) /\ d.rest = Behind(b, t)
        BY <1>1, <2>1, <2>2
    <3>. HIDE DEF b, t
    <3>2. /\ Len(Behind(b, t)) = Len(t) - Len(b)
          /\ \A i \in 1 .. Len(Behind(b, t)) :
                Behind(b, t)[i] = t[Len(b) + i]
          /\ Range(t) = Range(b) \cup Range(Behind(b, t))
          /\ IsInjective(b) /\ IsInjective(Behind(b, t))
          /\ Range(b) \cap Range(Behind(b, t)) = {}
        BY <3>1, BehindIsTheRest
    <3>. QED
        BY <3>1, <3>2 DEF b, t
  <2>4. RestsOnItems(r, d)
      BY <1>1, <2>1, <2>3 DEF RestsOnItems
  <2>5. Range(r.items) \cap fenced = {}
      BY <1>6 DEF IsCrossChannel
  <2>6. DrainOK(q, entry, r, d)
      BY <1>1, <1>4, <2>3, <2>4, <2>5 DEF DrainOK
  <2>. QED
      BY <2>3, <2>4, <2>6 DEF TakenOnce, Taken
<1>7. CASE /\ r.items # <<>> /\ d.batch = <<Head(r.items)>> /\ d.rest = <<>>
           /\ d.summary = IF r.mode = "collect" THEN NoSummary ELSE Summary(r)
  <2>1. Len(r.items) \in Nat \ {0} /\ Head(r.items) = r.items[1]
      BY <1>1, <1>7
  <2>2. RestsOnItems(r, d)
      BY <1>7, <2>1 DEF RestsOnItems
  <2>3. /\ Range(d.batch) = {r.items[1]} /\ IsInjective(d.batch)
        /\ Len(d.batch) = 1
      BY <1>7, <2>1 DEF Range, IsInjective
  <2>4. SummariesAreBatched => d.summary = NoSummary
      BY <1>3, <1>7
  <2>5. DrainOK(q, entry, r, d)
      BY <1>1, <1>2, <1>4, <1>7, <2>2, <2>3, <2>4 DEF DrainOK
  <2>6. r.items[1] \in Range(r.items)
      BY <1>1, <2>1 DEF Range
  <2>. QED
      BY <1>2, <1>7, <2>2, <2>3, <2>5, <2>6 DEF TakenOnce, Taken
<1>. QED
    BY <1>5, <1>6, <1>7 DEF Batched

LEMMA SweepKeeps ==
    ASSUME IInv, NEW q \in Queues, Sweep(q)
    PROVE  Kept'
<1>1. TypeInv /\ Kept /\ Sound(entry, queue, drain)
    BY DEF IInv, AuthInv, Kept
<1>2. /\ queue[q] \in QueueType /\ queue[q].items \in Seq(Messages)
      /\ QueueOK(q, entry, queue[q])
      /\ fate \in [Messages -> Fates]
    BY <1>1, QueueTypes DEF TypeInv, RegistryTyped, OthersTyped, Sound
<1>3. UNCHANGED <<fenced, arrived, answers, recent>>
    BY DEF Sweep, history
<1>4. /\ q = entry => /\ Items = queue[q].items
                      /\ Lines = queue[q].lines
                      /\ Sources = queue[q].sources
    BY <1>1, HeldIsTyped
<1>5. IsInjective(queue[q].items)
  <2>1. CASE q = entry
      BY <1>1, <1>4, <2>1, ItemsAreDistinct DEF Kept
  <2>2. CASE q # entry
      BY <1>1, <2>2, DetachedIsEmpty DEF IsInjective
  <2>. QED
      BY <2>1, <2>2
<1>6. ASSUME UNCHANGED <<completed, fate>>,
             Items' = Items, Lines' = Lines, Sources' = Sources
      PROVE  WaitingAreQueued' /\ FencesAreKnown'
    BY <1>1, <1>3, <1>6 DEF Kept, WaitingAreQueued, FencesAreKnown
<1>7. ASSUME UNCHANGED <<completed, fate>>,
             NEW x, NEW d, Moves(q, x, d), Left(q, x, queue[q]), Quiet(d)
      PROVE  Kept'
  <2>1. QueueOK(q, entry, x)
      BY <1>2, <1>7, LeftIsOK
  <2>2. DrainOK(q, entry, x, d) /\ d.batch = <<>> /\ d.rest = <<>>
      BY <1>7, QuietIsOK DEF Moves
  <2>3. q = entry => x = queue[q]
      BY <1>7 DEF Left
  <2>4. q = entry => Selected(x.items, queue[q].items)
      BY <1>2, <2>3, AllIsSelected
  <2>5. /\ Sound(entry, queue, drain)'
        /\ ItemsInOrder' /\ HandsApart' /\ AnsweredInOrder' /\ HandLeads'
        /\ Items' = Items /\ Lines' = Lines /\ Sources' = Sources
      BY <1>3, <1>4, <1>7, <2>1, <2>2, <2>3, <2>4, QuietMove
  <2>. QED
      BY <1>6, <1>7, <2>5 DEF Kept
<1>8. ASSUME UNCHANGED <<completed, fate>>, NEW d, Moves(q, queue[q], d),
             Batched(queue[q], d) \/ Drops(queue[q], d)
      PROVE  Kept'
  <2>1. /\ DrainOK(q, entry, queue[q], d) /\ TakenOnce(d)
        /\ Taken(d) \subseteq Range(queue[q].items)
        /\ d.pc \in Busy => RestsOnItems(queue[q], d)
    <3>1. CASE Batched(queue[q], d)
        BY <1>1, <1>2, <1>5, <1>8, <3>1, BatchedIsOK DEF Moves
    <3>2. CASE Drops(queue[q], d)
      <4>1. DrainOK(q, entry, queue[q], d)
          BY <3>2 DEF Drops, DrainOK, Busy
      <4>2. Range(d.batch) = {queue[q].items[d.at]} /\ IsInjective(d.batch)
          BY <3>2 DEF Drops, Range, IsInjective
      <4>3. Range(d.rest) = {} /\ IsInjective(d.rest)
          BY <3>2 DEF Drops, Range, IsInjective
      <4>4. queue[q].items[d.at] \in Range(queue[q].items)
          BY <1>2, <3>2 DEF Drops, Range
      <4>. QED
          BY <3>2, <4>1, <4>2, <4>3, <4>4 DEF TakenOnce, Taken, Drops, Busy
    <3>. QED
        BY <1>8, <3>1, <3>2
  <2>2. /\ Sound(entry, queue, drain)'
        /\ ItemsInOrder' /\ HandsApart' /\ AnsweredInOrder' /\ HandLeads'
        /\ Items' = Items /\ Lines' = Lines /\ Sources' = Sources
      BY <1>3, <1>8, <2>1, TakingMove
  <2>. QED
      BY <1>6, <1>8, <2>2 DEF Kept
<1>9. CASE /\ queue[q].items = <<>>
           /\ \E x : /\ Moves(q, x, NoDrain)
                     /\ Left(q, x, ClearSummary(queue[q]))
           /\ completed' = completed
                             \cup (Range(queue[q].sources) \cap fenced)
           /\ fate' = [m \in Messages |->
                         IF fate[m] = "summarising"
                            /\ m \in Range(queue[q].lines)
                         THEN "dropped" ELSE fate[m]]
  <2>. DEFINE c == ClearSummary(queue[q])
  <2>1. PICK x : Moves(q, x, NoDrain) /\ Left(q, x, c)
      BY <1>9
  <2>2. /\ c.items = <<>> /\ c.dropped = 0 /\ c.lines = <<>>
        /\ c.sources = <<>> /\ c.mode = queue[q].mode
        /\ c.drop = queue[q].drop
      BY <1>2, <1>9 DEF ClearSummary, QueueType
  <2>. HIDE DEF c
  <2>3. QueueOK(q, entry, c)
      BY <1>2, <2>2 DEF QueueOK, TellsInBatches
  <2>4. QueueOK(q, entry, x) /\ (q = entry => x = c)
      BY <2>1, <2>3, LeftIsOK DEF Left
  <2>5. /\ DrainOK(q, entry, x, NoDrain)
        /\ NoDrain.batch = <<>> /\ NoDrain.rest = <<>>
      BY BlankOnes, QuietIsOK DEF Quiet
  <2>6. q = entry => Selected(x.items, queue[q].items)
      BY <2>2, <2>4, NothingIsSelected
  <2>7. /\ Sound(entry, queue, drain)'
        /\ ItemsInOrder' /\ HandsApart' /\ AnsweredInOrder' /\ HandLeads'
        /\ Items' = IF q = entry THEN x.items ELSE Items
        /\ Lines' = IF q = entry THEN x.lines ELSE Lines
        /\ Sources' = IF q = entry THEN x.sources ELSE Sources
      BY <1>3, <2>1, <2>4, <2>5, <2>6, BlankOnes, QuietMove DEF Quiet
  <2>8. Items' = Items
      BY <1>4, <1>9, <2>2, <2>4, <2>7
  <2>9. ASSUME NoDropsDuringRuns, SummariesAreBatched, NEW m \in Messages
        PROVE  /\ fate'[m] = "waiting" => m \in Range(Items')
               /\ fate'[m] = "summarising" => m \in Range(Lines')
    <3>1. /\ fate[m] = "waiting" => m \in Range(Items)
          /\ fate[m] = "summarising" => m \in Range(Lines)
        BY <1>1, <2>9 DEF Kept, WaitingAreQueued
    <3>2. fate'[m] = IF fate[m] = "summarising" /\ m \in Range(queue[q].lines)
                     THEN "dropped" ELSE fate[m]
        BY <1>9
    <3>3. fate'[m] = "waiting" => m \in Range(Items')
        BY <2>8, <3>1, <3>2
    <3>4. fate'[m] = "summarising" => m \in Range(Lines')
        BY <1>4, <2>7, <3>1, <3>2
    <3>. QED
        BY <3>3, <3>4
  <2>10. FencesAreKnown'
    <3>1. CASE q = entry
        BY <1>1, <1>3, <1>4, <1>9, <2>8, <3>1
        DEF Kept, FencesAreKnown
    <3>2. CASE q # entry
        BY <1>1, <1>3, <1>9, <2>7, <2>8, <3>2 DEF Kept, FencesAreKnown
    <3>. QED
        BY <3>1, <3>2
  <2>. QED
      BY <2>7, <2>9, <2>10 DEF Kept, WaitingAreQueued
<1>. QED
    BY <1>1, <1>7, <1>8, <1>9, SweepMoves

\* What every step of the drain of q may use.
LEMMA AtTheStart ==
    ASSUME IInv, NEW q \in Queues
    PROVE  /\ TypeInv /\ Kept /\ Sound(entry, queue, drain)
           /\ queue[q] \in QueueType /\ queue[q].items \in Seq(Messages)
           /\ QueueOK(q, entry, queue[q])
           /\ DrainOK(q, entry, queue[q], drain[q])
           /\ drain[q] \in DrainType /\ DrainTyped(drain[q])
           /\ drain[q].batch \in Seq(Messages)
           /\ drain[q].rest \in Seq(Messages)
           /\ fate \in [Messages -> Fates]
           /\ q = entry => /\ Items = queue[q].items
                           /\ Lines = queue[q].lines
                           /\ Sources = queue[q].sources
<1>1. TypeInv /\ Kept /\ Sound(entry, queue, drain)
    BY DEF IInv, AuthInv, Kept
<1>2. /\ queue[q] \in QueueType /\ drain[q] \in DrainType
      /\ DrainTyped(drain[q]) /\ fate \in [Messages -> Fates]
    BY <1>1 DEF TypeInv, RegistryTyped, OthersTyped
<1>3. QueueOK(q, entry, queue[q]) /\ DrainOK(q, entry, queue[q], drain[q])
    BY <1>1 DEF Sound
<1>4. drain[q].batch \in Seq(Messages) /\ drain[q].rest \in Seq(Messages)
    BY <1>2 DEF DrainType
<1>. QED
    BY <1>1, <1>2, <1>3, <1>4, QueueTypes, HeldIsTyped

\* The message that is dropped leaves the queue, its lifecycle completed.
LEMMA DropKeeps ==
    ASSUME IInv, NEW q \in Queues, DropAborted(q)
    PROVE  Kept'
<1>. DEFINE r == queue[q]
            d == drain[q]
            s == IF d.at =< Len(r.items) THEN RemoveAt(r.items, d.at)
                 ELSE r.items
            x == [r EXCEPT !.items = s]
<1>1. TypeInv /\ Kept /\ r \in QueueType /\ d.pc = "dropping"
      /\ r.items \in Seq(Messages) /\ Len(r.items) \in Nat
      /\ d.at \in Nat \ {0} /\ d.batch \in Seq(Messages) /\ Len(d.batch) = 1
      /\ QueueOK(q, entry, r) /\ DrainOK(q, entry, r, d)
    BY AtTheStart DEF DropAborted, DrainTyped
<1>2. /\ UNCHANGED <<fenced, arrived, answers, recent>>
      /\ completed' = completed \cup Range(d.batch)
      /\ fate' = [m \in Messages |->
                    IF m \in Range(d.batch) THEN "aborted" ELSE fate[m]]
    BY DEF DropAborted, history
<1>3. PICK e : Moves(q, x, e) /\ Quiet(e)
    BY <1>1, DropMoves
<1>4. /\ x.items = s /\ x.dropped = r.dropped /\ x.lines = r.lines
      /\ x.sources = r.sources /\ x.mode = r.mode /\ x.drop = r.drop
    BY <1>1 DEF QueueType
<1>. HIDE DEF x
<1>5. NoDropsDuringRuns /\ q = entry =>
          /\ d.at \in 1 .. Len(r.items) /\ r.items[d.at] \in Range(d.batch)
  <2>1. NoDropsDuringRuns /\ q = entry =>
            d.at \in 1 .. Len(r.items) /\ r.items[d.at] = d.batch[1]
      BY <1>1 DEF DrainOK
  <2>2. d.batch[1] \in Range(d.batch)
      BY <1>1 DEF Range
  <2>. QED
      BY <2>1, <2>2
<1>6. q # entry => s = <<>>
  <2>1. q # entry => r.items = <<>>
      BY <1>1, DetachedIsEmpty DEF Kept
  <2>. QED
      BY <1>1, <2>1
<1>7. QueueOK(q, entry, x)
    BY <1>1, <1>4, <1>6 DEF QueueOK, TellsInBatches
<1>8. DrainOK(q, entry, x, e) /\ e.batch = <<>> /\ e.rest = <<>>
    BY <1>3, QuietIsOK DEF Moves
<1>9. /\ Selected(s, r.items)
      /\ NoDropsDuringRuns /\ q = entry =>
            Range(r.items) \subseteq Range(s) \cup Range(d.batch)
  <2>1. CASE d.at =< Len(r.items)
    <3>1. d.at \in 1 .. Len(r.items) /\ s = RemoveAt(r.items, d.at)
        BY <1>1, <2>1
    <3>2. /\ Selected(RemoveAt(r.items, d.at), r.items)
          /\ Range(r.items) \subseteq Range(RemoveAt(r.items, d.at))
                                       \cup {r.items[d.at]}
        BY <1>1, <3>1, RemovedIsSelected
    <3>. HIDE DEF s
    <3>. QED
        BY <1>5, <3>1, <3>2
  <2>2. CASE ~(d.at =< Len(r.items))
    <3>1. s = r.items /\ Selected(r.items, r.items)
        BY <1>1, <2>2, AllIsSelected
    <3>. HIDE DEF s
    <3>. QED
        BY <3>1
  <2>. QED
      BY <2>1, <2>2
<1>. HIDE DEF s
<1>10. /\ Sound(entry, queue, drain)'
       /\ ItemsInOrder' /\ HandsApart' /\ AnsweredInOrder' /\ HandLeads'
       /\ Items' = IF q = entry THEN x.items ELSE Items
       /\ Lines' = IF q = entry THEN x.lines ELSE Lines
       /\ Sources' = IF q = entry THEN x.sources ELSE Sources
    BY <1>2, <1>3, <1>4, <1>7, <1>8, <1>9, QuietMove
<1>11. /\ NoDropsDuringRuns =>
              Range(Items) \subseteq Range(Items') \cup Range(d.batch)
       /\ Lines' = Lines /\ Sources' = Sources
    BY <1>4, <1>9, <1>10, AtTheStart
<1>12. WaitingAreQueued' /\ FencesAreKnown'
    BY <1>1, <1>2, <1>11 DEF Kept, WaitingAreQueued, FencesAreKnown
<1>. QED
    BY <1>10, <1>12 DEF Kept

\* A step that leaves the queue as it is, and the drain with what it had or
\* with nothing.
LEMMA StillMove ==
    ASSUME IInv, NEW q \in Queues, NEW x, NEW d, Moves(q, x, d),
           UNCHANGED <<fenced, arrived, answers, recent, completed, fate>>,
           x = queue[q] \/ (q # entry /\ x = Unused),
           \/ Quiet(d)
           \/ /\ d.pc \in Busy /\ drain[q].pc \in Busy
              /\ d.batch = drain[q].batch /\ d.rest = drain[q].rest
              /\ d.summary = drain[q].summary
              /\ d.summaryOnly = drain[q].summaryOnly
    PROVE  Kept'
<1>1. QueueOK(q, entry, x)
    BY AtTheStart, UnusedIsOK
<1>2. /\ DrainOK(q, entry, x, d)
      /\ \/ d.batch = <<>> /\ d.rest = <<>>
         \/ d.batch = drain[q].batch /\ d.rest = drain[q].rest
  <2>1. CASE Quiet(d)
      BY <2>1, QuietIsOK DEF Moves
  <2>2. CASE ~Quiet(d)
      BY ZenonT(30), <2>2, AtTheStart DEF DrainOK, Busy, RestsOnItems
  <2>. QED
      BY <2>1, <2>2
<1>3. q = entry => Selected(x.items, queue[q].items)
    BY AtTheStart, AllIsSelected
<1>4. /\ Sound(entry, queue, drain)'
      /\ ItemsInOrder' /\ HandsApart' /\ AnsweredInOrder' /\ HandLeads'
      /\ Items' = IF q = entry THEN x.items ELSE Items
      /\ Lines' = IF q = entry THEN x.lines ELSE Lines
      /\ Sources' = IF q = entry THEN x.sources ELSE Sources
    BY <1>1, <1>2, <1>3, AtTheStart, QuietMove
<1>5. Items' = Items /\ Lines' = Lines /\ Sources' = Sources
    BY <1>4, AtTheStart
<1>6. WaitingAreQueued' /\ FencesAreKnown'
    BY <1>5, AtTheStart DEF Kept, WaitingAreQueued, FencesAreKnown
<1>. QED
    BY <1>4, <1>6 DEF Kept

LEMMA DebounceKeeps ==
    ASSUME IInv, NEW q \in Queues, WaitForQueueDebounce(q)
    PROVE  Kept'
<1>1. UNCHANGED <<fenced, arrived, answers, recent, completed, fate>>
    BY DEF WaitForQueueDebounce, history
<1>2. PICK d : Moves(q, queue[q], d) /\ Quiet(d)
    BY AtTheStart, DebounceMoves
<1>. QED
    BY <1>1, <1>2, StillMove

LEMMA AdmitKeeps ==
    ASSUME IInv, NEW q \in Queues, AdmitReplyTurn(q)
    PROVE  Kept'
<1>. DEFINE d == [drain[q] EXCEPT !.pc = "running"]
<1>1. UNCHANGED <<fenced, arrived, answers, recent, completed, fate>>
      /\ drain[q].pc \in Busy
    BY DEF AdmitReplyTurn, history, Busy
<1>2. Moves(q, queue[q], d)
    BY AtTheStart, AdmitMoves
<1>3. /\ d.pc \in Busy
      /\ d.batch = drain[q].batch /\ d.rest = drain[q].rest
      /\ d.summary = drain[q].summary /\ d.summaryOnly = drain[q].summaryOnly
    BY AtTheStart DEF DrainType, Busy
<1>. HIDE DEF d
<1>. QED
    BY <1>1, <1>2, <1>3, StillMove

\* The summary a run was to tell is in the queue, or put back into it.
LEMMA DeferKeeps ==
    ASSUME IInv, NEW q \in Queues, DeferRun(q)
    PROVE  Kept'
<1>. DEFINE r == queue[q]
            d == drain[q]
            x == IF entry = q THEN Restore(r, d.summary) ELSE Unused
<1>1. UNCHANGED <<fenced, arrived, answers, recent, completed, fate>>
      /\ d.pc \in Busy
    BY DEF DeferRun, history, Busy
<1>2. Moves(q, x, NoDrain) /\ Quiet(NoDrain)
    BY AtTheStart, DeferMoves, BlankOnes DEF Quiet
<1>. DEFINE y == Restore(r, d.summary)
<1>3. /\ r.lines \in Seq(Messages) /\ r.dropped \in Nat
      /\ d.summary.dropped \in Nat /\ d.summary.lines \in Seq(Messages)
      /\ d.summary.dropped = 0 => d.summary.lines = <<>>
      /\ \A s \in Seq(Messages) : IsPrefix(<<>>, s) /\ IsPrefix(s, s)
  <2>1. d.summary \in SummaryType /\ r \in QueueType
      BY AtTheStart DEF DrainType
  <2>2. d.summary.dropped = 0 => d.summary.lines = <<>>
      BY <1>1, AtTheStart DEF DrainOK
  <2>3. \A s \in Seq(Messages) : IsPrefix(<<>>, s) /\ IsPrefix(s, s)
      BY DEF IsPrefix
  <2>. QED
      BY <2>1, <2>2, <2>3, QueueTypes DEF SummaryType
<1>4. ASSUME NoDropsDuringRuns, q = entry PROVE y = r
  <2>1. \/ d.summary = NoSummary
        \/ d.summary = [dropped |-> r.dropped, lines |-> r.lines]
      BY <1>1, <1>4, AtTheStart DEF DrainOK
  <2>2. r.dropped >= d.summary.dropped /\ IsPrefix(d.summary.lines, r.lines)
      BY <1>3, <2>1 DEF NoSummary
  <2>. QED
      BY <2>2 DEF Restore
<1>5. /\ y.items = r.items /\ y.mode = r.mode /\ y.drop = r.drop
      /\ y.sources = r.sources
      /\ y.dropped = 0 => r.dropped = 0 /\ y.lines = r.lines
  <2>1. CASE y = r
      BY <2>1
  <2>2. CASE y # r
    <3>1. /\ ~(r.dropped >= d.summary.dropped
               /\ IsPrefix(d.summary.lines, r.lines))
          /\ y = [r EXCEPT !.dropped = IF @ >= d.summary.dropped
                                       THEN @ ELSE @ + d.summary.dropped,
                           !.lines = d.summary.lines \o @]
        BY <2>2 DEF Restore
    <3>2. d.summary.dropped # 0
        BY <1>3, <3>1
    <3>3. /\ y.items = r.items /\ y.mode = r.mode /\ y.drop = r.drop
          /\ y.sources = r.sources
          /\ y.dropped = IF r.dropped >= d.summary.dropped THEN r.dropped
                         ELSE r.dropped + d.summary.dropped
        BY <3>1, AtTheStart DEF QueueType
    <3>4. y.dropped # 0
        BY <1>3, <3>2, <3>3
    <3>. QED
        BY <3>3, <3>4
  <2>. QED
      BY <2>1, <2>2
<1>. HIDE DEF y
<1>6. QueueOK(q, entry, x) /\ (q = entry => x = y)
  <2>1. CASE q = entry
    <3>1. QueueOK(q, entry, r)
        BY AtTheStart
    <3>2. QueueOK(q, entry, y)
        BY <1>5, <2>1, <3>1 DEF QueueOK, TellsInBatches
    <3>. QED
        BY <2>1, <3>2 DEF y
  <2>2. CASE q # entry
      BY <2>2, UnusedIsOK
  <2>. QED
      BY <2>1, <2>2
<1>. HIDE DEF x
<1>7. DrainOK(q, entry, x, NoDrain)
    BY <1>2, BlankOnes, QuietIsOK
<1>8. q = entry => Selected(x.items, r.items)
    BY <1>5, <1>6, AtTheStart, AllIsSelected
<1>9. /\ Sound(entry, queue, drain)'
      /\ ItemsInOrder' /\ HandsApart' /\ AnsweredInOrder' /\ HandLeads'
      /\ Items' = IF q = entry THEN x.items ELSE Items
      /\ Lines' = IF q = entry THEN x.lines ELSE Lines
      /\ Sources' = IF q = entry THEN x.sources ELSE Sources
    BY <1>1, <1>2, <1>6, <1>7, <1>8, QuietMove
<1>10. NoDropsDuringRuns =>
          Items' = Items /\ Lines' = Lines /\ Sources' = Sources
    BY <1>4, <1>6, <1>9, AtTheStart
<1>11. WaitingAreQueued' /\ FencesAreKnown'
    BY <1>1, <1>10, AtTheStart DEF Kept, WaitingAreQueued, FencesAreKnown
<1>. QED
    BY <1>9, <1>11 DEF Kept

\* What a failed run drops of the summary, it has completed.
LEMMA FailKeeps ==
    ASSUME IInv, NEW q \in Queues, RunFails(q)
    PROVE  Kept'
<1>. DEFINE r == queue[q]
            d == drain[q]
            x == IF entry = q THEN AfterFailure(q) ELSE Unused
<1>1. UNCHANGED <<fenced, arrived, answers, recent, fate>>
      /\ completed' = completed \cup RunCompletes(q)
    BY DEF RunFails, history
<1>2. Moves(q, x, NoDrain) /\ Quiet(NoDrain) /\ DrainTyped(NoDrain)
    BY AtTheStart, FailMoves, BlankOnes DEF Quiet
<1>3. /\ AfterFailure(q).items = r.items
      /\ AfterFailure(q).dropped = r.dropped
      /\ AfterFailure(q).lines = r.lines
      /\ AfterFailure(q).sources = IF d.summary # NoSummary THEN <<>>
                                   ELSE r.sources
      /\ AfterFailure(q).mode = r.mode /\ AfterFailure(q).drop = r.drop
    BY AtTheStart DEF AfterFailure, QueueType
<1>4. QueueOK(q, entry, AfterFailure(q))
    BY <1>3, AtTheStart DEF QueueOK, TellsInBatches
<1>5. QueueOK(q, entry, x) /\ (q = entry => x = AfterFailure(q))
    BY <1>4, UnusedIsOK
<1>. HIDE DEF x
<1>6. DrainOK(q, entry, x, NoDrain)
      /\ NoDrain.batch = <<>> /\ NoDrain.rest = <<>>
    BY <1>2, QuietIsOK
<1>7. q = entry => Selected(x.items, r.items)
    BY <1>3, <1>5, AtTheStart, AllIsSelected
<1>8. /\ Sound(entry, queue, drain)'
      /\ ItemsInOrder' /\ HandsApart' /\ AnsweredInOrder' /\ HandLeads'
      /\ Items' = IF q = entry THEN x.items ELSE Items
      /\ Lines' = IF q = entry THEN x.lines ELSE Lines
      /\ Sources' = IF q = entry THEN x.sources ELSE Sources
    BY <1>1, <1>2, <1>5, <1>6, <1>7, QuietMove
<1>9. /\ Items' = Items /\ Lines' = Lines
      /\ Range(Sources) \cap fenced \subseteq Range(Sources') \cup completed'
    BY <1>1, <1>3, <1>5, <1>8, AtTheStart DEF RunCompletes
<1>10. WaitingAreQueued' /\ FencesAreKnown'
    BY <1>1, <1>9, AtTheStart DEF Kept, WaitingAreQueued, FencesAreKnown
<1>. QED
    BY <1>8, <1>10 DEF Kept

\* Of what the drain has taken, the next group and its rest are left.
LEMMA GroupsRestOnItems ==
    ASSUME IInv, NEW q \in Queues, drain[q].pc \in Busy, NEW e,
           NextGroup(drain[q], e), e.pc \in Busy
    PROVE  /\ DrainOK(q, entry, AfterRun(q), e)
           /\ TakenOnce(e) /\ Taken(e) = Range(drain[q].rest)
           /\ Hand(e) = drain[q].rest
<1>. DEFINE d == drain[q]
            t == d.rest
            b == e.batch
<1>1. /\ b = FirstGroup(t) /\ e.rest = Behind(b, t) /\ t # <<>>
      /\ e.summary = NoSummary /\ e.summaryOnly = d.summaryOnly
      /\ e.summary.lines = <<>>
    BY DEF NextGroup, NoSummary
<1>2. t \in Seq(Messages) /\ IsInjective(t)
    BY AtTheStart DEF Kept, HandsApart, TakenOnce
<1>3. /\ b \in Seq(Messages) /\ Len(b) =< Len(t)
      /\ \A i \in 1 .. Len(b) : b[i] = t[i]
    BY <1>1, <1>2, FirstGroupIsFirst
<1>. HIDE DEF b
<1>4. /\ Behind(b, t) \in Seq(Messages)
      /\ Len(Behind(b, t)) = Len(t) - Len(b)
      /\ \A i \in 1 .. Len(Behind(b, t)) : Behind(b, t)[i] = t[Len(b) + i]
      /\ Range(t) = Range(b) \cup Range(Behind(b, t))
      /\ IsInjective(b) /\ IsInjective(Behind(b, t))
      /\ Range(b) \cap Range(Behind(b, t)) = {}
      /\ b \o Behind(b, t) = t
  <2>. HIDE DEF t
  <2>. QED
      BY <1>2, <1>3, BehindIsTheRest, BehindCompletes
<1>5. TakenOnce(e) /\ Taken(e) = Range(t) /\ Hand(e) = t
    BY <1>1, <1>4 DEF TakenOnce, Taken, Hand, b
<1>6. ASSUME NoDropsDuringRuns, q = entry PROVE RestsOnItems(AfterRun(q), e)
  <2>. DEFINE s == queue[q].items
              x == AfterRun(q).items
  <2>1. /\ Len(d.batch) + Len(t) =< Len(s)
        /\ \A i \in 1 .. Len(d.batch) : d.batch[i] = s[i]
        /\ \A i \in 1 .. Len(t) : t[i] = s[Len(d.batch) + i]
        /\ d.batch \in Seq(Messages) /\ s \in Seq(Messages)
      BY <1>6, AtTheStart DEF DrainOK, RestsOnItems
  <2>2. /\ Len(d.batch) \in Nat /\ Len(s) \in Nat /\ Len(t) \in Nat
        /\ Len(b) \in Nat
      BY <1>2, <1>3, <2>1
  <2>3. x = Behind(d.batch, s)
      BY AtTheStart, AfterRunTypes
  <2>4. /\ Len(x) = Len(s) - Len(d.batch)
        /\ \A i \in 1 .. Len(x) : x[i] = s[Len(d.batch) + i]
    <3>. DEFINE c == d.batch
    <3>1. /\ c \in Seq(Messages) /\ s \in Seq(Messages) /\ x = Behind(c, s)
          /\ \A i \in 1 .. Len(c) : c[i] = s[i]
        BY <2>1, <2>3
    <3>. HIDE DEF s, t, x
    <3>2. Len(c) =< Len(s)
        BY <2>1, <2>2
    <3>. HIDE DEF c
    <3>3. /\ Len(Behind(c, s)) = Len(s) - Len(c)
          /\ \A i \in 1 .. Len(Behind(c, s)) :
                Behind(c, s)[i] = s[Len(c) + i]
        BY <3>1, <3>2, BehindIsTheRest
    <3>. QED
        BY <3>1, <3>3 DEF c
  <2>. HIDE DEF x, s, t
  <2>5. Len(b) + Len(e.rest) = Len(t) /\ Len(t) =< Len(x)
      BY <1>1, <1>4, <2>1, <2>2, <2>4
  <2>6. \A i \in 1 .. Len(t) : t[i] = x[i]
      BY <2>1, <2>2, <2>4
  <2>7. \A i \in 1 .. Len(b) : b[i] = x[i]
      BY <1>3, <2>2, <2>6
  <2>8. \A i \in 1 .. Len(e.rest) : e.rest[i] = x[Len(b) + i]
    <3>1. /\ Len(e.rest) = Len(t) - Len(b)
          /\ \A i \in 1 .. Len(e.rest) : e.rest[i] = t[Len(b) + i]
        BY <1>1, <1>4
    <3>2. \A i \in 1 .. Len(e.rest) : Len(b) + i \in 1 .. Len(t)
        BY <2>2, <3>1
    <3>. QED
        BY <2>6, <3>1, <3>2
  <2>. QED
      BY <2>5, <2>7, <2>8 DEF RestsOnItems, b, x
<1>7. /\ SummariesAreBatched => ~d.summaryOnly
      /\ Range(t) \cap fenced = {}
    BY AtTheStart DEF DrainOK
<1>8. DrainOK(q, entry, AfterRun(q), e)
    BY <1>1, <1>4, <1>6, <1>7 DEF DrainOK, Busy, b
<1>. QED
    BY <1>5, <1>8

LEMMA AfterRunIsOK ==
    ASSUME IInv, NEW q \in Queues, drain[q].pc \in Busy
    PROVE  /\ QueueOK(q, entry, AfterRun(q))
           /\ q = entry => /\ AfterRun(q).items = Behind(drain[q].batch, Items)
                           /\ Leads(drain[q].batch \o drain[q].rest)
           /\ NoDropsDuringRuns /\ q = entry =>
                 Range(Items) = Range(drain[q].batch)
                                \cup Range(AfterRun(q).items)
<1>. DEFINE b == drain[q].batch
            s == queue[q].items
            t == Behind(b, s)
<1>1. b \in Seq(Messages) /\ s \in Seq(Messages)
    BY AtTheStart
<1>2. AfterRun(q).items = t
    BY AtTheStart, AfterRunTypes
<1>3. QueueOK(q, entry, AfterRun(q))
  <2>1. q # entry => t = <<>> /\ queue[q].dropped = 0
    <3>1. q # entry => s = <<>> /\ queue[q].dropped = 0
        BY AtTheStart, DetachedIsEmpty
    <3>. HIDE DEF b
    <3>. QED
        BY <1>1, <3>1, BehindOfNothing
  <2>. HIDE DEF t
  <2>. QED
      BY <1>2, <2>1, AtTheStart, AfterRunTypes DEF QueueOK, TellsInBatches
<1>4. q = entry => Items = s /\ Leads(b \o drain[q].rest)
    BY AtTheStart DEF Kept, HandLeads, Hand
<1>5. ASSUME NoDropsDuringRuns, q = entry
      PROVE  Range(s) = Range(b) \cup Range(t)
  <2>1. Len(b) =< Len(s) /\ \A i \in 1 .. Len(b) : b[i] = s[i]
    <3>1. RestsOnItems(queue[q], drain[q]) /\ drain[q].rest \in Seq(Messages)
        BY <1>5, AtTheStart DEF DrainOK
    <3>2. Len(b) \in Nat /\ Len(drain[q].rest) \in Nat /\ Len(s) \in Nat
        BY <1>1, <3>1
    <3>3. /\ Len(b) + Len(drain[q].rest) =< Len(s)
          /\ \A i \in 1 .. Len(b) : b[i] = s[i]
        BY <3>1 DEF RestsOnItems
    <3>. HIDE DEF b, s
    <3>. QED
        BY <3>2, <3>3
  <2>. HIDE DEF b, s
  <2>. QED
      BY <1>1, <2>1, BehindIsTheRest
<1>. HIDE DEF t, s
<1>. QED
    BY <1>2, <1>3, <1>4, <1>5 DEF t

LEMMA ReturnKeeps ==
    ASSUME IInv, NEW q \in Queues, RunReturns(q)
    PROVE  Kept'
<1>. DEFINE d == drain[q]
            r == queue[q]
            b == d.batch
            a == IF d.summaryOnly \/ Withdrawn(q) THEN <<>> ELSE b
            told == IF Withdrawn(q) THEN {} ELSE Range(d.summary.lines)
<1>1. /\ d.pc \in Busy /\ UNCHANGED <<fenced, recent, aborted, arrived>>
      /\ completed' = completed \cup RunCompletes(q)
      /\ answers' = answers \o a
      /\ fate' = [m \in Messages |->
                    IF m \in Range(a) THEN "answered"
                    ELSE IF m \in Range(b) \cap aborted THEN "aborted"
                    ELSE IF m \in told /\ fate[m] = "summarising"
                    THEN "summarised"
                    ELSE fate[m]]
    BY DEF RunReturns, Busy
<1>2. /\ TypeInv /\ Kept /\ Sound(entry, queue, drain)
      /\ b \in Seq(Messages) /\ aborted \subseteq fenced
      /\ HandsApart /\ AnsweredInOrder /\ ItemsInOrder /\ HandLeads
      /\ Items \in Seq(Messages) /\ d.rest \in Seq(Messages)
    BY AtTheStart, HeldIsTyped DEF Kept, TypeInv, OthersTyped
<1>3. /\ Range(b) \cap fenced = {} \/ Len(b) = 1
      /\ SummariesAreBatched =>
            /\ ~d.summaryOnly
            /\ Range(b) \cap fenced = {} \/ d.summary = NoSummary
      /\ NoDropsDuringRuns /\ q = entry /\ d.summary # NoSummary =>
            d.summary = [dropped |-> r.dropped, lines |-> r.lines]
      /\ q = entry => Lines = r.lines /\ Sources = r.sources
    BY <1>1, AtTheStart DEF DrainOK
<1>4. PICK x, e : /\ Moves(q, x, e)
                  /\ \/ d.rest = <<>> /\ Left(q, x, AfterRun(q)) /\ Quiet(e)
                     \/ x = AfterRun(q) /\ NextGroup(d, e)
    BY <1>2, ReturnMoves
<1>. DEFINE InHand ==
                /\ Range(b) \cup Range(d.rest) \subseteq Range(arrived)
                /\ InOrder(b) /\ InOrder(d.rest)
                /\ \A m \in Range(answers) \cap Range(arrived),
                      n \in Range(b) \cup Range(d.rest) : Before(m, n)
                /\ \A m \in Range(b), n \in Range(d.rest) : Before(m, n)
            InFrontOf(s) ==
                /\ Selected(s, Items) /\ Range(b) \cap Range(s) = {}
                /\ \A m \in Range(b), n \in Range(s) : Before(m, n)
                /\ \A m \in Range(d.rest), n \in Range(s) \ Range(d.rest) :
                      Before(m, n)
                /\ \A i \in 1 .. Len(s), j \in 1 .. Len(d.rest) :
                      s[i] = d.rest[j] => i =< j
<1>5. /\ QueueOK(q, entry, AfterRun(q))
      /\ q = entry => InHand /\ InFrontOf(AfterRun(q).items)
      /\ NoDropsDuringRuns /\ q = entry =>
            Range(Items) = Range(b) \cup Range(AfterRun(q).items)
  <2>1. /\ QueueOK(q, entry, AfterRun(q))
        /\ q = entry => /\ AfterRun(q).items = Behind(b, Items)
                        /\ Leads(b \o d.rest)
        /\ NoDropsDuringRuns /\ q = entry =>
              Range(Items) = Range(b) \cup Range(AfterRun(q).items)
      BY <1>1, AfterRunIsOK
  <2>2. ASSUME Leads(b \o d.rest) PROVE InHand /\ InFrontOf(Behind(b, Items))
    <3>. DEFINE t == d.rest
    <3>1. b \in Seq(Messages) /\ t \in Seq(Messages) /\ Leads(b \o t)
        BY <1>2, <2>2
    <3>. HIDE DEF b, t
    <3>2. LET s == Behind(b, Items)
          IN  /\ Selected(s, Items) /\ Range(b) \cap Range(s) = {}
              /\ Range(b) \cup Range(t) \subseteq Range(arrived)
              /\ InOrder(b) /\ InOrder(t)
              /\ \A m \in Range(answers) \cap Range(arrived),
                    n \in Range(b) \cup Range(t) : Before(m, n)
              /\ \A m \in Range(b), n \in Range(t) \cup Range(s) : Before(m, n)
              /\ \A m \in Range(t), n \in Range(s) \ Range(t) : Before(m, n)
              /\ \A i \in 1 .. Len(s), j \in 1 .. Len(t) :
                    s[i] = t[j] => i =< j
        BY <1>2, <3>1, LeadingParts
    <3>. QED
        BY <3>2 DEF t
  <2>. HIDE DEF InHand, InFrontOf
  <2>. QED
      BY <2>1, <2>2
<1>. HIDE DEF InHand, InFrontOf
<1>6. QueueOK(q, entry, x) /\ (q = entry => x = AfterRun(q))
    BY <1>4, <1>5, LeftIsOK DEF Left
<1>7. /\ DrainOK(q, entry, x, e)
      /\ TakenOnce(e) /\ Taken(e) \subseteq Range(d.rest)
  <2>1. CASE Quiet(e)
    <3>1. DrainOK(q, entry, x, e) /\ e.batch = <<>> /\ e.rest = <<>>
        BY <1>4, <2>1, QuietIsOK DEF Moves
    <3>. QED
        BY <3>1 DEF TakenOnce, Taken, Range, IsInjective
  <2>2. CASE x = AfterRun(q) /\ NextGroup(d, e)
    <3>1. e.pc \in Busy
        BY <2>2 DEF NextGroup, Busy
    <3>. QED
        BY <1>1, <2>2, <3>1, GroupsRestOnItems
  <2>. QED
      BY <1>4, <2>1, <2>2
<1>8. /\ Sound(entry, queue, drain)'
      /\ Items' = IF q = entry THEN x.items ELSE Items
      /\ Lines' = IF q = entry THEN x.lines ELSE Lines
      /\ Sources' = IF q = entry THEN x.sources ELSE Sources
      /\ drain'[q].batch = e.batch /\ drain'[q].rest = e.rest
      /\ \A y \in Queues \ {q} : /\ drain'[y].batch = drain[y].batch
                                 /\ drain'[y].rest = drain[y].rest
      /\ \A y \in Queues : y # entry' => y # entry \/ Taken(drain'[y]) = {}
      /\ entry' = entry \/ entry' = NoQueue
      /\ drain'[q].pc \in Busy => drain'[q] = e
      /\ \A y \in Queues \ {q} :
            drain'[y].pc \in Busy => drain'[y] = drain[y]
    BY <1>1, <1>2, <1>4, <1>6, <1>7, MovesKeepSound
<1>9. /\ Selected(Items', Items) /\ Range(Items') \subseteq Range(Items)
      /\ q = entry => InHand /\ InFrontOf(Items')
      /\ NoDropsDuringRuns /\ q = entry =>
            Range(Items) = Range(b) \cup Range(Items')
      /\ q # entry => Items' = Items
  <2>1. q = entry => Items' = AfterRun(q).items
      BY <1>6, <1>8
  <2>2. q # entry => Items' = Items
      BY <1>8
  <2>3. Selected(Items', Items)
    <3>1. Selected(Items, Items)
        BY <1>2, AllIsSelected
    <3>. QED
        BY <1>5, <2>1, <2>2, <3>1 DEF InFrontOf
  <2>4. Range(Items') \subseteq Range(Items)
      BY <2>3 DEF Selected
  <2>. HIDE DEF b
  <2>. QED
      BY <1>5, <2>1, <2>2, <2>3, <2>4
<1>10. /\ TakenOnce(d) /\ Range(b) \subseteq recent
       /\ Range(b) \cap Range(answers) = {}
       /\ Range(b) \cap Range(d.rest) = {}
       /\ IsInjective(b)
       /\ q # entry => Range(b) \cap Range(arrived) = {}
    BY <1>2 DEF HandsApart, TakenOnce, Taken
<1>11. /\ a \in Seq(Messages) /\ IsInjective(a) /\ Range(a) \subseteq Range(b)
       /\ a = b \/ a = <<>>
  <2>1. Range(<<>>) = {} /\ IsInjective(<<>>) /\ <<>> \in Seq(Messages)
      BY DEF Range, IsInjective
  <2>. QED
      BY <1>2, <1>10, <2>1
<1>. HIDE DEF a
<1>12. ItemsInOrder'
    BY <1>1, <1>2, <1>9, FewerItemsInOrder
<1>13. AnsweredInOrder' /\ Range(answers') = Range(answers) \cup Range(a)
  <2>1. /\ Range(a) \subseteq recent /\ Range(a) \cap Range(answers) = {}
      BY <1>10, <1>11
  <2>2. /\ Range(a) \cap Range(Items') = {}
        /\ \A m \in Range(answers) \cap Range(arrived),
              n \in Range(a) \cap Range(arrived) : Before(m, n)
        /\ \A m \in Range(a) \cap Range(arrived), n \in Range(Items') :
              Before(m, n)
    <3>1. Range(Items) \subseteq Range(arrived)
        BY <1>2 DEF ItemsInOrder
    <3>2. q = entry => /\ Range(b) \cap Range(Items') = {}
                       /\ \A m \in Range(answers) \cap Range(arrived),
                             n \in Range(b) : Before(m, n)
                       /\ \A m \in Range(b), n \in Range(Items') : Before(m, n)
        BY <1>9 DEF InHand, InFrontOf
    <3>. QED
        BY <1>9, <1>10, <1>11, <3>1, <3>2
  <2>3. ASSUME NEW i \in 1 .. Len(a), NEW j \in 1 .. Len(a), i < j,
               {a[i], a[j]} \subseteq Range(arrived)
        PROVE  Before(a[i], a[j])
    <3>1. a = b
        BY <1>11, <2>3
    <3>2. a[i] \in Range(b)
        BY <1>2, <2>3, <3>1 DEF Range
    <3>3. q = entry
        BY <1>10, <2>3, <3>2
    <3>. QED
        BY <1>9, <2>3, <3>1, <3>3 DEF InHand, InOrder
  <2>. QED
      BY <1>1, <1>2, <1>9, <1>11, <2>1, <2>2, <2>3, MoreAnswers
<1>14. HandsApart'
  <2>1. /\ Taken(drain'[q]) \subseteq Range(d.rest) /\ TakenOnce(drain'[q])
        /\ \A y \in Queues \ {q} : /\ Taken(drain'[y]) = Taken(drain[y])
                                   /\ TakenOnce(drain'[y])
      BY <1>2, <1>7, <1>8 DEF Taken, TakenOnce, HandsApart
  <2>2. Taken(d) = Range(b) \cup Range(d.rest)
      BY DEF Taken
  <2>3. \A y \in Queues : /\ TakenOnce(drain'[y])
                          /\ Taken(drain'[y]) \subseteq Taken(drain[y])
                          /\ Taken(drain'[y]) \cap Range(b) = {}
      BY <1>2, <1>10, <2>1, <2>2 DEF HandsApart
  <2>4. \A y \in Queues : /\ Taken(drain'[y]) \subseteq recent
                          /\ Taken(drain'[y]) \cap Range(answers') = {}
      BY <1>2, <1>11, <1>13, <2>3 DEF HandsApart
  <2>5. \A y \in Queues \ {entry'} : Taken(drain'[y]) \cap Range(arrived) = {}
      BY <1>2, <1>8, <2>3 DEF HandsApart
  <2>6. \A y, z \in Queues : y # z =>
            Taken(drain'[y]) \cap Taken(drain'[z]) = {}
      BY <1>2, <2>3 DEF HandsApart
  <2>. QED
      BY <1>1, <2>3, <2>4, <2>5, <2>6 DEF HandsApart
<1>15. WaitingAreQueued'
  <2>. SUFFICES ASSUME NoDropsDuringRuns, SummariesAreBatched
                PROVE  \A m \in Messages :
                          /\ fate'[m] = "waiting" => m \in Range(Items')
                          /\ fate'[m] = "summarising" => m \in Range(Lines')
      BY DEF WaitingAreQueued
  <2>1. \A m \in Messages : /\ fate[m] = "waiting" => m \in Range(Items)
                            /\ fate[m] = "summarising" => m \in Range(Lines)
      BY <1>2 DEF Kept, WaitingAreQueued
  <2>2. ASSUME NEW m \in Messages, fate'[m] = "waiting"
        PROVE  m \in Range(Items')
    <3>1. fate[m] = "waiting" /\ m \notin Range(a)
          /\ m \notin Range(b) \cap aborted
        BY <1>1, <2>2
    <3>2. m \notin Range(b)
      <4>1. CASE Withdrawn(q)
        <5>1. PICK n \in Range(b) : n \in aborted
            BY <4>1 DEF Withdrawn
        <5>2. Len(b) = 1
            BY <1>2, <1>3, <5>1
        <5>3. \A k \in Range(b) : k = n
            BY <1>2, <5>1, <5>2 DEF Range
        <5>. QED
            BY <3>1, <5>1, <5>3
      <4>2. CASE ~Withdrawn(q)
        <5>1. a = b
            BY <1>3, <4>2 DEF a
        <5>. QED
            BY <3>1, <5>1
      <4>. QED
          BY <4>1, <4>2
    <3>. QED
        BY <1>9, <2>1, <3>1, <3>2
  <2>3. ASSUME NEW m \in Messages, fate'[m] = "summarising"
        PROVE  m \in Range(Lines')
    <3>1. fate[m] = "summarising" /\ m \notin told
        BY <1>1, <2>3
    <3>2. CASE q # entry
        BY <1>8, <2>1, <3>1, <3>2
    <3>3. CASE q = entry /\ d.summary = NoSummary
      <4>1. x.lines = r.lines
          BY <1>2, <1>6, <3>3, AfterRunTypes
      <4>. QED
          BY <1>3, <1>8, <2>1, <3>1, <3>3, <4>1
    <3>4. CASE q = entry /\ d.summary # NoSummary
      <4>1. Range(b) \cap fenced = {}
          BY <1>3, <3>4
      <4>2. ~Withdrawn(q)
          BY <1>2, <4>1 DEF Withdrawn
      <4>3. told = Range(Lines)
          BY <1>3, <3>4, <4>2
      <4>. QED
          BY <2>1, <3>1, <4>3
    <3>. QED
        BY <3>2, <3>3, <3>4
  <2>. QED
      BY <2>2, <2>3
<1>16. FencesAreKnown'
  <2>1. SUFFICES ASSUME NoDropsDuringRuns,
                        NEW m \in (fenced \cap recent) \ completed'
                 PROVE  m \in Range(Items') \cup Range(Sources')
      BY <1>1 DEF FencesAreKnown
  <2>2. m \in fenced /\ m \notin RunCompletes(q)
        /\ m \in Range(Items) \cup Range(Sources)
      BY <1>1, <1>2, <2>1 DEF Kept, FencesAreKnown
  <2>3. CASE q # entry
      BY <1>8, <2>2, <2>3
  <2>4. CASE q = entry
    <3>1. m \notin Range(b)
        BY <1>3, <2>2 DEF RunCompletes
    <3>2. d.summary # NoSummary => m \notin Range(Sources)
        BY <1>3, <2>2, <2>4 DEF RunCompletes
    <3>3. d.summary = NoSummary => x.sources = Sources
        BY <1>2, <1>3, <1>6, <2>4, AfterRunTypes
    <3>. QED
        BY <1>8, <1>9, <2>1, <2>2, <2>4, <3>1, <3>2, <3>3
  <2>. QED
      BY <2>3, <2>4
<1>17. HandLeads'
  <2>1. CASE q # entry
    <3>1. Range(answers') \cap Range(arrived)
             = Range(answers) \cap Range(arrived)
        BY <1>10, <1>11, <1>13, <2>1
    <3>2. ASSUME NEW y \in Queues, y = entry', drain'[y].pc \in Busy
          PROVE  /\ Items' = Items /\ y = entry /\ drain[y].pc \in Busy
                 /\ drain'[y].batch = drain[y].batch
                 /\ drain'[y].rest = drain[y].rest
      <4>1. y = entry
          BY <1>8, <3>2, BoundsAssumption
      <4>. QED
          BY <1>8, <1>9, <2>1, <3>2, <4>1
    <3>. QED
        BY <1>1, <1>2, <3>1, <3>2, HandStillLeads
  <2>2. CASE q = entry
    <3>. SUFFICES ASSUME NEW y \in Queues, y = entry', drain'[y].pc \in Busy
                  PROVE  Leads(Hand(drain[y]))'
        BY DEF HandLeads
    <3>1. y = q /\ drain'[q] = e /\ e.pc \in Busy
        BY <1>8, <2>2, BoundsAssumption
    <3>2. NextGroup(d, e)
        BY <1>4, <3>1 DEF Quiet, Busy
    <3>3. Hand(e) = d.rest
        BY <1>1, <3>1, <3>2, GroupsRestOnItems
    <3>4. \A m, n : Before(m, n)' = Before(m, n)
        BY <1>1 DEF Before
    <3>5. InHand /\ InFrontOf(Items')
        BY <1>9, <2>2
    <3>6. PICK t : t = d.rest
        OBVIOUS
    <3>7. /\ Range(t) \subseteq Range(arrived')
          /\ \A m \in Range(t), n \in Range(Items') \ Range(t) : Before(m, n)'
          /\ \A i \in 1 .. Len(Items'), j \in 1 .. Len(t) :
                Items'[i] = t[j] => i =< j
        BY <1>1, <3>4, <3>5, <3>6 DEF InHand, InFrontOf
    <3>8. InOrder(t)'
        BY <3>4, <3>5, <3>6 DEF InHand, InOrder
    <3>9. \A m \in Range(answers') \cap Range(arrived'), n \in Range(t) :
             Before(m, n)'
        BY <1>1, <1>11, <1>13, <3>4, <3>5, <3>6 DEF InHand
    <3>10. \A s : s = t => Leads(s)'
        BY <3>7, <3>8, <3>9 DEF Leads
    <3>11. Hand(drain[y])' = t
        BY <3>1, <3>3, <3>6 DEF Hand
    <3>. QED
        BY <3>10, <3>11
  <2>. QED
      BY <2>1, <2>2
<1>. QED
    BY <1>8, <1>12, <1>13, <1>14, <1>15, <1>16, <1>17 DEF Kept

-----------------------------------------------------------------------------
(***************************************************************************)
(* The steps of the session keep everything.                               *)
(***************************************************************************)

\* What dropping the oldest messages leaves of the items and the summary.
LEMMA ShortenedKeeps ==
    ASSUME NEW r \in QueueType
    PROVE  /\ Selected(Shortened(r).items, r.items)
           /\ Range(r.items) \subseteq Dropped(r) \cup Range(Shortened(r).items)
           /\ \A i \in 1 .. Len(Shortened(r).items) :
                 \E k \in 1 .. Len(r.items) :
                    i =< k /\ Shortened(r).items[i] = r.items[k]
           /\ Shortened(r).mode = r.mode /\ Shortened(r).drop = r.drop
           /\ Shortened(r).dropped = 0 =>
                 /\ r.dropped = 0
                 /\ Shortened(r).lines = r.lines
                 /\ Shortened(r).sources = r.sources
<1>1. CASE ~CapHit(r)
  <2>1. Selected(r.items, r.items)
      BY QueueTypes, AllIsSelected
  <2>2. \A i \in 1 .. Len(r.items) :
           \E k \in 1 .. Len(r.items) : i =< k /\ r.items[i] = r.items[k]
      BY QueueTypes
  <2>. QED
      BY <1>1, <2>1, <2>2 DEF Shortened, Dropped
<1>2. CASE CapHit(r)
  <2>. DEFINE o == Overflowing(r)
              kept == Behind(o, r.items)
  <2>1. /\ o \in Seq(Messages) /\ o # <<>> /\ Len(o) =< Len(r.items)
        /\ \A i \in 1 .. Len(o) : o[i] = r.items[i]
        /\ r.items \in Seq(Messages) /\ r.dropped \in Nat
      BY <1>2, OverflowIsFirst, QueueTypes DEF CapHit
  <2>2. /\ Shortened(r).items = kept
        /\ Shortened(r).mode = r.mode /\ Shortened(r).drop = r.drop
        /\ \/ Shortened(r).dropped = r.dropped + Len(o)
           \/ /\ Shortened(r).dropped = r.dropped
              /\ Shortened(r).lines = r.lines
              /\ Shortened(r).sources = r.sources
      BY <1>2 DEF Shortened, AfterDrop, QueueType
  <2>3. Dropped(r) = Range(o)
      BY <1>2 DEF Dropped
  <2>. HIDE DEF o
  <2>4. Len(o) \in Nat \ {0}
      BY <2>1
  <2>5. /\ Selected(kept, r.items)
        /\ Range(r.items) = Range(o) \cup Range(kept)
        /\ \A i \in 1 .. Len(kept) :
              \E k \in 1 .. Len(r.items) : i =< k /\ kept[i] = r.items[k]
    <3>. DEFINE s == r.items
    <3>1. /\ s \in Seq(Messages) /\ Len(o) =< Len(s)
          /\ \A i \in 1 .. Len(o) : o[i] = s[i]
        BY <2>1
    <3>. HIDE DEF s
    <3>2. /\ Selected(Behind(o, s), s)
          /\ Range(s) = Range(o) \cup Range(Behind(o, s))
        BY SMTT(30), <2>1, <3>1, BehindIsSelected, BehindIsTheRest
    <3>3. ASSUME NEW i \in 1 .. Len(Behind(o, s))
          PROVE  \E k \in 1 .. Len(s) : i =< k /\ Behind(o, s)[i] = s[k]
      <4>1. Len(o) + i \in 1 .. Len(s) /\ Behind(o, s)[i] = s[Len(o) + i]
          BY <2>1, <3>1, BehindIsPart
      <4>2. i =< Len(o) + i
          BY <2>4
      <4>. QED
          BY <4>1, <4>2
    <3>. QED
        BY <3>2, <3>3 DEF s
  <2>6. Shortened(r).dropped = 0 =>
            /\ r.dropped = 0
            /\ Shortened(r).lines = r.lines
            /\ Shortened(r).sources = r.sources
      BY <2>1, <2>2, <2>4
  <2>. HIDE DEF kept
  <2>. QED
      BY <2>2, <2>3, <2>5, <2>6
<1>. QED
    BY <1>1, <1>2

LEMMA ArrivalsGrow ==
    ASSUME TypeInv, NEW m \in Messages, arrived' = Append(arrived, m),
           m \notin Range(arrived), IsInjective(arrived)
    PROVE  /\ IsInjective(arrived')
           /\ Range(arrived') = Range(arrived) \cup {m}
           /\ \A a, b : Before(a, b) => Before(a, b)'
           /\ \A a \in Range(arrived) : Before(a, m)'
<1>. DEFINE s == arrived
            u == Append(s, m)
<1>1. /\ s \in Seq(Messages) /\ Len(s) \in Nat /\ Len(u) = Len(s) + 1
      /\ u[Len(s) + 1] = m /\ \A i \in 1 .. Len(s) : u[i] = s[i]
      /\ DOMAIN s = 1 .. Len(s) /\ DOMAIN u = 1 .. Len(s) + 1
    BY AppendProperties DEF TypeInv, OthersTyped
<1>2. arrived' = u
    OBVIOUS
<1>. HIDE DEF u
<1>3. Range(u) = Range(s) \cup {m}
  <2>1. ASSUME NEW n \in Range(u) PROVE n \in Range(s) \cup {m}
    <3>1. PICK i \in 1 .. Len(s) + 1 : n = u[i]
        BY <1>1, <2>1 DEF Range
    <3>2. CASE i = Len(s) + 1
        BY <1>1, <3>1, <3>2
    <3>3. CASE i # Len(s) + 1
      <4>1. i \in 1 .. Len(s)
          BY <1>1, <3>1, <3>3
      <4>. QED
          BY <1>1, <3>1, <4>1 DEF Range
    <3>. QED
        BY <3>2, <3>3
  <2>2. ASSUME NEW n \in Range(s) PROVE n \in Range(u)
    <3>1. PICK i \in 1 .. Len(s) : n = s[i]
        BY <1>1, <2>2 DEF Range
    <3>2. i \in 1 .. Len(s) + 1
        BY <1>1, <3>1
    <3>. QED
        BY <1>1, <3>1, <3>2 DEF Range
  <2>3. m \in Range(u)
    <3>1. Len(s) + 1 \in 1 .. Len(s) + 1
        BY <1>1
    <3>. QED
        BY <1>1, <3>1 DEF Range
  <2>. QED
      BY <2>1, <2>2, <2>3
<1>4. ASSUME NEW i \in 1 .. Len(s) + 1, NEW j \in 1 .. Len(s) + 1, u[i] = u[j]
      PROVE  i = j
  <2>1. \A k \in 1 .. Len(s) : s[k] # m
      BY <1>1 DEF Range
  <2>2. CASE i = Len(s) + 1 \/ j = Len(s) + 1
      BY <1>1, <1>4, <2>1, <2>2
  <2>3. CASE i # Len(s) + 1 /\ j # Len(s) + 1
    <3>1. i \in 1 .. Len(s) /\ j \in 1 .. Len(s) /\ s[i] = s[j]
        BY <1>1, <1>4, <2>3
    <3>. QED
        BY <1>1, <3>1 DEF IsInjective
  <2>. QED
      BY <2>2, <2>3
<1>5. IsInjective(u)
    BY <1>1, <1>4 DEF IsInjective
<1>6. ASSUME NEW a, NEW b, Before(a, b) PROVE Before(a, b)'
  <2>1. PICK i \in 1 .. Len(s), j \in 1 .. Len(s) :
            i < j /\ s[i] = a /\ s[j] = b
      BY <1>6 DEF Before
  <2>2. /\ i \in 1 .. Len(u) /\ j \in 1 .. Len(u) /\ i < j
        /\ u[i] = a /\ u[j] = b
      BY <1>1, <2>1
  <2>. QED
      BY <1>2, <2>2 DEF Before
<1>7. ASSUME NEW a \in Range(s) PROVE Before(a, m)'
  <2>1. PICK i \in 1 .. Len(s) : a = s[i]
      BY <1>1, <1>7 DEF Range
  <2>2. /\ i \in 1 .. Len(u) /\ Len(s) + 1 \in 1 .. Len(u) /\ i < Len(s) + 1
        /\ u[i] = a /\ u[Len(s) + 1] = m
      BY <1>1, <2>1
  <2>. QED
      BY <1>2, <2>2 DEF Before
<1>. QED
    BY <1>2, <1>3, <1>5, <1>6, <1>7

\* What the object that is found holds is what the key holds.
LEMMA FoundHolds ==
    ASSUME IInv, NEW q \in Queues, NEW s \in Settings, NEW r,
           Found(q, r, s)
    PROVE  /\ r.items = Items /\ r.lines = Lines /\ r.sources = Sources
           /\ r.dropped = 0 => r.lines = <<>> /\ r.sources = <<>>
           /\ TellsInBatches(r)
           /\ DrainOK(q, q, r, drain[q])
           /\ \A y \in Queues \ {q} : /\ QueueOK(y, q, queue[y])
                                      /\ DrainOK(y, q, queue[y], drain[y])
           /\ \A y \in Queues : y # q => y # entry
           /\ drain[q].pc \in Busy => q = entry
<1>1. CASE entry = q /\ r = WithSettings(queue[q], s)
  <2>1. /\ r.items = queue[q].items /\ r.lines = queue[q].lines
        /\ r.sources = queue[q].sources /\ r.dropped = queue[q].dropped
        /\ r.mode = s.mode /\ r.drop = s.drop
      BY <1>1, AtTheStart DEF WithSettings, QueueType
  <2>2. TellsInBatches(r)
      BY <2>1 DEF TellsInBatches, SummariesAreBatched
  <2>3. DrainOK(q, q, r, drain[q])
      BY ZenonT(30), <1>1, <2>1, AtTheStart DEF DrainOK, RestsOnItems
  <2>4. r.dropped = 0 => r.lines = <<>> /\ r.sources = <<>>
      BY <2>1, AtTheStart DEF QueueOK
  <2>. QED
      BY <1>1, <2>1, <2>2, <2>3, <2>4, AtTheStart DEF Sound
<1>2. CASE entry = NoQueue /\ drain[q].pc = "off" /\ r = QueueFor(s)
  <2>1. /\ r.items = <<>> /\ r.lines = <<>> /\ r.sources = <<>>
        /\ r.mode = s.mode /\ r.drop = s.drop
      BY <1>2 DEF QueueFor
  <2>2. Items = <<>> /\ Lines = <<>> /\ Sources = <<>>
      BY <1>2, BlankOnes DEF Items, Lines, Sources, Held
  <2>3. DrainOK(q, q, r, drain[q])
      BY <1>2 DEF DrainOK, Busy
  <2>4. TellsInBatches(r)
      BY <2>1 DEF TellsInBatches, SummariesAreBatched
  <2>5. \A y \in Queues : y # entry
      BY <1>2, BoundsAssumption
  <2>6. ASSUME NEW y \in Queues \ {q}
        PROVE  QueueOK(y, q, queue[y]) /\ DrainOK(y, q, queue[y], drain[y])
    <3>1. QueueOK(y, entry, queue[y]) /\ DrainOK(y, entry, queue[y], drain[y])
        BY AtTheStart
    <3>. QED
        BY <2>5, <3>1 DEF QueueOK, DrainOK
  <2>. QED
      BY <1>2, <2>1, <2>2, <2>3, <2>4, <2>5, <2>6 DEF Busy
<1>. QED
    BY <1>1, <1>2 DEF Found

\* Whatever the object found comes to be, the registry stays sound.
LEMMA EnqueueSettles ==
    ASSUME IInv, NEW q \in Queues, NEW s \in Settings, NEW r,
           Found(q, r, s), fenced' = fenced,
           NEW x \in QueueType, Settle(q, [queue EXCEPT ![q] = x], drain),
           x.dropped = 0 => x.lines = <<>> /\ x.sources = <<>>,
           TellsInBatches(x),
           DrainOK(q, q, x, drain[q])
    PROVE  /\ Sound(entry, queue, drain)'
           /\ Items' = x.items /\ Lines' = x.lines /\ Sources' = x.sources
           /\ \A y \in Queues : /\ drain'[y].batch = drain[y].batch
                                /\ drain'[y].rest = drain[y].rest
           /\ \A y \in Queues : y # entry' =>
                 y # entry \/ Taken(drain'[y]) = {}
           /\ \A y \in Queues : y = entry' /\ drain'[y].pc \in Busy =>
                 y = entry /\ drain'[y] = drain[y]
<1>. DEFINE qs == [queue EXCEPT ![q] = x]
<1>1. TypeInv /\ \A y \in Queues : qs[y] = IF y = q THEN x ELSE queue[y]
    BY AtTheStart DEF TypeInv, RegistryTyped
<1>2. RegistryTyped(q, qs, drain) /\ Settle(q, qs, drain)
    BY <1>1, EnqueueStart
<1>3. Held(q, qs) = x
    BY <1>1, BoundsAssumption DEF Held
<1>. HIDE DEF qs
<1>4. Sound(q, qs, drain)
  <2>1. QueueOK(q, q, x)
      BY DEF QueueOK
  <2>. QED
      BY <1>1, <2>1, FoundHolds DEF Sound
<1>5. /\ Sound(entry', queue', drain')
      /\ Items' = x.items /\ Lines' = x.lines /\ Sources' = x.sources
      /\ \A y \in Queues : /\ drain'[y].batch = drain[y].batch
                           /\ drain'[y].rest = drain[y].rest
      /\ \A y \in Queues : y # entry' => y # q \/ Taken(drain[y]) = {}
      /\ entry' = q \/ entry' = NoQueue
      /\ \A y \in Queues : drain'[y].pc \in Busy => drain'[y] = drain[y]
    BY <1>2, <1>3, <1>4, SettlingKeepsContents
<1>6. \A y \in Queues : Taken(drain'[y]) = Taken(drain[y])
    BY <1>5 DEF Taken
<1>7. ASSUME NEW y \in Queues, y = entry', drain'[y].pc \in Busy
      PROVE  y = entry /\ drain'[y] = drain[y]
  <2>1. y = q /\ drain'[y] = drain[y]
      BY <1>5, <1>7, BoundsAssumption
  <2>. QED
      BY <1>7, <2>1, FoundHolds
<1>. QED
    BY <1>5, <1>6, <1>7, FoundHolds, StaysSound

LEMMA EnqueueKeeps ==
    ASSUME IInv, NEW m \in Messages, NEW s \in Settings,
           EnqueueFollowupRun(m, s)
    PROVE  Kept'
<1>1. PICK q \in Queues, r \in QueueType, x \in QueueType :
              /\ Found(q, r, s)
              /\ Settle(q, [queue EXCEPT ![q] = x], drain)
              /\ \/ x = WithMessage(r, m) /\ Accepted(q, r, m)
                 \/ /\ x = r /\ UNCHANGED <<recent, completed, arrived>>
                    /\ fate' = fate \/ fate' = [fate EXCEPT ![m] = "refused"]
  <2>1. TypeInv
      BY DEF IInv, AuthInv
  <2>. QED
      BY <2>1, EnqueueMeans
<1>2. /\ TypeInv /\ Kept /\ fate \in [Messages -> Fates]
      /\ Items \in Seq(Messages) /\ arrived \in Seq(Messages)
    BY HeldIsTyped DEF IInv, AuthInv, TypeInv, OthersTyped
<1>3. UNCHANGED <<fenced, answers>>
    BY DEF EnqueueFollowupRun
<1>4. /\ r.items = Items /\ r.lines = Lines /\ r.sources = Sources
      /\ r.dropped = 0 => r.lines = <<>> /\ r.sources = <<>>
      /\ TellsInBatches(r)
      /\ DrainOK(q, q, r, drain[q])
    BY <1>1, FoundHolds
<1>5. CASE /\ x = r /\ UNCHANGED <<recent, completed, arrived>>
           /\ fate' = fate \/ fate' = [fate EXCEPT ![m] = "refused"]
  <2>1. /\ Sound(entry, queue, drain)'
        /\ Items' = Items /\ Lines' = Lines /\ Sources' = Sources
        /\ \A y \in Queues : /\ drain'[y].batch = drain[y].batch
                             /\ drain'[y].rest = drain[y].rest
        /\ \A y \in Queues : y # entry' => y # entry \/ Taken(drain'[y]) = {}
        /\ \A y \in Queues : y = entry' /\ drain'[y].pc \in Busy =>
              y = entry /\ drain'[y] = drain[y]
      BY <1>1, <1>3, <1>4, <1>5, EnqueueSettles
  <2>2. ItemsInOrder' /\ AnsweredInOrder'
      BY <1>2, <1>3, <1>5, <2>1, AllIsSelected, FewerItems DEF Kept
  <2>3. HandsApart'
      BY <1>2, <1>3, <1>5, <2>1, HandsStayApart DEF Kept
  <2>4. WaitingAreQueued' /\ FencesAreKnown'
      BY <1>2, <1>3, <1>5, <2>1 DEF Kept, WaitingAreQueued, FencesAreKnown
  <2>5. HandLeads'
      BY <1>2, <1>3, <1>5, <2>1, HandStillLeads DEF Kept
  <2>. QED
      BY <2>1, <2>2, <2>3, <2>4, <2>5 DEF Kept
<1>6. CASE x = WithMessage(r, m) /\ Accepted(q, r, m)
  <2>. DEFINE h == Shortened(r)
  <2>1. /\ m \notin recent /\ recent' = recent \cup {m}
        /\ arrived' = Append(arrived, m)
        /\ completed' = completed \cup (Forgotten(r) \cap fenced)
        /\ NoDropsDuringRuns =>
              ~CapHit(r) \/ drain[q].pc \notin Busy \cup {"dropping"}
      BY <1>6 DEF Accepted, NoDropsDuringRuns
  <2>2. /\ h \in QueueType /\ h.items \in Seq(Messages)
        /\ Selected(h.items, Items)
        /\ Range(Items) \subseteq Dropped(r) \cup Range(h.items)
        /\ h.mode = r.mode /\ h.drop = r.drop
        /\ h.dropped = 0 => h.lines = <<>> /\ h.sources = <<>>
        /\ \A i \in 1 .. Len(h.items) :
              \E k \in 1 .. Len(Items) : i =< k /\ h.items[i] = Items[k]
    <3>1. h \in QueueType
        BY AfterDropTypes DEF Shortened, CapHit
    <3>2. h.items \in Seq(Messages)
        BY <3>1, QueueTypes
    <3>. QED
        BY <1>4, <3>1, <3>2, ShortenedKeeps
  <2>. HIDE DEF h
  <2>3. /\ x.items = Append(h.items, m) /\ x.dropped = h.dropped
        /\ x.lines = h.lines /\ x.sources = h.sources
        /\ x.mode = h.mode /\ x.drop = h.drop
      BY <1>6, <2>2 DEF WithMessage, QueueType, h
  <2>4. DrainOK(q, q, x, drain[q])
    <3>1. CASE drain[q].pc \notin Busy \cup {"dropping"}
        BY <3>1 DEF DrainOK, Busy
    <3>2. CASE ~CapHit(r)
      <4>1. h = r
          BY <3>2 DEF Shortened, h
      <4>2. /\ Len(x.items) = Len(r.items) + 1 /\ Len(r.items) \in Nat
            /\ \A i \in 1 .. Len(r.items) : x.items[i] = r.items[i]
          BY <2>2, <2>3, <4>1, AppendProperties
      <4>3. RestsOnItems(r, drain[q]) => RestsOnItems(x, drain[q])
        <5>1. /\ Len(drain[q].batch) \in Nat /\ Len(drain[q].rest) \in Nat
            BY AtTheStart
        <5>2. SUFFICES ASSUME RestsOnItems(r, drain[q])
                       PROVE  RestsOnItems(x, drain[q])
            OBVIOUS
        <5>3. /\ Len(drain[q].batch) + Len(drain[q].rest) =< Len(r.items)
              /\ \A i \in 1 .. Len(drain[q].batch) :
                    drain[q].batch[i] = r.items[i]
              /\ \A i \in 1 .. Len(drain[q].rest) :
                    drain[q].rest[i] = r.items[Len(drain[q].batch) + i]
            BY <5>2 DEF RestsOnItems
        <5>4. /\ \A i \in 1 .. Len(drain[q].batch) : i \in 1 .. Len(r.items)
              /\ \A i \in 1 .. Len(drain[q].rest) :
                    Len(drain[q].batch) + i \in 1 .. Len(r.items)
              /\ Len(drain[q].batch) + Len(drain[q].rest) =< Len(x.items)
          <6>. DEFINE k == Len(drain[q].batch)
                      l == Len(drain[q].rest)
                      n == Len(r.items)
          <6>1. /\ k \in Nat /\ l \in Nat /\ n \in Nat /\ k + l =< n
                /\ Len(x.items) = n + 1
              BY <4>2, <5>1, <5>3
          <6>. HIDE DEF k, l, n
          <6>2. /\ \A i \in 1 .. k : i \in 1 .. n
                /\ \A i \in 1 .. l : k + i \in 1 .. n
                /\ k + l =< Len(x.items)
              BY <6>1
          <6>. QED
              BY <6>2 DEF k, l, n
        <5>. QED
            BY <4>2, <5>3, <5>4 DEF RestsOnItems
      <4>4. drain[q].at \in 1 .. Len(r.items) =>
                /\ drain[q].at \in 1 .. Len(x.items)
                /\ x.items[drain[q].at] = r.items[drain[q].at]
          BY <4>2
      <4>. QED
          BY <1>4, <2>3, <4>1, <4>3, <4>4 DEF DrainOK
    <3>3. CASE ~NoDropsDuringRuns
        BY <1>4, <3>3 DEF DrainOK
    <3>. QED
        BY <2>1, <3>1, <3>2, <3>3
  <2>5. /\ Sound(entry, queue, drain)'
        /\ Items' = x.items /\ Lines' = x.lines /\ Sources' = x.sources
        /\ \A y \in Queues : /\ drain'[y].batch = drain[y].batch
                             /\ drain'[y].rest = drain[y].rest
        /\ \A y \in Queues : y # entry' => y # entry \/ Taken(drain'[y]) = {}
        /\ \A y \in Queues : y = entry' /\ drain'[y].pc \in Busy =>
              y = entry /\ drain'[y] = drain[y]
      BY <1>1, <1>3, <1>4, <2>2, <2>3, <2>4, EnqueueSettles
      DEF TellsInBatches
  <2>6. /\ Range(Items') = Range(h.items) \cup {m}
        /\ Len(Items') = Len(h.items) + 1 /\ Len(h.items) \in Nat
        /\ Items'[Len(h.items) + 1] = m
        /\ \A i \in 1 .. Len(h.items) : Items'[i] = h.items[i]
    <3>. DEFINE u == Append(h.items, m)
    <3>1. /\ Len(u) = Len(h.items) + 1 /\ Len(h.items) \in Nat
          /\ u[Len(h.items) + 1] = m
          /\ \A i \in 1 .. Len(h.items) : u[i] = h.items[i]
          /\ DOMAIN u = 1 .. Len(h.items) + 1
          /\ DOMAIN h.items = 1 .. Len(h.items)
        BY <2>2, AppendProperties
    <3>2. Items' = u
        BY <2>3, <2>5
    <3>. HIDE DEF u
    <3>3. Range(u) \subseteq Range(h.items) \cup {m}
        BY <3>1 DEF Range
    <3>4. Range(h.items) \cup {m} \subseteq Range(u)
        BY <3>1 DEF Range
    <3>. QED
        BY <3>1, <3>2, <3>3, <3>4
  <2>7. /\ IsInjective(arrived')
        /\ Range(arrived') = Range(arrived) \cup {m}
        /\ \A a, b : Before(a, b) => Before(a, b)'
        /\ \A a \in Range(arrived) : Before(a, m)'
    <3>1. m \notin Range(arrived) /\ IsInjective(arrived)
        BY <1>2, <2>1 DEF Kept, ItemsInOrder
    <3>. QED
        BY <1>2, <2>1, <3>1, ArrivalsGrow
  <2>8. Range(h.items) \subseteq Range(Items)
        /\ Range(Items) \subseteq Range(arrived)
      BY <1>2, <2>2 DEF Selected, Kept, ItemsInOrder
  <2>9. ItemsInOrder'
    <3>1. ASSUME NEW i \in 1 .. Len(Items'), NEW j \in 1 .. Len(Items'), i < j
          PROVE  Before(Items[i], Items[j])'
      <4>1. i \in 1 .. Len(h.items) /\ Items'[i] = h.items[i]
          BY <2>6, <3>1
      <4>2. CASE j = Len(h.items) + 1
        <5>1. h.items[i] \in Range(arrived)
          <6>1. h.items[i] \in Range(h.items)
              BY <2>2, <4>1 DEF Range
          <6>. QED
              BY <2>8, <6>1
        <5>2. Before(h.items[i], m)'
            BY <2>7, <5>1
        <5>. QED
            BY <2>6, <4>1, <4>2, <5>2 DEF Before
      <4>3. CASE j # Len(h.items) + 1
        <5>1. j \in 1 .. Len(h.items) /\ Items'[j] = h.items[j]
            BY <2>6, <3>1, <4>3
        <5>2. PICK k \in 1 .. Len(Items), l \in 1 .. Len(Items) :
                  k < l /\ h.items[i] = Items[k] /\ h.items[j] = Items[l]
            BY <2>2, <3>1, <4>1, <5>1 DEF Selected
        <5>3. Before(Items[k], Items[l])
            BY <1>2, <5>2 DEF Kept, ItemsInOrder
        <5>4. PICK a, b : a = h.items[i] /\ b = h.items[j]
            OBVIOUS
        <5>5. Before(a, b)
            BY <5>2, <5>3, <5>4
        <5>6. Before(a, b)' /\ Items'[i] = a /\ Items'[j] = b
            BY <2>7, <4>1, <5>1, <5>4, <5>5
        <5>. QED
            BY <5>6 DEF Before
      <4>. QED
          BY <4>2, <4>3
    <3>2. Range(arrived') \subseteq recent'
        BY <1>2, <2>1, <2>7 DEF Kept, ItemsInOrder
    <3>3. Range(Items') \subseteq Range(arrived')
        BY <2>6, <2>7, <2>8
    <3>. QED
        BY <2>7, <3>1, <3>2, <3>3 DEF ItemsInOrder
  <2>10. AnsweredInOrder'
    <3>1. AnsweredInOrder /\ m \notin Range(answers)
        BY <1>2, <2>1 DEF Kept, AnsweredInOrder
    <3>2. Range(answers) \cap Range(Items') = {}
          /\ Range(answers) \subseteq recent'
        BY <2>1, <2>6, <2>8, <3>1 DEF AnsweredInOrder
    <3>3. Range(answers) \cap Range(arrived') \subseteq Range(arrived)
        BY <2>7, <3>1
    <3>4. ASSUME NEW a \in Range(answers) \cap Range(arrived'),
                 NEW b \in Range(Items')
          PROVE  Before(a, b)'
      <4>1. CASE b = m
          BY <2>7, <3>3, <4>1
      <4>2. CASE b # m
          BY <2>6, <2>7, <2>8, <3>1, <3>3, <4>2 DEF AnsweredInOrder
      <4>. QED
          BY <4>1, <4>2
    <3>5. ASSUME NEW i \in 1 .. Len(answers), NEW j \in 1 .. Len(answers),
                 i < j, {answers[i], answers[j]} \subseteq Range(arrived')
          PROVE  Before(answers[i], answers[j])
      <4>1. answers[i] \in Range(answers) /\ answers[j] \in Range(answers)
          BY <1>2, <3>5 DEF TypeInv, OthersTyped, Range
      <4>. QED
          BY <3>1, <3>3, <3>5, <4>1 DEF AnsweredInOrder
    <3>6. IsInjective(answers)
        BY <3>1 DEF AnsweredInOrder
    <3>. QED
        BY <1>3, <2>7, <3>2, <3>4, <3>5, <3>6 DEF AnsweredInOrder
  <2>11. HandsApart'
    <3>1. Range(arrived') \cap recent \subseteq Range(arrived)
        BY <2>1, <2>7
    <3>. QED
        BY <1>2, <1>3, <2>1, <2>5, <3>1, HandsStayApart DEF Kept
  <2>12. WaitingAreQueued'
    <3>1. ASSUME NoDropsDuringRuns, SummariesAreBatched, NEW n \in Messages
          PROVE  /\ fate'[n] = "waiting" => n \in Range(Items')
                 /\ fate'[n] = "summarising" => n \in Range(Lines')
      <4>1. /\ fate[n] = "waiting" => n \in Range(Items)
            /\ fate[n] = "summarising" => n \in Range(r.lines)
          BY <1>2, <1>4, <3>1 DEF Kept, WaitingAreQueued
      <4>2. fate'[n] =
                IF n = m THEN "waiting"
                ELSE IF n \in Dropped(r) \cap Range(h.lines)
                THEN "summarising"
                ELSE IF n \in Dropped(r)
                        \/ (n \in Range(r.lines) \ Range(h.lines)
                            /\ fate[n] = "summarising")
                THEN "dropped"
                ELSE fate[n]
          BY <1>6 DEF Accepted, h
      <4>3. Lines' = h.lines
          BY <2>3, <2>5
      <4>4. fate'[n] = "waiting" => n \in Range(Items')
          BY <2>2, <2>6, <4>1, <4>2
      <4>5. fate'[n] = "summarising" => n \in Range(Lines')
          BY <4>1, <4>2, <4>3
      <4>. QED
          BY <4>4, <4>5
    <3>. QED
        BY <3>1 DEF WaitingAreQueued
  <2>13. FencesAreKnown'
    <3>1. Forgotten(r) = (Range(Sources) \cup Dropped(r)) \ Range(Sources')
        BY <1>4, <2>3, <2>5 DEF Forgotten, h
    <3>. QED
        BY <1>2, <1>3, <2>1, <2>2, <2>6, <3>1 DEF Kept, FencesAreKnown
  <2>14. HandLeads'
    <3>. SUFFICES ASSUME NEW y \in Queues, y = entry', drain'[y].pc \in Busy
                  PROVE  Leads(Hand(drain[y]))'
        BY DEF HandLeads
    <3>1. y = entry /\ drain'[y] = drain[y]
        BY <2>5
    <3>2. PICK g : g = Hand(drain[y])
        OBVIOUS
    <3>3. Leads(g) /\ g \in Seq(Messages)
      <4>1. Leads(g)
          BY <1>2, <3>1, <3>2 DEF Kept, HandLeads
      <4>. QED
          BY <3>2, <4>1, AtTheStart, ConcatProperties DEF Hand
    <3>4. /\ Range(g) \subseteq Range(arrived) /\ m \notin Range(arrived)
          /\ m \notin Range(answers)
        BY <1>2, <2>1, <3>3 DEF Leads, Kept, ItemsInOrder, AnsweredInOrder
    <3>5. Range(g) \subseteq Range(arrived')
        BY <2>7, <3>4
    <3>6. InOrder(g)'
        BY <2>7, <3>3 DEF Leads, InOrder
    <3>7. \A a \in Range(answers') \cap Range(arrived'), b \in Range(g) :
             Before(a, b)'
        BY <1>3, <2>7, <3>3, <3>4 DEF Leads
    <3>8. ASSUME NEW a \in Range(g), NEW b \in Range(Items') \ Range(g)
          PROVE  Before(a, b)'
      <4>1. CASE b = m
          BY <2>7, <3>4, <4>1
      <4>2. CASE b # m
          BY <2>6, <2>7, <2>8, <3>3, <4>2 DEF Leads
      <4>. QED
          BY <4>1, <4>2
    <3>9. ASSUME NEW i \in 1 .. Len(Items'), NEW j \in 1 .. Len(g),
                 Items'[i] = g[j]
          PROVE  i =< j
      <4>1. i \in 1 .. Len(h.items)
        <5>1. g[j] \in Range(g)
            BY <3>3 DEF Range
        <5>2. i # Len(h.items) + 1
            BY <2>6, <3>4, <3>9, <5>1
        <5>. QED
            BY <2>6, <5>2
      <4>2. PICK k \in 1 .. Len(Items) : i =< k /\ h.items[i] = Items[k]
          BY <2>2, <4>1
      <4>3. k =< j
          BY <2>6, <3>3, <3>9, <4>1, <4>2 DEF Leads
      <4>. QED
          BY <2>6, <4>1, <4>2, <4>3
    <3>10. \A z : z = g => Leads(z)'
        BY <3>5, <3>6, <3>7, <3>8, <3>9 DEF Leads
    <3>11. Hand(drain[y])' = g
        BY <3>1, <3>2 DEF Hand
    <3>. QED
        BY <3>10, <3>11
  <2>. QED
      BY <2>5, <2>9, <2>10, <2>11, <2>12, <2>13, <2>14 DEF Kept
<1>. QED
    BY <1>1, <1>5, <1>6

LEMMA TurnEndKeeps ==
    ASSUME IInv, TurnEnds
    PROVE  Kept'
<1>1. /\ TypeInv /\ Kept /\ RegistryTyped(entry, queue, drain)
      /\ Items \in Seq(Messages)
    BY HeldIsTyped DEF IInv, AuthInv, TypeInv
<1>2. /\ UNCHANGED <<fenced, arrived, answers, recent, completed, fate>>
      /\ Settle(entry, queue, drain)
    BY DEF TurnEnds, history, Settle
<1>3. /\ Sound(entry', queue', drain')
      /\ Items' = Items /\ Lines' = Lines /\ Sources' = Sources
      /\ \A y \in Queues : /\ drain'[y].batch = drain[y].batch
                           /\ drain'[y].rest = drain[y].rest
      /\ \A y \in Queues : y # entry' => y # entry \/ Taken(drain[y]) = {}
      /\ entry' = entry \/ entry' = NoQueue
      /\ \A y \in Queues : drain'[y].pc \in Busy => drain'[y] = drain[y]
    BY SMTT(30), <1>1, <1>2, SettlingKeepsContents
       DEF Kept, Items, Lines, Sources
<1>4. \A y \in Queues : Taken(drain'[y]) = Taken(drain[y])
    BY <1>3 DEF Taken
<1>5. Sound(entry, queue, drain)'
    BY <1>2, <1>3, StaysSound
<1>6. ItemsInOrder' /\ AnsweredInOrder'
    BY <1>1, <1>2, <1>3, AllIsSelected, FewerItems DEF Kept
<1>7. HandsApart'
    BY <1>1, <1>2, <1>3, <1>4, HandsStayApart DEF Kept
<1>8. WaitingAreQueued' /\ FencesAreKnown'
    BY <1>1, <1>2, <1>3 DEF Kept, WaitingAreQueued, FencesAreKnown
<1>9. HandLeads'
  <2>1. \A y \in Queues : y = entry' => y = entry
      BY <1>3, BoundsAssumption
  <2>. QED
      BY <1>1, <1>2, <1>3, <2>1, HandStillLeads DEF Kept
<1>. QED
    BY <1>5, <1>6, <1>7, <1>8, <1>9 DEF Kept

\* Everything cleared is accounted for, and nothing is registered.
LEMMA ClearKeeps ==
    ASSUME IInv, ClearFollowupQueue
    PROVE  Kept'
<1>. DEFINE r == queue[entry]
            x == IF Draining(entry)
                 THEN [ClearSummary(r) EXCEPT !.items = <<>>] ELSE Unused
<1>1. /\ TypeInv /\ Kept /\ entry \in Queues /\ r \in QueueType
      /\ Items = r.items /\ Lines = r.lines /\ Sources = r.sources
      /\ fate \in [Messages -> Fates]
  <2>1. TypeInv /\ Kept /\ entry \in Queues
      BY DEF ClearFollowupQueue, IInv, AuthInv, TypeInv, RegistryTyped
  <2>. QED
      BY <2>1, AtTheStart
<1>2. /\ entry' = NoQueue /\ queue' = [queue EXCEPT ![entry] = x]
      /\ drain' = drain /\ arrived' = <<>>
      /\ UNCHANGED <<fenced, recent, aborted, answers>>
      /\ completed' = completed \cup
                        (fenced \cap (Range(r.items) \cup Range(r.sources)))
      /\ fate' = [m \in Messages |->
                    IF \/ m \in Range(r.items) /\ fate[m] = "waiting"
                       \/ m \in Range(r.lines) /\ fate[m] = "summarising"
                    THEN "cleared" ELSE fate[m]]
    BY DEF ClearFollowupQueue
<1>3. /\ x.items = <<>> /\ x.dropped = 0 /\ x.lines = <<>>
      /\ x.sources = <<>>
      /\ TellsInBatches(x)
  <2>1. QueueOK(entry, entry, r) /\ r \in QueueType
      BY <1>1 DEF Kept, Sound
  <2>. QED
      BY <2>1, BlankOnes, UnusedIsOK
      DEF ClearSummary, QueueOK, QueueType, TellsInBatches
<1>. HIDE DEF x
<1>4. NoQueue \notin Queues
    BY BoundsAssumption
<1>5. Sound(entry', queue', drain')
  <2>1. \A y \in Queues : queue'[y] = IF y = entry THEN x ELSE queue[y]
      BY <1>1, <1>2 DEF TypeInv, RegistryTyped
  <2>2. ASSUME NEW y \in Queues
        PROVE  /\ QueueOK(y, NoQueue, queue'[y])
               /\ DrainOK(y, NoQueue, queue'[y], drain[y])
    <3>1. QueueOK(y, entry, queue[y]) /\ DrainOK(y, entry, queue[y], drain[y])
        BY <1>1 DEF Kept, Sound
    <3>2. QueueOK(y, NoQueue, queue'[y])
      <4>1. CASE y = entry
          BY <1>3, <2>1, <4>1 DEF QueueOK
      <4>2. CASE y # entry
          BY <2>1, <3>1, <4>2 DEF QueueOK
      <4>. QED
          BY <4>1, <4>2
    <3>3. DrainOK(y, NoQueue, queue'[y], drain[y])
        BY <1>4, <3>1 DEF DrainOK
    <3>. QED
        BY <3>2, <3>3
  <2>. QED
      BY <1>2, <2>2 DEF Sound
<1>6. Sound(entry, queue, drain)'
    BY <1>2, <1>5, StaysSound
<1>7. Items' = <<>> /\ Lines' = <<>> /\ Sources' = <<>>
    BY <1>2, BlankOnes DEF Items, Lines, Sources, Held
<1>8. Range(<<>>) = {} /\ IsInjective(<<>>)
    BY DEF Range, IsInjective
<1>9. ItemsInOrder' /\ AnsweredInOrder'
  <2>1. ItemsInOrder'
      BY <1>2, <1>7, <1>8 DEF ItemsInOrder
  <2>2. AnsweredInOrder'
    <3>1. IsInjective(answers) /\ Range(answers) \subseteq recent
        BY <1>1 DEF Kept, AnsweredInOrder
    <3>. QED
        BY <1>2, <1>7, <1>8, <3>1 DEF AnsweredInOrder
  <2>. QED
      BY <2>1, <2>2
<1>10. HandsApart'
    BY <1>1, <1>2, <1>8, HandsStayApart DEF Kept
<1>11. WaitingAreQueued' /\ FencesAreKnown'
  <2>1. WaitingAreQueued'
      BY <1>1, <1>2 DEF Kept, WaitingAreQueued
  <2>2. FencesAreKnown'
      BY <1>1, <1>2 DEF Kept, FencesAreKnown
  <2>. QED
      BY <2>1, <2>2
<1>12. HandLeads'
    BY <1>2, <1>4 DEF HandLeads
<1>. QED
    BY <1>6, <1>9, <1>10, <1>11, <1>12 DEF Kept

\* Nothing of it is touched.
LEMMA OthersKeep ==
    ASSUME IInv,
           UNCHANGED <<fenced, registry, recent, completed, fate, arrived,
                       answers>>
    PROVE  Kept'
<1>1. Kept
    BY DEF IInv
<1>2. Sound(entry, queue, drain)'
    BY <1>1, StaysSound DEF Kept, registry
<1>3. Items' = Items /\ Lines' = Lines /\ Sources' = Sources
    BY DEF registry, Items, Lines, Sources, Held
<1>4. ItemsInOrder' /\ AnsweredInOrder'
    BY <1>1, <1>3 DEF Kept, ItemsInOrder, AnsweredInOrder, Before
<1>5. HandsApart'
    BY <1>1 DEF Kept, HandsApart, registry, Taken, TakenOnce
<1>6. WaitingAreQueued' /\ FencesAreKnown'
    BY <1>1, <1>3 DEF Kept, WaitingAreQueued, FencesAreKnown
<1>7. HandLeads'
    BY <1>1, <1>3, HandStillLeads DEF Kept, registry
<1>. QED
    BY <1>2, <1>4, <1>5, <1>6, <1>7 DEF Kept

LEMMA IInvStarts == Init => IInv
<1>. SUFFICES ASSUME Init PROVE IInv
    OBVIOUS
<1>1. AuthInv
    BY AuthInvStarts
<1>2. Range(<<>>) = {} /\ IsInjective(<<>>)
    BY DEF Range, IsInjective
<1>3. Items = <<>> /\ Lines = <<>> /\ Sources = <<>>
    BY BlankOnes DEF Init, Items, Lines, Sources, Held
<1>4. \A q \in Queues : drain[q] = NoDrain /\ queue[q] = Unused
    BY DEF Init
<1>5. Sound(entry, queue, drain)
    BY <1>4, BlankOnes, UnusedIsOK, QuietIsOK DEF Sound, Quiet
<1>6. ItemsInOrder /\ AnsweredInOrder
    BY <1>2, <1>3 DEF Init, ItemsInOrder, AnsweredInOrder
<1>7. \A q \in Queues : TakenOnce(drain[q]) /\ Taken(drain[q]) = {}
    BY <1>2, <1>4, BlankOnes DEF TakenOnce, Taken
<1>8. HandsApart
    BY <1>7 DEF HandsApart
<1>9. WaitingAreQueued /\ FencesAreKnown
    BY DEF Init, WaitingAreQueued, FencesAreKnown
<1>10. HandLeads
    BY <1>4, BlankOnes DEF HandLeads, Busy
<1>. QED
    BY <1>1, <1>5, <1>6, <1>8, <1>9, <1>10 DEF IInv, Kept

LEMMA StepsKeepIInv == IInv /\ [Next]_vars => IInv'
<1>. SUFFICES ASSUME IInv, [Next]_vars PROVE IInv'
    OBVIOUS
<1>1. AuthInv'
    BY StepsKeepAuth DEF IInv
<1>2. ASSUME NEW m \in Messages, AbortMessage(m) PROVE Kept'
    BY <1>2, OthersKeep DEF AbortMessage, registry, history
<1>3. ASSUME TurnStarts PROVE Kept'
    BY <1>3, OthersKeep DEF TurnStarts, registry, history
<1>4. ASSUME UNCHANGED vars PROVE Kept'
    BY <1>4, OthersKeep DEF vars, registry
<1>5. ASSUME NEW m \in Messages, NEW s \in Settings, EnqueueFollowupRun(m, s)
      PROVE  Kept'
    BY <1>5, EnqueueKeeps
<1>6. ASSUME NEW q \in Queues, DrainStep(q) PROVE Kept'
    BY <1>6, SweepKeeps, DropKeeps, DebounceKeeps, AdmitKeeps, DeferKeeps,
       ReturnKeeps, FailKeeps DEF DrainStep
<1>7. Kept'
    BY <1>2, <1>3, <1>4, <1>5, <1>6, TurnEndKeeps, ClearKeeps DEF Next
<1>. QED
    BY <1>1, <1>7 DEF IInv

LEMMA IInvHolds == Spec => []IInv
<1>. QED
    BY IInvStarts, StepsKeepIInv, PTL DEF Spec

\* Where the registered object holds something, it is reachable.
LEMMA ItemsAreReachable ==
    ASSUME IInv, NEW m, m \in Range(Items) \cup Range(Lines) \cup Range(Sources)
    PROVE  /\ entry \in Reachable
           /\ Items = queue[entry].items /\ Lines = queue[entry].lines
           /\ Sources = queue[entry].sources
<1>1. entry # NoQueue
    BY BlankOnes DEF Items, Lines, Sources, Held, Range
<1>. QED
    BY <1>1 DEF IInv, AuthInv, TypeInv, RegistryTyped, Reachable, Items, Lines,
                Sources, Held

\* As long as the cap is not hit while a drain awaits a run, and where
\* summaries are told in batches, no accepted message leaves the queue unless
\* it was answered, summarised, dropped under the cap, cleared or withdrawn,
\* through any stops, replacements, failures and retries.
THEOREM AcceptedMessagesAreKept ==
    ASSUME NoDropsDuringRuns, SummariesAreBatched
    PROVE  Spec => []NothingLost
<1>1. IInv => NothingLost
  <2>. SUFFICES ASSUME IInv PROVE NothingLost
      OBVIOUS
  <2>1. WaitingAreQueued
      BY DEF IInv, Kept
  <2>. QED
      BY <2>1, ItemsAreReachable DEF WaitingAreQueued, NothingLost,
         QueuedMessagesGetTheirTurn, SummaryLinesAreKept
<1>. QED
    BY <1>1, IInvHolds, PTL

\* As long as the cap is not hit while a drain awaits a run, whatever the
\* settings: no lifecycle is left open by a message that is gone.
THEOREM FencesComeOpen ==
    ASSUME NoDropsDuringRuns
    PROVE  Spec => []LifecyclesClose
<1>1. IInv => LifecyclesClose
  <2>. SUFFICES ASSUME IInv PROVE LifecyclesClose
      OBVIOUS
  <2>1. FencesAreKnown
      BY DEF IInv, Kept
  <2>. QED
      BY <2>1, ItemsAreReachable DEF FencesAreKnown, LifecyclesClose
<1>. QED
    BY <1>1, IInvHolds, PTL

\* No message is put to the agent twice, or before one that came earlier, even
\* where the cap drops what a drain has in hand and what leaves the queue after
\* the run is not what was run.
THEOREM AnswersKeepTheOrder == Spec => []AnsweredOnceInOrder
<1>1. IInv => AnsweredOnceInOrder
  <2>. SUFFICES ASSUME IInv PROVE AnsweredOnceInOrder
      OBVIOUS
  <2>1. AnsweredInOrder /\ answers \in Seq(Messages)
      BY DEF IInv, Kept, AuthInv, TypeInv, OthersTyped
  <2>2. \A i, j \in 1 .. Len(answers) : i < j => answers[i] # answers[j]
      BY <2>1 DEF AnsweredInOrder, IsInjective
  <2>. QED
      BY <2>1, <2>2 DEF AnsweredInOrder, AnsweredOnceInOrder, Before
<1>. QED
    BY <1>1, IInvHolds, PTL

=============================================================================
