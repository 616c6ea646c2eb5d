----------------------- MODULE ReplyRunRegistryProofs -----------------------
(***************************************************************************)
(* Proofs about ReplyRunRegistry, for any keys, turns, observers and any   *)
(* number of rotations.                                                    *)
(*                                                                         *)
(* The invariant IInv ties the five maps of the registry to the            *)
(* operations: the key of an operation that is not cleared is its own      *)
(* (HoldersInv), its ids lead to that key (IdsInv), whoever is in a queue  *)
(* waits (TurnInv, ObserverInv), and a waiter waits for the holder         *)
(* (NobodyWaitsInVain, a part of the invariant).  A proof for an action    *)
(* first says what the action makes of the queues as sets (WaitersAre,     *)
(* DueAre) and of each turn (Stays, Works, Ends) and observer (Remains,    *)
(* IsOver); the conjuncts of IInv follow from these alone.                 *)
(***************************************************************************)
EXTENDS ReplyRunRegistry, FiniteSetTheorems, SequenceTheorems, TLAPS

-----------------------------------------------------------------------------
(***************************************************************************)
(* Sequences without repetition, and the sets of what is in them.          *)
(***************************************************************************)

LEMMA RemoveFirstRemoves ==
    ASSUME NEW S, NEW s \in Seq(S), IsInjective(s), NEW w
    PROVE  /\ RemoveFirst(s, w) \in Seq(S)
           /\ IsInjective(RemoveFirst(s, w))
           /\ Range(RemoveFirst(s, w)) = Range(s) \ {w}
<1>1. CASE ~ \E i \in 1 .. Len(s) : s[i] = w
  <2>1. RemoveFirst(s, w) = s
    BY <1>1 DEF RemoveFirst
  <2>2. w \notin Range(s)
    BY <1>1 DEF Range
  <2> QED
    BY <2>1, <2>2
<1>2. CASE \E i \in 1 .. Len(s) : s[i] = w
  <2>1. PICK i \in 1 .. Len(s) : s[i] = w
    BY <1>2
  <2>2. { j \in 1 .. Len(s) : s[j] = w } = {i}
    BY <2>1 DEF IsInjective
  <2>3. Min({i}) = i
    BY DEF Min
  <2>4. SelectInSeq(s, LAMBDA v : v = w) = i
    BY <2>2, <2>3 DEF SelectInSeq
  <2>5. RemoveFirst(s, w) = RemoveAt(s, i)
    BY <1>2, <2>4 DEF RemoveFirst
  <2>. DEFINE r == RemoveAt(s, i)
  <2>6. /\ r \in Seq(S)
        /\ Len(r) = Len(s) - 1
        /\ \A j \in 1 .. Len(s) - 1 : r[j] = IF j < i THEN s[j] ELSE s[j + 1]
    <3>. DEFINE p == SubSeq(s, 1, i - 1)
                q == SubSeq(s, i + 1, Len(s))
    <3>1. /\ p \in Seq(S)
          /\ Len(p) = i - 1
          /\ \A j \in 1 .. i - 1 : p[j] = s[j]
      BY <2>1
    <3>2. /\ q \in Seq(S)
          /\ Len(q) = Len(s) - i
          /\ \A j \in 1 .. Len(s) - i : q[j] = s[i + j]
      BY <2>1
    <3>3. r = p \o q
      BY DEF RemoveAt
    <3>. HIDE DEF p, q, r
    <3>4. p \o q \in Seq(S) /\ Len(p \o q) = Len(p) + Len(q)
      BY <3>1, <3>2, ConcatProperties
    <3>5. Len(r) = Len(s) - 1
      BY <3>1, <3>2, <3>3, <3>4, <2>1
    <3>6. ASSUME NEW j \in 1 .. Len(s) - 1
          PROVE  r[j] = IF j < i THEN s[j] ELSE s[j + 1]
      BY <2>1, <3>1, <3>2, <3>3
    <3> QED
      BY <3>3, <3>4, <3>5, <3>6
  <2>. HIDE DEF r
  <2>7. IsInjective(r)
    BY SMTT(30), <2>1, <2>6 DEF IsInjective
  <2>8. ASSUME NEW j \in 1 .. Len(s) - 1
        PROVE  r[j] \in Range(s) /\ r[j] # w
    <3>1. PICK n \in 1 .. Len(s) : n # i /\ r[j] = s[n]
      BY <2>1, <2>6
    <3> QED
      BY <2>1, <3>1 DEF IsInjective, Range
  <2>9. Range(r) \subseteq Range(s) \ {w}
    BY <2>6, <2>8 DEF Range
  <2>10. ASSUME NEW v \in Range(s) \ {w}
         PROVE  v \in Range(r)
    <3>1. PICK j \in 1 .. Len(s) : s[j] = v
      BY DEF Range
    <3>2. CASE j < i
      BY <2>6, <3>1, <3>2 DEF Range
    <3>3. CASE j > i
      <4>1. j - 1 \in 1 .. Len(s) - 1 /\ r[j - 1] = v
        BY <2>6, <3>1, <3>3, <2>1
      <4> QED
        BY <2>6, <4>1 DEF Range
    <3>4. j # i
      BY <2>1, <3>1
    <3> QED
      BY <3>2, <3>3, <3>4, <2>1, <3>1
  <2> QED
    BY <2>5, <2>6, <2>7, <2>9, <2>10 DEF r
<1> QED
  BY <1>1, <1>2

LEMMA AppendAdds ==
    ASSUME NEW S, NEW s \in Seq(S), IsInjective(s), NEW w \in S \ Range(s)
    PROVE  /\ Append(s, w) \in Seq(S)
           /\ IsInjective(Append(s, w))
           /\ Range(Append(s, w)) = Range(s) \cup {w}
<1>1. /\ Append(s, w) \in Seq(S)
      /\ Len(Append(s, w)) = Len(s) + 1
      /\ \A i \in 1 .. Len(s) : Append(s, w)[i] = s[i]
      /\ Append(s, w)[Len(s) + 1] = w
  OBVIOUS
<1>. DEFINE r == Append(s, w)
<1>. HIDE DEF r
<1>2. /\ r \in Seq(S) /\ Len(r) = Len(s) + 1 /\ Len(s) \in Nat
      /\ \A i \in 1 .. Len(s) : r[i] = s[i] /\ s[i] # w
      /\ r[Len(s) + 1] = w
  BY <1>1 DEF r, Range
<1>3. IsInjective(r)
  BY <1>2 DEF IsInjective
<1>4. Range(r) = Range(s) \cup {w}
  <2>1. Range(r) \subseteq Range(s) \cup {w}
    BY <1>2 DEF Range
  <2>2. \A i \in 1 .. Len(s) : i \in 1 .. Len(r) /\ r[i] = s[i]
    BY <1>2
  <2>3. Range(s) \cup {w} \subseteq Range(r)
    BY <1>2, <2>2 DEF Range
  <2> QED
    BY <2>1, <2>3
<1> QED
  BY <1>2, <1>3, <1>4 DEF r

LEMMA TailDrops ==
    ASSUME NEW S, NEW s \in Seq(S), IsInjective(s), s # <<>>
    PROVE  /\ Tail(s) \in Seq(S)
           /\ IsInjective(Tail(s))
           /\ Head(s) \in Range(s)
           /\ Range(Tail(s)) = Range(s) \ {Head(s)}
<1>1. /\ Tail(s) \in Seq(S)
      /\ Len(Tail(s)) = Len(s) - 1
      /\ Len(s) \in Nat \ {0}
      /\ Head(s) = s[1]
      /\ \A i \in 1 .. Len(s) - 1 : Tail(s)[i] = s[i + 1]
  OBVIOUS
<1>. DEFINE r == Tail(s)
<1>. HIDE DEF r
<1>2. /\ r \in Seq(S) /\ Len(r) = Len(s) - 1
      /\ \A i \in 1 .. Len(s) - 1 : r[i] = s[i + 1]
  BY <1>1 DEF r
<1>3. IsInjective(r)
  BY SMTT(30), <1>1, <1>2 DEF IsInjective
<1>4. Range(r) \subseteq Range(s) \ {s[1]}
  BY <1>1, <1>2 DEF IsInjective, Range
<1>5. ASSUME NEW v \in Range(s) \ {s[1]}
      PROVE  v \in Range(r)
  <2>1. PICK i \in 1 .. Len(s) : s[i] = v
    BY DEF Range
  <2>2. i - 1 \in 1 .. Len(r) /\ r[i - 1] = v
    BY <1>1, <1>2, <2>1
  <2> QED
    BY <1>2, <2>2 DEF Range
<1> QED
  BY <1>1, <1>2, <1>3, <1>4, <1>5 DEF r, Range

LEMMA ConcatJoins ==
    ASSUME NEW S, NEW s \in Seq(S), NEW t \in Seq(S),
           IsInjective(s), IsInjective(t), Range(s) \cap Range(t) = {}
    PROVE  /\ s \o t \in Seq(S)
           /\ IsInjective(s \o t)
           /\ Range(s \o t) = Range(s) \cup Range(t)
<1>. DEFINE r == s \o t
<1>1. /\ r \in Seq(S) /\ Len(r) = Len(s) + Len(t)
      /\ Len(s) \in Nat /\ Len(t) \in Nat
      /\ \A i \in 1 .. Len(s) + Len(t) :
            r[i] = IF i <= Len(s) THEN s[i] ELSE t[i - Len(s)]
  BY ConcatProperties
<1>. HIDE DEF r
<1>2. \A i \in 1 .. Len(s), j \in 1 .. Len(t) : s[i] # t[j]
  BY DEF Range
<1>3. \A i \in 1 .. Len(r) :
         \/ i \in 1 .. Len(s) /\ r[i] = s[i]
         \/ i - Len(s) \in 1 .. Len(t) /\ r[i] = t[i - Len(s)]
  BY <1>1
<1>4. ASSUME NEW m \in 1 .. Len(r), NEW n \in 1 .. Len(r), r[m] = r[n]
      PROVE  m = n
  <2>1. CASE m \in 1 .. Len(s) /\ r[m] = s[m]
    <3>1. n \in 1 .. Len(s) /\ r[n] = s[n]
      BY <1>2, <1>3, <1>4, <2>1
    <3> QED
      <4>1. s[m] = s[n]
        BY <1>4, <2>1, <3>1
      <4> QED
        BY <2>1, <3>1, <4>1 DEF IsInjective
  <2>2. CASE m - Len(s) \in 1 .. Len(t) /\ r[m] = t[m - Len(s)]
    <3>1. n - Len(s) \in 1 .. Len(t) /\ r[n] = t[n - Len(s)]
      BY <1>2, <1>3, <1>4, <2>2
    <3>2. m - Len(s) = n - Len(s)
      <4>1. t[m - Len(s)] = t[n - Len(s)]
        BY <1>4, <2>2, <3>1
      <4> QED
        BY <2>2, <3>1, <4>1 DEF IsInjective
    <3> QED
      BY <1>1, <3>2
  <2> QED
    BY <1>3, <2>1, <2>2
<1>5. Range(r) \subseteq Range(s) \cup Range(t)
  BY <1>1, <1>3 DEF Range
<1>6. Range(s) \subseteq Range(r)
  <2>1. \A i \in 1 .. Len(s) : i \in 1 .. Len(r) /\ r[i] = s[i]
    BY <1>1
  <2> QED
    BY <1>1, <2>1 DEF Range
<1>7. Range(t) \subseteq Range(r)
  <2>1. ASSUME NEW i \in 1 .. Len(t)
        PROVE  \E j \in 1 .. Len(r) : r[j] = t[i]
    <3>1. PICK j \in 1 .. Len(r) : j = i + Len(s)
      BY <1>1
    <3>2. j - Len(s) = i /\ ~(j <= Len(s))
      BY <1>1, <3>1
    <3>3. r[j] = t[i]
      BY <1>1, <3>1, <3>2
    <3> QED
      BY <3>3
  <2> QED
    <3>1. \A v \in Range(t) : \E i \in 1 .. Len(t) : t[i] = v
      BY DEF Range
    <3>2. \A j \in 1 .. Len(r) : r[j] \in Range(r)
      BY <1>1 DEF Range
    <3> QED
      BY <2>1, <3>1, <3>2
<1> QED
  BY <1>1, <1>4, <1>5, <1>6, <1>7 DEF r, IsInjective

-----------------------------------------------------------------------------

Waiting(k) == Range(waitersByKey[k])

Due(k) == Range(woken[k])

\* Whether the operation of t has been created.
Owns(t) == turn[t] = "owned"

\* The conjuncts of TypeOK that are about one variable each.
Types ==
    /\ activeRunsByKey \in [Keys -> Turns \cup {None}]
    /\ activeSessionIdsByKey \in [Keys -> SessionIds \cup {None}]
    /\ activeKeysBySessionId \in [SessionIds -> Keys \cup {None}]
    /\ waitKeysBySessionId \in [SessionIds -> Keys \cup {None}]
    /\ waitersByKey \in [Keys -> Seq(Turns \cup Observers)]
    /\ operation \in [Turns -> Operation \cup {NoOperation}]
    /\ kind \in KindMixes
    /\ turn \in [Turns -> {"new", "waiting", "owned", "skipped"}]
    /\ activeOperation \in [Turns -> Turns \cup {None}]
    /\ upstream \subseteq Turns
    /\ work \in [Turns -> {"none", "admitted", "compacting", "running", "done"}]
    /\ storedSession \in [Keys -> 0 .. RotationCap]
    /\ rotating \subseteq Turns
    /\ observer \in [Observers -> Observer \cup {NotYet}]
    /\ woken \in [Keys -> Seq(Turns \cup Observers)]

\* Nobody waits twice, or waits still when the wait is over.
QueuesInv ==
    \A k \in Keys : /\ IsInjective(waitersByKey[k])
                    /\ IsInjective(woken[k])
                    /\ Waiting(k) \cap Due(k) = {}

\* The operation that holds a key is the one whose state is not cleared.
HoldersInv ==
    /\ \A k \in Keys :
          activeRunsByKey[k] # None
          => /\ KeyOf[activeRunsByKey[k]] = k
             /\ ~operation[activeRunsByKey[k]].stateCleared
    /\ \A t \in Turns :
          ~operation[t].stateCleared => activeRunsByKey[KeyOf[t]] = t

\* A turn has an operation once it is admitted; one that waits does so at its
\* key, and knows an operation of its session.
TurnInv(t) ==
    /\ IF Owns(t) THEN operation[t] \in Operation /\ work[t] # "none"
       ELSE operation[t] = NoOperation /\ work[t] = "none"
    /\ t \in rotating => Owns(t)
    /\ turn[t] = "waiting"
       => /\ activeOperation[t] \in Turns
          /\ Owns(activeOperation[t])
          /\ KeyOf[activeOperation[t]] = KeyOf[t]
    /\ \A k \in Keys :
          t \in Waiting(k) \cup Due(k) => turn[t] = "waiting" /\ KeyOf[t] = k

\* The ids of an operation are ids of its session, and lead to its key while
\* it is not cleared.
KeysOfIdsInv ==
    \A id \in SessionIds :
        /\ activeKeysBySessionId[id] \in {None, id[1]}
        /\ waitKeysBySessionId[id] \in {None, id[1]}

IdsInv(t) ==
    Owns(t) => /\ IdOf(t)[1] = KeyOf[t]
               /\ \A id \in operation[t].held :
                     /\ id[1] = KeyOf[t]
                     /\ ~operation[t].stateCleared
                        => waitKeysBySessionId[id] = KeyOf[t]

\* Only an operation that is at work and has no result has a live backend;
\* one that is cleared has its result.
PhaseInv(t) ==
    Owns(t) => /\ operation[t].phase = "queued" => work[t] = "admitted"
               /\ operation[t].backend # "none"
                  => work[t] \in {"compacting", "running"}
               /\ operation[t].backend = "live"
                  => operation[t].phase # "settled"
               /\ operation[t].stateCleared => operation[t].phase = "settled"

\* An observer waits at the key of its id, for an operation of that session,
\* and is due once that is cleared.  A drain has settled its operation.
ObserverInv(o) ==
    /\ \A k \in Keys :
          o \in Waiting(k) \cup Due(k)
          => observer[o].stage = "waiting" /\ observer[o].id[1] = k
    /\ \A k \in Keys :
          o \in Due(k) /\ observer[o].target # None
          => operation[observer[o].target].stateCleared
    /\ observer[o].stage # "idle"
       => /\ observer[o].stage = "waiting"
             => o \in Waiting(observer[o].id[1]) \cup Due(observer[o].id[1])
          /\ observer[o].drains => observer[o].target # None
          /\ observer[o].target # None
             => /\ Owns(observer[o].target)
                /\ KeyOf[observer[o].target] = observer[o].id[1]
                /\ observer[o].drains
                   => operation[observer[o].target].phase = "settled"
                /\ observer[o].stage = "ended"
                   => operation[observer[o].target].stateCleared

IInv ==
    /\ Types
    /\ QueuesInv
    /\ HoldersInv
    /\ KeysOfIdsInv
    /\ \A t \in Turns : TurnInv(t) /\ IdsInv(t) /\ PhaseInv(t)
    /\ \A o \in Observers : ObserverInv(o)
    /\ NobodyWaitsInVain

-----------------------------------------------------------------------------
(***************************************************************************)
(* The queues.                                                             *)
(***************************************************************************)

\* What an action makes of one of the queues, as sets.
WaitersAre(W) ==
    /\ waitersByKey' \in [Keys -> Seq(Turns \cup Observers)]
    /\ \A k \in Keys : IsInjective(waitersByKey'[k])
    /\ \A k \in Keys : Waiting(k)' = W[k]

DueAre(D) ==
    /\ woken' \in [Keys -> Seq(Turns \cup Observers)]
    /\ \A k \in Keys : IsInjective(woken'[k])
    /\ \A k \in Keys : Due(k)' = D[k]

LEMMA QueuesUnchanged ==
    ASSUME Types, QueuesInv
    PROVE  /\ waitersByKey' = waitersByKey
              => WaitersAre([k \in Keys |-> Waiting(k)])
           /\ woken' = woken => DueAre([k \in Keys |-> Due(k)])
BY DEF Types, QueuesInv, WaitersAre, DueAre, Waiting, Due

LEMMA WaiterLeaves ==
    ASSUME Types, QueuesInv, NEW w, StopsWaiting(w)
    PROVE  WaitersAre([k \in Keys |-> Waiting(k) \ {w}])
<1>1. ASSUME NEW k \in Keys
      PROVE  /\ waitersByKey'[k] \in Seq(Turns \cup Observers)
             /\ IsInjective(waitersByKey'[k])
             /\ Range(waitersByKey'[k]) = Waiting(k) \ {w}
  <2>1. waitersByKey'[k] = RemoveFirst(waitersByKey[k], w)
    BY DEF StopsWaiting
  <2>2. /\ waitersByKey[k] \in Seq(Turns \cup Observers)
        /\ IsInjective(waitersByKey[k])
    BY DEF Types, QueuesInv
  <2> QED
    BY <2>1, <2>2, RemoveFirstRemoves DEF Waiting
<1>2. waitersByKey' \in [Keys -> Seq(Turns \cup Observers)]
  BY <1>1 DEF StopsWaiting
<1> QED
  BY <1>1, <1>2 DEF WaitersAre, Waiting

LEMMA WaiterJoins ==
    ASSUME Types, QueuesInv, NEW key \in Keys,
           NEW w \in (Turns \cup Observers) \ Waiting(key),
           waitersByKey' = [waitersByKey EXCEPT ![key] = Append(@, w)]
    PROVE  WaitersAre([k \in Keys |-> IF k = key THEN Waiting(k) \cup {w}
                                      ELSE Waiting(k)])
<1>1. ASSUME NEW k \in Keys
      PROVE  /\ waitersByKey'[k] \in Seq(Turns \cup Observers)
             /\ IsInjective(waitersByKey'[k])
             /\ Range(waitersByKey'[k]) = IF k = key THEN Waiting(k) \cup {w}
                                          ELSE Waiting(k)
  <2>1. waitersByKey'[k] = IF k = key THEN Append(waitersByKey[k], w)
                           ELSE waitersByKey[k]
    BY DEF Types
  <2>2. /\ waitersByKey[k] \in Seq(Turns \cup Observers)
        /\ IsInjective(waitersByKey[k])
    BY DEF Types, QueuesInv
  <2>3. CASE k = key
    <3>1. w \in (Turns \cup Observers) \ Range(waitersByKey[k])
      BY <2>3 DEF Waiting
    <3>2. /\ Append(waitersByKey[k], w) \in Seq(Turns \cup Observers)
          /\ IsInjective(Append(waitersByKey[k], w))
          /\ Range(Append(waitersByKey[k], w))
                = Range(waitersByKey[k]) \cup {w}
      BY <2>2, <3>1, AppendAdds
    <3> QED
      BY <2>1, <2>3, <3>2 DEF Waiting
  <2>4. CASE k # key
    BY <2>1, <2>2, <2>4 DEF Waiting
  <2> QED
    BY <2>3, <2>4
<1>2. waitersByKey' \in [Keys -> Seq(Turns \cup Observers)]
  BY <1>1 DEF Types
<1> QED
  BY <1>1, <1>2 DEF WaitersAre, Waiting

LEMMA NextGoesOn ==
    ASSUME Types, QueuesInv, NEW key \in Keys, NEW w,
           IsNext(key, w), GoesOn(key)
    PROVE  /\ w \in Due(key)
           /\ DueAre([k \in Keys |-> IF k = key THEN Due(k) \ {w} ELSE Due(k)])
<1>1. ASSUME NEW k \in Keys
      PROVE  /\ woken'[k] \in Seq(Turns \cup Observers)
             /\ IsInjective(woken'[k])
             /\ Range(woken'[k]) = IF k = key THEN Due(k) \ {w} ELSE Due(k)
  <2>1. woken'[k] = IF k = key THEN Tail(woken[k]) ELSE woken[k]
    BY DEF Types, GoesOn
  <2>2. /\ woken[k] \in Seq(Turns \cup Observers)
        /\ IsInjective(woken[k])
    BY DEF Types, QueuesInv
  <2>3. k = key => woken[k] # <<>> /\ Head(woken[k]) = w
    BY DEF IsNext
  <2>4. CASE k = key
    <3>1. /\ Tail(woken[k]) \in Seq(Turns \cup Observers)
          /\ IsInjective(Tail(woken[k]))
          /\ Range(Tail(woken[k])) = Range(woken[k]) \ {Head(woken[k])}
      BY <2>2, <2>3, <2>4, TailDrops
    <3> QED
      BY <2>1, <2>3, <2>4, <3>1 DEF Due
  <2>5. CASE k # key
    BY <2>1, <2>2, <2>5 DEF Due
  <2> QED
    BY <2>4, <2>5
<1>2. woken' \in [Keys -> Seq(Turns \cup Observers)]
  BY <1>1 DEF Types, GoesOn
<1>3. w \in Due(key)
  <2>1. /\ woken[key] \in Seq(Turns \cup Observers)
        /\ IsInjective(woken[key])
        /\ woken[key] # <<>> /\ Head(woken[key]) = w
    BY DEF Types, QueuesInv, IsNext
  <2> QED
    BY <2>1, TailDrops DEF Due
<1> QED
  BY <1>1, <1>2, <1>3 DEF DueAre, Due

LEMMA WaitersAreTold ==
    ASSUME Types, QueuesInv, NEW keys, NEW gone,
           NotifyReplyRunEnded(keys, gone)
    PROVE  /\ WaitersAre([k \in Keys |-> IF k \in keys THEN {}
                                         ELSE Waiting(k)])
           /\ DueAre([k \in Keys |->
                        IF k \in keys THEN Due(k) \cup (Waiting(k) \ {gone})
                        ELSE Due(k)])
<1>1. ASSUME NEW k \in Keys
      PROVE  /\ waitersByKey'[k] \in Seq(Turns \cup Observers)
             /\ IsInjective(waitersByKey'[k])
             /\ Range(waitersByKey'[k]) = IF k \in keys THEN {} ELSE Waiting(k)
  <2>1. waitersByKey'[k] = IF k \in keys THEN <<>> ELSE waitersByKey[k]
    BY DEF NotifyReplyRunEnded
  <2>2. /\ waitersByKey[k] \in Seq(Turns \cup Observers)
        /\ IsInjective(waitersByKey[k])
    BY DEF Types, QueuesInv
  <2>3. /\ <<>> \in Seq(Turns \cup Observers)
        /\ IsInjective(<<>>)
        /\ Range(<<>>) = {}
    BY DEF IsInjective, Range
  <2> QED
    BY <2>1, <2>2, <2>3 DEF Waiting
<1>2. ASSUME NEW k \in Keys
      PROVE  /\ woken'[k] \in Seq(Turns \cup Observers)
             /\ IsInjective(woken'[k])
             /\ Range(woken'[k]) =
                  IF k \in keys THEN Due(k) \cup (Waiting(k) \ {gone})
                  ELSE Due(k)
  <2>. DEFINE told == RemoveFirst(waitersByKey[k], gone)
  <2>1. woken'[k] = IF k \in keys THEN woken[k] \o told ELSE woken[k]
    BY DEF NotifyReplyRunEnded
  <2>2. /\ waitersByKey[k] \in Seq(Turns \cup Observers)
        /\ woken[k] \in Seq(Turns \cup Observers)
        /\ IsInjective(waitersByKey[k])
        /\ IsInjective(woken[k])
        /\ Range(waitersByKey[k]) \cap Range(woken[k]) = {}
    BY DEF Types, QueuesInv, Waiting, Due
  <2>3. /\ told \in Seq(Turns \cup Observers)
        /\ IsInjective(told)
        /\ Range(told) = Range(waitersByKey[k]) \ {gone}
    BY <2>2, RemoveFirstRemoves
  <2>. HIDE DEF told
  <2>4. Range(woken[k]) \cap Range(told) = {}
    BY <2>2, <2>3
  <2>5. /\ woken[k] \o told \in Seq(Turns \cup Observers)
        /\ IsInjective(woken[k] \o told)
        /\ Range(woken[k] \o told) = Range(woken[k]) \cup Range(told)
    BY <2>2, <2>3, <2>4, ConcatJoins
  <2> QED
    BY <2>1, <2>2, <2>3, <2>5 DEF Waiting, Due
<1>3. waitersByKey' \in [Keys -> Seq(Turns \cup Observers)]
  BY <1>1 DEF NotifyReplyRunEnded
<1>4. woken' \in [Keys -> Seq(Turns \cup Observers)]
  BY <1>2 DEF NotifyReplyRunEnded
<1> QED
  BY <1>1, <1>2, <1>3, <1>4 DEF WaitersAre, DueAre, Waiting, Due

-----------------------------------------------------------------------------
(***************************************************************************)
(* What the actions have in common.                                        *)
(***************************************************************************)

\* An operation goes on: it is not created anew, stays cleared and settled.
Advances(t) ==
    Owns(t) => /\ turn'[t] = "owned"
               /\ operation'[t] \in Operation
               /\ operation[t].stateCleared => operation'[t].stateCleared
               /\ operation[t].phase = "settled"
                  => operation'[t].phase = "settled"

KeepsIds(t) ==
    /\ Owns(t) <=> Owns(t)'
    /\ Owns(t) => /\ operation'[t].sessionId = operation[t].sessionId
                  /\ operation'[t].held \subseteq operation[t].held
                  /\ operation[t].stateCleared => operation'[t].stateCleared

\* A turn stays where it is, or is skipped.
Stays(t) ==
    /\ \/ turn'[t] = turn[t] /\ activeOperation'[t] = activeOperation[t]
       \/ ~Owns(t) /\ turn'[t] = "skipped"
    /\ ~Owns(t) => operation'[t] = operation[t]
    /\ (work'[t] = "none") <=> (work[t] = "none")
    /\ t \in rotating' => t \in rotating \/ Owns(t)
    /\ \A k \in Keys :
          t \in Waiting(k)' \cup Due(k)'
          => t \in Waiting(k) \cup Due(k) /\ turn'[t] = turn[t]

\* An observer stays where it is: it may be told of the end.
Remains(o) ==
    /\ observer'[o] = observer[o]
    /\ \A k \in Keys : (o \in Waiting(k)' \cup Due(k)')
                       <=> (o \in Waiting(k) \cup Due(k))
    /\ \A k \in Keys :
          /\ o \in Due(k)'
          /\ observer[o].target # None
          => o \in Due(k) \/ operation'[observer[o].target].stateCleared

LEMMA TurnStays ==
    ASSUME NEW t \in Turns, TurnInv(t), Types, Stays(t),
           \A u \in Turns : Advances(u)
    PROVE  TurnInv(t)'
<1>1. Owns(t)' <=> Owns(t)
  BY DEF Stays, Advances, Owns
<1>2. IF Owns(t)' THEN operation'[t] \in Operation /\ work'[t] # "none"
      ELSE operation'[t] = NoOperation /\ work'[t] = "none"
  BY <1>1 DEF TurnInv, Stays, Advances
<1>3. t \in rotating' => Owns(t)'
  BY <1>1 DEF TurnInv, Stays
<1>4. ASSUME turn'[t] = "waiting"
      PROVE  /\ activeOperation'[t] \in Turns
             /\ turn'[activeOperation'[t]] = "owned"
             /\ KeyOf[activeOperation'[t]] = KeyOf[t]
  <2>1. turn[t] = "waiting" /\ activeOperation'[t] = activeOperation[t]
    BY <1>4 DEF Stays
  <2>2. PICK u \in Turns : u = activeOperation[t] /\ Owns(u)
                           /\ KeyOf[u] = KeyOf[t]
    BY <2>1 DEF TurnInv
  <2>3. turn'[u] = "owned"
    BY <2>2 DEF Advances
  <2> QED
    BY <2>1, <2>2, <2>3
<1>5. ASSUME NEW k \in Keys, t \in Waiting(k)' \cup Due(k)'
      PROVE  turn'[t] = "waiting" /\ KeyOf[t] = k
  BY <1>5 DEF TurnInv, Stays
<1>6. \A k \in Keys : t \in Waiting(k)' \cup Due(k)'
                      => turn'[t] = "waiting" /\ KeyOf[t] = k
  BY <1>5
<1>7. Owns(t)' <=> turn'[t] = "owned"
  BY DEF Owns
<1> QED
  BY <1>2, <1>3, <1>4, <1>6, <1>7 DEF TurnInv, Owns

LEMMA ObserverRemains ==
    ASSUME NEW o \in Observers, ObserverInv(o), Types, Remains(o),
           \A u \in Turns : Advances(u)
    PROVE  ObserverInv(o)'
<1>. DEFINE target == observer[o].target
<1>1. observer[o].stage # "idle" => observer[o] \in Observer
  BY DEF Types, NotYet
<1>2. observer[o].stage # "idle" /\ target # None
      => /\ target \in Turns
         /\ Owns(target)
         /\ operation[target].stateCleared
            => operation'[target].stateCleared
         /\ operation[target].phase = "settled"
            => operation'[target].phase = "settled"
         /\ turn'[target] = "owned"
  BY <1>1 DEF ObserverInv, Observer, Advances
<1>3. ASSUME NEW k \in Keys, o \in Waiting(k)' \cup Due(k)'
      PROVE  observer'[o].stage = "waiting" /\ observer'[o].id[1] = k
  BY <1>3 DEF ObserverInv, Remains
<1>4. ASSUME NEW k \in Keys, o \in Due(k)', observer'[o].target # None
      PROVE  operation'[observer'[o].target].stateCleared
  <2>1. o \in Due(k) \/ operation'[target].stateCleared
    BY <1>4 DEF Remains
  <2>2. observer[o].stage = "waiting"
    BY <1>3, <1>4 DEF Remains
  <2>3. target # None /\ observer'[o].target = target
    BY <1>4 DEF Remains
  <2>4. o \in Due(k) => operation[target].stateCleared
    BY <2>3 DEF ObserverInv
  <2> QED
    BY <1>2, <2>1, <2>2, <2>3, <2>4
<1>5. ASSUME observer'[o].stage # "idle"
      PROVE  /\ observer'[o].stage = "waiting"
                => o \in Range(waitersByKey'[observer'[o].id[1]])
                         \cup Range(woken'[observer'[o].id[1]])
             /\ observer'[o].drains => observer'[o].target # None
             /\ observer'[o].target # None
                => /\ turn'[observer'[o].target] = "owned"
                   /\ KeyOf[observer'[o].target] = observer'[o].id[1]
                   /\ observer'[o].drains
                      => operation'[observer'[o].target].phase = "settled"
                   /\ observer'[o].stage = "ended"
                      => operation'[observer'[o].target].stateCleared
  <2>1. observer[o] \in Observer /\ observer'[o] = observer[o]
    BY <1>1, <1>5 DEF Remains
  <2>2. observer[o].id[1] \in Keys
    BY <2>1 DEF Observer, SessionIds
  <2>3. observer[o].stage = "waiting"
        => o \in Range(waitersByKey'[observer[o].id[1]])
                 \cup Range(woken'[observer[o].id[1]])
    <3>1. PICK k \in Keys : k = observer[o].id[1]
      BY <2>2
    <3> QED
      BY <1>5, <2>1, <3>1 DEF ObserverInv, Remains, Waiting, Due
  <2>4. observer[o].drains => target # None
    BY <1>5, <2>1 DEF ObserverInv
  <2>5. target # None
        => /\ turn'[target] = "owned"
           /\ KeyOf[target] = observer[o].id[1]
           /\ observer[o].drains => operation'[target].phase = "settled"
           /\ observer[o].stage = "ended" => operation'[target].stateCleared
    BY <1>2, <1>5, <2>1 DEF ObserverInv
  <2> QED
    BY <2>1, <2>3, <2>4, <2>5
<1> QED
  BY <1>3, <1>4, <1>5 DEF ObserverInv, Owns, Waiting, Due

LEMMA IdsStay ==
    ASSUME NEW t \in Turns, IdsInv(t), TurnInv(t), KeepsIds(t),
           Owns(t) /\ ~operation'[t].stateCleared =>
               \A id \in operation[t].held :
                   waitKeysBySessionId'[id] = waitKeysBySessionId[id]
    PROVE  IdsInv(t)'
BY DEF IdsInv, KeepsIds, IdOf

LEMMA PhaseStays ==
    ASSUME NEW t \in Turns, PhaseInv(t), operation'[t] = operation[t],
           work'[t] = work[t], Owns(t)' => Owns(t)
    PROVE  PhaseInv(t)'
BY DEF PhaseInv

LEMMA HoldersStay ==
    ASSUME HoldersInv, Types, activeRunsByKey' = activeRunsByKey,
           \A t \in Turns :
               operation'[t].stateCleared = operation[t].stateCleared
    PROVE  HoldersInv'
<1>1. \A k \in Keys : activeRunsByKey[k] # None => activeRunsByKey[k] \in Turns
  BY DEF Types
<1> QED
  BY <1>1 DEF HoldersInv

\* Who still waits does so for what it has waited for.
WaitsOn(k) ==
    \A w \in Waiting(k)' :
        /\ w \in Waiting(k)
        /\ activeRunsByKey'[k] = activeRunsByKey[k]
        /\ w \in Turns => activeOperation'[w] = activeOperation[w]
        /\ w \in Observers => observer'[w] = observer[w]

LEMMA StillNobodyWaitsInVain ==
    ASSUME NobodyWaitsInVain, \A k \in Keys : WaitsOn(k)
    PROVE  NobodyWaitsInVain'
BY DEF NobodyWaitsInVain, WaitsOn, IsIdle, Waiting

LEMMA QueuesStayApart ==
    ASSUME NEW W, NEW D, WaitersAre(W), DueAre(D),
           \A k \in Keys : W[k] \cap D[k] = {}
    PROVE  QueuesInv'
BY DEF WaitersAre, DueAre, QueuesInv

-----------------------------------------------------------------------------
(***************************************************************************)
(* Admission.                                                              *)
(***************************************************************************)

LEMMA InitIsFine == Init => IInv
<1>. SUFFICES ASSUME Init PROVE IInv
  OBVIOUS
<1>1. Types
  BY KeysAssumption, RotationAssumption DEF Init, Types
<1>2. \A k \in Keys : Waiting(k) = {} /\ Due(k) = {}
  BY DEF Init, Waiting, Due, Range
<1>3. QueuesInv
  BY <1>2 DEF Init, QueuesInv, IsInjective
<1>4. HoldersInv
  BY DEF Init, HoldersInv, NoOperation
<1>5. KeysOfIdsInv
  BY DEF Init, KeysOfIdsInv
<1>6. ASSUME NEW t \in Turns PROVE TurnInv(t) /\ IdsInv(t) /\ PhaseInv(t)
  BY <1>2 DEF Init, TurnInv, IdsInv, PhaseInv, Owns
<1>7. ASSUME NEW o \in Observers PROVE ObserverInv(o)
  BY <1>2 DEF Init, ObserverInv, NotYet
<1>8. NobodyWaitsInVain
  BY <1>2 DEF NobodyWaitsInVain, Waiting
<1> QED
  BY <1>1, <1>3, <1>4, <1>5, <1>6, <1>7, <1>8 DEF IInv

\* The turns that may be admitted or skipped.  t is due no longer.
IsTried(t) ==
    /\ turn[t] \in {"new", "waiting"}
    /\ \A k \in Keys : t \notin Waiting(k)
    /\ DueAre([k \in Keys |-> Due(k) \ {t}])
    /\ UNCHANGED <<kind, upstream, observer>>

LEMMA SkippedKeepsIInv ==
    ASSUME IInv, NEW t \in Turns, IsTried(t), Skipped(t)
    PROVE  IInv'
<1>1. Types /\ QueuesInv /\ HoldersInv /\ KeysOfIdsInv /\ NobodyWaitsInVain
  BY DEF IInv
<1>2. WaitersAre([k \in Keys |-> Waiting(k)])
  BY <1>1, QueuesUnchanged DEF Skipped, registry
<1>3. \A k \in Keys : Waiting(k)' = Waiting(k) /\ Due(k)' = Due(k) \ {t}
  BY <1>2 DEF WaitersAre, IsTried, DueAre
<1>4. Types'
  BY <1>1, <1>2
     DEF Types, Skipped, IsTried, registry, run, WaitersAre, DueAre
<1>5. QueuesInv'
  BY <1>1, <1>2, QueuesStayApart DEF IsTried, QueuesInv
<1>6. HoldersInv'
  BY <1>1, HoldersStay DEF Skipped, registry
<1>7. KeysOfIdsInv'
  BY <1>1 DEF KeysOfIdsInv, Skipped, registry
<1>8. ASSUME NEW u \in Turns PROVE Advances(u) /\ KeepsIds(u) /\ Stays(u)
  <2>1. operation'[u] = operation[u] /\ work' = work /\ rotating' = rotating
    BY DEF Skipped, run
  <2>2. IF u = t THEN ~Owns(u) /\ turn'[u] = "skipped"
        ELSE turn'[u] = turn[u] /\ activeOperation'[u] = activeOperation[u]
    BY <1>1 DEF Types, Skipped, IsTried, Owns
  <2>3. Owns(u) => operation[u] \in Operation
    BY DEF IInv, TurnInv
  <2>4. u = t => \A k \in Keys : u \notin Waiting(k)' \cup Due(k)'
    BY <1>3 DEF IsTried
  <2> QED
    BY <1>3, <2>1, <2>2, <2>3, <2>4 DEF Advances, KeepsIds, Stays, Owns
<1>9. ASSUME NEW u \in Turns
      PROVE  TurnInv(u)' /\ IdsInv(u)' /\ PhaseInv(u)'
  <2>1. TurnInv(u) /\ IdsInv(u) /\ PhaseInv(u)
    BY DEF IInv
  <2>2. TurnInv(u)'
    BY <1>1, <1>8, <2>1, TurnStays
  <2>3. IdsInv(u)'
    BY <1>8, <2>1, IdsStay DEF Skipped, registry
  <2>4. PhaseInv(u)'
    BY <1>8, <2>1, PhaseStays DEF Skipped, run, KeepsIds
  <2> QED
    BY <2>2, <2>3, <2>4
<1>10. ASSUME NEW o \in Observers PROVE ObserverInv(o)'
  <2>1. Remains(o)
    BY <1>3, ObserversAssumption DEF Remains, IsTried
  <2>2. ObserverInv(o)
    BY DEF IInv
  <2> QED
    BY <1>1, <1>8, <2>1, <2>2, ObserverRemains
<1>11. ASSUME NEW k \in Keys PROVE WaitsOn(k)
  <2>1. \A w \in Waiting(k) : w # t
    BY DEF IsTried
  <2> QED
    BY <1>1, <1>3, <2>1 DEF WaitsOn, Skipped, registry, IsTried, Types
<1>12. NobodyWaitsInVain'
  BY <1>1, <1>11, StillNobodyWaitsInVain
<1> QED
  BY <1>4, <1>5, <1>6, <1>7, <1>9, <1>10, <1>12 DEF IInv

IsCreated(t, id) ==
    /\ IsIdle(KeyOf[t])
    /\ CreateReplyOperation(t, id)
    /\ turn' = [turn EXCEPT ![t] = "owned"]
    /\ activeOperation' = [activeOperation EXCEPT ![t] = None]
    /\ work' = [work EXCEPT ![t] = "admitted"]
    /\ UNCHANGED <<waitersByKey, storedSession, rotating>>

LEMMA CreationKeepsIInv ==
    ASSUME IInv, NEW t \in Turns, NEW id \in SessionIds, id[1] = KeyOf[t],
           IsTried(t), IsCreated(t, id)
    PROVE  IInv'
<1>1. Types /\ QueuesInv /\ HoldersInv /\ KeysOfIdsInv /\ NobodyWaitsInVain
  BY DEF IInv
<1>. DEFINE new == [sessionId |-> id, phase |-> "queued",
                    stateCleared |-> FALSE,
                    backend |-> "none", held |-> {id}]
            key == KeyOf[t]
<1>2. /\ operation' = [operation EXCEPT ![t] = new]
      /\ activeRunsByKey' = [activeRunsByKey EXCEPT ![key] = t]
      /\ activeSessionIdsByKey' = [activeSessionIdsByKey EXCEPT ![key] = id]
      /\ activeKeysBySessionId' = [activeKeysBySessionId EXCEPT ![id] = key]
      /\ waitKeysBySessionId' = [waitKeysBySessionId EXCEPT ![id] = key]
  BY DEF IsCreated, CreateReplyOperation
<1>3. key \in Keys /\ activeRunsByKey[key] = None
  BY KeysAssumption DEF IsCreated, IsIdle
<1>4. new \in Operation
  BY DEF Operation, Phases
<1>. HIDE DEF new, key
<1>5. new.sessionId = id /\ new.phase = "queued" /\ ~new.stateCleared
      /\ new.backend = "none" /\ new.held = {id}
  BY DEF new
<1>6. operation'[t] = new /\ \A u \in Turns \ {t} : operation'[u] = operation[u]
  BY <1>1, <1>2 DEF Types
<1>7. /\ turn'[t] = "owned"
      /\ \A u \in Turns \ {t} :
            /\ turn'[u] = turn[u] /\ activeOperation'[u] = activeOperation[u]
            /\ work'[u] = work[u]
      /\ work'[t] = "admitted"
      /\ rotating' = rotating
  BY <1>1 DEF Types, IsCreated
<1>8. WaitersAre([k \in Keys |-> Waiting(k)])
  BY <1>1, QueuesUnchanged DEF IsCreated
<1>9. \A k \in Keys : Waiting(k)' = Waiting(k) /\ Due(k)' = Due(k) \ {t}
  BY <1>8 DEF WaitersAre, IsTried, DueAre
<1>10. ~Owns(t) /\ operation[t] = NoOperation
  <2>1. ~Owns(t)
    BY DEF IsTried, Owns
  <2> QED
    BY <2>1 DEF IInv, TurnInv
<1>11. Types'
  <2>1. operation' \in [Turns -> Operation \cup {NoOperation}]
    BY <1>1, <1>2, <1>4 DEF Types
  <2>2. /\ activeRunsByKey' \in [Keys -> Turns \cup {None}]
        /\ activeSessionIdsByKey' \in [Keys -> SessionIds \cup {None}]
        /\ activeKeysBySessionId' \in [SessionIds -> Keys \cup {None}]
        /\ waitKeysBySessionId' \in [SessionIds -> Keys \cup {None}]
    BY <1>1, <1>2, <1>3 DEF Types
  <2>3. /\ kind' \in KindMixes
        /\ turn' \in [Turns -> {"new", "waiting", "owned", "skipped"}]
        /\ activeOperation' \in [Turns -> Turns \cup {None}]
        /\ work' \in [Turns -> {"none", "admitted", "compacting", "running",
                                "done"}]
    BY <1>1 DEF Types, IsTried, IsCreated
  <2>4. /\ upstream' \subseteq Turns
        /\ storedSession' \in [Keys -> 0 .. RotationCap]
        /\ rotating' \subseteq Turns
        /\ observer' \in [Observers -> Observer \cup {NotYet}]
    BY <1>1 DEF Types, IsTried, IsCreated
  <2>5. /\ waitersByKey' \in [Keys -> Seq(Turns \cup Observers)]
        /\ woken' \in [Keys -> Seq(Turns \cup Observers)]
    BY <1>8 DEF IsTried, WaitersAre, DueAre
  <2> QED
    BY <2>1, <2>2, <2>3, <2>4, <2>5 DEF Types
<1>12. QueuesInv'
  BY <1>1, <1>8, QueuesStayApart DEF IsTried, QueuesInv
<1>13. HoldersInv'
  <2>1. activeRunsByKey'[key] = t
        /\ \A k \in Keys \ {key} : activeRunsByKey'[k] = activeRunsByKey[k]
    BY <1>1, <1>2, <1>3 DEF Types
  <2>2. ASSUME NEW k \in Keys, activeRunsByKey'[k] # None
        PROVE  /\ KeyOf[activeRunsByKey'[k]] = k
               /\ ~operation'[activeRunsByKey'[k]].stateCleared
    <3>1. CASE k = key
      BY <1>5, <1>6, <2>1, <3>1 DEF key
    <3>2. CASE k # key
      <4>1. activeRunsByKey'[k] = activeRunsByKey[k]
            /\ activeRunsByKey[k] \in Turns
        BY <1>1, <2>1, <2>2, <3>2 DEF Types
      <4>2. /\ KeyOf[activeRunsByKey[k]] = k
            /\ ~operation[activeRunsByKey[k]].stateCleared
        BY <1>1, <2>2, <4>1 DEF HoldersInv
      <4>3. activeRunsByKey[k] # t
        BY <3>2, <4>2 DEF key
      <4> QED
        BY <1>6, <4>1, <4>2, <4>3
    <3> QED
      BY <3>1, <3>2
  <2>3. ASSUME NEW u \in Turns, ~operation'[u].stateCleared
        PROVE  activeRunsByKey'[KeyOf[u]] = u
    <3>1. CASE u = t
      BY <2>1, <3>1 DEF key
    <3>2. CASE u # t
      <4>1. activeRunsByKey[KeyOf[u]] = u
        BY <1>1, <1>6, <2>3, <3>2 DEF HoldersInv
      <4>2. KeyOf[u] # key /\ KeyOf[u] \in Keys
        BY <1>3, <4>1, KeysAssumption
      <4> QED
        BY <2>1, <4>1, <4>2
    <3> QED
      BY <3>1, <3>2
  <2> QED
    BY <2>2, <2>3 DEF HoldersInv
<1>14. KeysOfIdsInv'
  BY <1>1, <1>2 DEF KeysOfIdsInv, Types, key
<1>15. ASSUME NEW u \in Turns PROVE Advances(u)
  <2>1. Owns(u) => operation[u] \in Operation /\ u # t
    BY <1>10 DEF IInv, TurnInv
  <2> QED
    BY <1>6, <1>7, <2>1 DEF Advances, Owns
<1>16. ASSUME NEW u \in Turns
       PROVE  TurnInv(u)' /\ IdsInv(u)' /\ PhaseInv(u)'
  <2>1. TurnInv(u) /\ IdsInv(u) /\ PhaseInv(u)
    BY DEF IInv
  <2>2. CASE u = t
    <3>1. TurnInv(t)'
      <4>1. \A k \in Keys : t \notin Waiting(k)' \cup Due(k)'
        BY <1>9 DEF IsTried
      <4> QED
        BY <1>4, <1>6, <1>7, <4>1 DEF TurnInv, Owns
    <3>2. IdsInv(t)'
      <4>1. waitKeysBySessionId'[id] = key
        BY <1>1, <1>2 DEF Types
      <4> QED
        BY <1>5, <1>6, <4>1 DEF IdsInv, IdOf, key
    <3>3. PhaseInv(t)'
      BY <1>5, <1>6, <1>7 DEF PhaseInv
    <3> QED
      BY <2>2, <3>1, <3>2, <3>3
  <2>3. CASE u # t
    <3>1. Stays(u)
      BY <1>6, <1>7, <1>9, <2>3 DEF Stays
    <3>2. TurnInv(u)'
      BY <1>1, <1>15, <2>1, <3>1, TurnStays
    <3>3. KeepsIds(u)
      BY <1>6, <1>7, <2>3 DEF KeepsIds, Owns
    <3>4. ASSUME NEW i \in operation[u].held, Owns(u),
                 ~operation'[u].stateCleared
          PROVE  waitKeysBySessionId'[i] = waitKeysBySessionId[i]
      <4>1. /\ i \in SessionIds
            /\ i[1] = KeyOf[u]
            /\ activeRunsByKey[KeyOf[u]] = u
        BY <1>1, <1>6, <2>1, <2>3, <3>4
           DEF HoldersInv, IdsInv, TurnInv, Operation
      <4>2. i # id
        BY <1>3, <4>1, KeysAssumption DEF key
      <4> QED
        BY <1>1, <1>2, <4>1, <4>2 DEF Types
    <3>5. IdsInv(u)'
      BY <2>1, <3>3, <3>4, IdsStay
    <3>6. PhaseInv(u)'
      BY <1>6, <1>7, <2>1, <2>3, PhaseStays DEF Owns
    <3> QED
      BY <3>2, <3>5, <3>6
  <2> QED
    BY <2>2, <2>3
<1>17. ASSUME NEW o \in Observers PROVE ObserverInv(o)'
  <2>1. Remains(o)
    BY <1>9, ObserversAssumption DEF Remains, IsTried
  <2>2. ObserverInv(o)
    BY DEF IInv
  <2> QED
    BY <1>1, <1>15, <2>1, <2>2, ObserverRemains
<1>18. ASSUME NEW k \in Keys PROVE WaitsOn(k)
  <2>1. CASE k = key
    <3>1. Waiting(k) = {}
      BY <1>1, <1>3, <2>1 DEF NobodyWaitsInVain, IsIdle, Waiting
    <3> QED
      BY <1>9, <3>1 DEF WaitsOn
  <2>2. CASE k # key
    <3>1. \A w \in Waiting(k) : w # t
      BY DEF IsTried
    <3>2. activeRunsByKey'[k] = activeRunsByKey[k]
      BY <1>1, <1>2, <2>2 DEF Types
    <3> QED
      BY <1>7, <1>9, <3>1, <3>2 DEF WaitsOn, IsTried
  <2> QED
    BY <2>1, <2>2
<1>19. NobodyWaitsInVain'
  BY <1>1, <1>18, StillNobodyWaitsInVain
<1> QED
  BY <1>11, <1>12, <1>13, <1>14, <1>16, <1>17, <1>19 DEF IInv

StartsToWait(t) ==
    /\ ~IsIdle(KeyOf[t])
    /\ turn' = [turn EXCEPT ![t] = "waiting"]
    /\ activeOperation' =
          [activeOperation EXCEPT ![t] = activeRunsByKey[KeyOf[t]]]
    /\ waitersByKey' = [waitersByKey EXCEPT ![KeyOf[t]] = Append(@, t)]
    /\ UNCHANGED <<activeRunsByKey, activeSessionIdsByKey,
                   activeKeysBySessionId, waitKeysBySessionId, operation, run>>

LEMMA WaitingKeepsIInv ==
    ASSUME IInv, NEW t \in Turns, IsTried(t), StartsToWait(t)
    PROVE  IInv'
<1>1. Types /\ QueuesInv /\ HoldersInv /\ KeysOfIdsInv /\ NobodyWaitsInVain
  BY DEF IInv
<1>. DEFINE key == KeyOf[t]
            holder == activeRunsByKey[key]
<1>2. key \in Keys /\ holder # None /\ holder \in Turns
  BY <1>1, KeysAssumption DEF StartsToWait, IsIdle, Types
<1>3. KeyOf[holder] = key /\ Owns(holder)
  <2>1. KeyOf[holder] = key /\ ~operation[holder].stateCleared
    BY <1>1, <1>2 DEF HoldersInv
  <2>2. TurnInv(holder)
    BY <1>2 DEF IInv
  <2> QED
    BY <2>1, <2>2 DEF TurnInv, NoOperation
<1>4. WaitersAre([k \in Keys |-> IF k = key THEN Waiting(k) \cup {t}
                                 ELSE Waiting(k)])
  <2>1. t \in (Turns \cup Observers) \ Waiting(key)
    BY <1>2 DEF IsTried
  <2> QED
    BY <1>1, <1>2, <2>1, WaiterJoins DEF StartsToWait
<1>5. \A k \in Keys :
         /\ Waiting(k)' = IF k = key THEN Waiting(k) \cup {t} ELSE Waiting(k)
         /\ Due(k)' = Due(k) \ {t}
  BY <1>4 DEF WaitersAre, IsTried, DueAre
<1>6. /\ turn'[t] = "waiting" /\ activeOperation'[t] = holder
      /\ \A u \in Turns \ {t} : /\ turn'[u] = turn[u]
                                /\ activeOperation'[u] = activeOperation[u]
      /\ ~Owns(t)
  BY <1>1 DEF Types, StartsToWait, IsTried, Owns
<1>. HIDE DEF key, holder
<1>7. Types'
  <2>1. /\ turn' \in [Turns -> {"new", "waiting", "owned", "skipped"}]
        /\ activeOperation' \in [Turns -> Turns \cup {None}]
    BY <1>1, <1>2 DEF Types, StartsToWait, holder, key
  <2>2. /\ waitersByKey' \in [Keys -> Seq(Turns \cup Observers)]
        /\ woken' \in [Keys -> Seq(Turns \cup Observers)]
    BY <1>4 DEF IsTried, WaitersAre, DueAre
  <2> QED
    BY <1>1, <2>1, <2>2 DEF Types, StartsToWait, IsTried, run
<1>8. QueuesInv'
  BY <1>1, <1>4, QueuesStayApart DEF IsTried, QueuesInv
<1>9. HoldersInv'
  BY <1>1, HoldersStay DEF StartsToWait
<1>10. KeysOfIdsInv'
  BY <1>1 DEF KeysOfIdsInv, StartsToWait
<1>11. ASSUME NEW u \in Turns PROVE Advances(u) /\ KeepsIds(u)
  <2>1. Owns(u) => operation[u] \in Operation
    BY DEF IInv, TurnInv
  <2> QED
    BY <1>6, <2>1 DEF Advances, KeepsIds, Owns, StartsToWait
<1>12. ASSUME NEW u \in Turns
       PROVE  TurnInv(u)' /\ IdsInv(u)' /\ PhaseInv(u)'
  <2>1. TurnInv(u) /\ IdsInv(u) /\ PhaseInv(u)
    BY DEF IInv
  <2>2. TurnInv(u)'
    <3>1. CASE u = t
      <4>1. \A k \in Keys :
               t \in Waiting(k)' \cup Due(k)' => k = key
        BY <1>5 DEF IsTried
      <4>2. operation'[t] = NoOperation /\ work'[t] = "none"
           /\ t \notin rotating'
        BY <1>6, <2>1, <3>1 DEF TurnInv, StartsToWait, run
      <4>3. turn'[holder] = "owned"
        BY <1>2, <1>3, <1>6 DEF Owns
      <4> QED
        BY <1>2, <1>3, <1>6, <3>1, <4>1, <4>2, <4>3 DEF TurnInv, Owns, key
    <3>2. CASE u # t
      <4>1. Stays(u)
        BY <1>5, <1>6, <3>2 DEF Stays, StartsToWait, run
      <4> QED
        BY <1>1, <1>11, <2>1, <4>1, TurnStays
    <3> QED
      BY <3>1, <3>2
  <2>3. IdsInv(u)'
    BY <1>11, <2>1, IdsStay DEF StartsToWait
  <2>4. PhaseInv(u)'
    BY <1>11, <2>1, PhaseStays DEF StartsToWait, run, KeepsIds
  <2> QED
    BY <2>2, <2>3, <2>4
<1>13. ASSUME NEW o \in Observers PROVE ObserverInv(o)'
  <2>1. Remains(o)
    BY <1>5, ObserversAssumption DEF Remains, IsTried
  <2>2. ObserverInv(o)
    BY DEF IInv
  <2> QED
    BY <1>1, <1>11, <2>1, <2>2, ObserverRemains
<1>14. NobodyWaitsInVain'
  <2>1. ASSUME NEW k \in Keys, NEW w \in Waiting(k)'
        PROVE  /\ ~IsIdle(k)'
               /\ w \in Turns => activeOperation'[w] = activeRunsByKey'[k]
               /\ w \in Observers /\ observer'[w].target # None
                  => observer'[w].target = activeRunsByKey'[k]
    <3>1. activeRunsByKey' = activeRunsByKey /\ observer' = observer
      BY DEF StartsToWait, IsTried
    <3>2. CASE w = t /\ k = key
      BY <1>2, <1>6, <3>1, <3>2, ObserversAssumption DEF holder, IsIdle
    <3>3. CASE w \in Waiting(k)
      <4>1. w # t
        BY <3>3 DEF IsTried
      <4> QED
        BY <1>1, <1>6, <3>1, <3>3, <4>1 DEF NobodyWaitsInVain, Waiting, IsIdle
    <3> QED
      BY <1>5, <2>1, <3>2, <3>3
  <2> QED
    BY <2>1 DEF NobodyWaitsInVain, Waiting, IsIdle
<1> QED
  BY <1>7, <1>8, <1>9, <1>10, <1>12, <1>13, <1>14 DEF IInv

LEMMA TryToAdmitKeepsIInv ==
    ASSUME IInv, NEW t \in Turns, NEW id \in SessionIds, id[1] = KeyOf[t],
           TryToAdmit(t, id),
           turn[t] \in {"new", "waiting"},
           \A k \in Keys : t \notin Waiting(k),
           DueAre([k \in Keys |-> Due(k) \ {t}])
    PROVE  IInv'
<1>1. IsTried(t)
  BY DEF IsTried, TryToAdmit
<1>2. CASE Skipped(t)
  BY <1>1, <1>2, SkippedKeepsIInv
<1>3. CASE IsCreated(t, id)
  BY <1>1, <1>3, CreationKeepsIInv
<1>4. CASE StartsToWait(t)
  BY <1>1, <1>4, WaitingKeepsIInv
<1> QED
  BY <1>2, <1>3, <1>4 DEF TryToAdmit, IsCreated, StartsToWait

LEMMA AdmitReplyTurnTries ==
    ASSUME IInv, NEW t \in Turns, AdmitReplyTurn(t)
    PROVE  \E id \in SessionIds : id[1] = KeyOf[t] /\ TryToAdmit(t, id)
<1>1. PICK n \in 0 .. storedSession[KeyOf[t]] : TryToAdmit(t, <<KeyOf[t], n>>)
  BY DEF AdmitReplyTurn
<1>2. KeyOf[t] \in Keys /\ storedSession[KeyOf[t]] \in 0 .. RotationCap
  BY KeysAssumption DEF IInv, Types
<1>3. <<KeyOf[t], n>> \in SessionIds /\ <<KeyOf[t], n>>[1] = KeyOf[t]
  BY <1>2, RotationAssumption DEF SessionIds
<1> QED
  BY <1>1, <1>3

LEMMA AdmitReplyTurnKeepsIInv ==
    ASSUME IInv, NEW t \in Turns, AdmitReplyTurn(t)
    PROVE  IInv'
<1>1. PICK id \in SessionIds : id[1] = KeyOf[t] /\ TryToAdmit(t, id)
  BY AdmitReplyTurnTries
<1>2. Types /\ QueuesInv /\ TurnInv(t)
  BY DEF IInv
<1>3. \A k \in Keys : t \notin Waiting(k) \cup Due(k)
  BY <1>2 DEF TurnInv, AdmitReplyTurn
<1>4. DueAre([k \in Keys |-> Due(k) \ {t}])
  <2>1. DueAre([k \in Keys |-> Due(k)])
    BY <1>2, QueuesUnchanged DEF AdmitReplyTurn
  <2> QED
    BY <1>3, <2>1 DEF DueAre
<1> QED
  BY <1>1, <1>3, <1>4, TryToAdmitKeepsIInv DEF AdmitReplyTurn

\* The turn whose continuation is next waits, and no longer in a queue.
LEMMA TurnGoesOnTries ==
    ASSUME IInv, NEW t \in Turns, TurnGoesOn(t)
    PROVE  /\ IdOf(activeOperation[t]) \in SessionIds
           /\ IdOf(activeOperation[t])[1] = KeyOf[t]
           /\ turn[t] = "waiting"
           /\ \A k \in Keys : t \notin Waiting(k)
           /\ DueAre([k \in Keys |-> Due(k) \ {t}])
<1>1. Types /\ QueuesInv /\ TurnInv(t)
  BY DEF IInv
<1>2. KeyOf[t] \in Keys
  BY KeysAssumption
<1>3. /\ t \in Due(KeyOf[t])
      /\ DueAre([k \in Keys |-> IF k = KeyOf[t] THEN Due(k) \ {t} ELSE Due(k)])
  BY <1>1, <1>2, NextGoesOn DEF TurnGoesOn
<1>4. turn[t] = "waiting"
  BY <1>1, <1>2, <1>3 DEF TurnInv
<1>5. \A k \in Keys : t \notin Waiting(k)
  BY <1>1, <1>2, <1>3 DEF TurnInv, QueuesInv
<1>6. DueAre([k \in Keys |-> Due(k) \ {t}])
  <2>1. \A k \in Keys : k # KeyOf[t] => t \notin Due(k)
    BY <1>1 DEF TurnInv
  <2> QED
    BY <1>3, <2>1 DEF DueAre
<1>7. PICK u \in Turns : /\ u = activeOperation[t] /\ Owns(u)
                         /\ KeyOf[u] = KeyOf[t]
  BY <1>1, <1>4 DEF TurnInv
<1>8. TurnInv(u) /\ IdsInv(u)
  BY DEF IInv
<1>9. IdOf(u) \in SessionIds /\ IdOf(u)[1] = KeyOf[t]
  BY <1>7, <1>8 DEF TurnInv, IdsInv, IdOf, Operation
<1> QED
  BY <1>4, <1>5, <1>6, <1>7, <1>9

LEMMA TurnGoesOnKeepsIInv ==
    ASSUME IInv, NEW t \in Turns, TurnGoesOn(t)
    PROVE  IInv'
<1>1. TryToAdmit(t, IdOf(activeOperation[t]))
  BY DEF TurnGoesOn
<1> QED
  BY <1>1, TurnGoesOnTries, TryToAdmitKeepsIInv

-----------------------------------------------------------------------------
(***************************************************************************)
(* Waits that end.                                                         *)
(***************************************************************************)

\* w waits no longer; if it is a turn it is skipped, an observer has given up.
LEMMA LeavingKeepsIInv ==
    ASSUME IInv, NEW w \in Turns \cup Observers,
           StopsWaiting(w),
           \A k \in Keys : w \notin Due(k),
           UNCHANGED <<activeRunsByKey, activeSessionIdsByKey,
                       activeKeysBySessionId, waitKeysBySessionId, operation,
                       kind, run, woken>>,
           upstream' \subseteq Turns,
           turn' \in [Turns -> {"new", "waiting", "owned", "skipped"}],
           activeOperation' \in [Turns -> Turns \cup {None}],
           observer' \in [Observers -> Observer \cup {NotYet}],
           \A t \in Turns :
               \/ turn'[t] = turn[t] /\ activeOperation'[t] = activeOperation[t]
               \/ t = w /\ ~Owns(t) /\ turn'[t] = "skipped",
           \A o \in Observers :
               \/ /\ observer'[o] = observer[o]
                  /\ o # w
               \/ /\ o = w
                  /\ observer[o].stage = "waiting"
                  /\ observer'[o] = [observer[o] EXCEPT !.stage = "timedOut"]
    PROVE  IInv'
<1>1. Types /\ QueuesInv /\ HoldersInv /\ KeysOfIdsInv /\ NobodyWaitsInVain
  BY DEF IInv
<1>2. WaitersAre([k \in Keys |-> Waiting(k) \ {w}])
  BY <1>1, WaiterLeaves
<1>3. DueAre([k \in Keys |-> Due(k)])
  BY <1>1, QueuesUnchanged
<1>4. \A k \in Keys : Waiting(k)' = Waiting(k) \ {w} /\ Due(k)' = Due(k)
  BY <1>2, <1>3 DEF WaitersAre, DueAre
<1>5. Types'
  BY <1>1, <1>2, <1>3 DEF Types, run, WaitersAre, DueAre
<1>6. QueuesInv'
  BY <1>1, <1>2, <1>3, QueuesStayApart DEF QueuesInv
<1>7. HoldersInv'
  BY <1>1, HoldersStay
<1>8. KeysOfIdsInv'
  BY <1>1 DEF KeysOfIdsInv
<1>9. ASSUME NEW u \in Turns PROVE Advances(u) /\ KeepsIds(u) /\ Stays(u)
  <2>1. Owns(u) => operation[u] \in Operation
    BY DEF IInv, TurnInv
  <2>2. \/ turn'[u] = turn[u] /\ activeOperation'[u] = activeOperation[u]
        \/ u = w /\ ~Owns(u) /\ turn'[u] = "skipped"
    OBVIOUS
  <2>3. \A k \in Keys : u \in Waiting(k)' \cup Due(k)'
                        => u # w /\ u \in Waiting(k) \cup Due(k)
    BY <1>4
  <2> QED
    BY <2>1, <2>2, <2>3 DEF Advances, KeepsIds, Stays, Owns, run
<1>10. ASSUME NEW u \in Turns
       PROVE  TurnInv(u)' /\ IdsInv(u)' /\ PhaseInv(u)'
  <2>1. TurnInv(u) /\ IdsInv(u) /\ PhaseInv(u)
    BY DEF IInv
  <2>2. TurnInv(u)'
    BY <1>1, <1>9, <2>1, TurnStays
  <2>3. IdsInv(u)'
    BY <1>9, <2>1, IdsStay
  <2>4. PhaseInv(u)'
    BY <1>9, <2>1, PhaseStays DEF run, KeepsIds
  <2> QED
    BY <2>2, <2>3, <2>4
<1>11. ASSUME NEW o \in Observers PROVE ObserverInv(o)'
  <2>1. ObserverInv(o)
    BY DEF IInv
  <2>2. CASE observer'[o] = observer[o] /\ o # w
    <3>1. Remains(o)
      BY <1>4, <2>2 DEF Remains
    <3> QED
      BY <1>1, <1>9, <2>1, <3>1, ObserverRemains
  <2>3. CASE /\ o = w /\ observer[o].stage = "waiting"
             /\ observer'[o] = [observer[o] EXCEPT !.stage = "timedOut"]
    <3>1. observer[o] \in Observer
      BY <1>1, <2>3 DEF Types, NotYet
    <3>2. /\ observer'[o].stage = "timedOut"
          /\ observer'[o].target = observer[o].target
          /\ observer'[o].id = observer[o].id
          /\ observer'[o].drains = observer[o].drains
      BY <2>3, <3>1 DEF Observer
    <3>3. \A k \in Keys : o \notin Waiting(k)' \cup Due(k)'
      BY <1>4, <2>3
    <3>4. observer[o].target \in Turns \cup {None}
      BY <3>1 DEF Observer
    <3>5. \A u \in Turns : Owns(u) => Owns(u)'
      BY <1>9 DEF KeepsIds
    <3> QED
      BY <2>1, <2>3, <3>2, <3>3, <3>4, <3>5 DEF ObserverInv, Owns
  <2> QED
    BY <2>2, <2>3
<1>12. ASSUME NEW k \in Keys PROVE WaitsOn(k)
  <2>1. ASSUME NEW v \in Waiting(k)'
        PROVE  /\ v \in Waiting(k) /\ v # w
               /\ v \in Turns => activeOperation'[v] = activeOperation[v]
               /\ v \in Observers => observer'[v] = observer[v]
    BY <1>4, <2>1
  <2> QED
    BY <2>1 DEF WaitsOn
<1>13. NobodyWaitsInVain'
  BY <1>1, <1>12, StillNobodyWaitsInVain
<1> QED
  BY <1>5, <1>6, <1>7, <1>8, <1>10, <1>11, <1>13 DEF IInv

LEMMA NothingIsInDue ==
    ASSUME NothingIsDue, NEW k \in Keys, NEW w
    PROVE  w \notin Due(k)
BY DEF NothingIsDue, Due, Range

LEMMA WaitTimesOutKeepsIInv ==
    ASSUME IInv, NEW t \in Turns, WaitTimesOut(t)
    PROVE  IInv'
<1>1. Types
  BY DEF IInv
<1>2. \A k \in Keys : t \notin Due(k)
  BY NothingIsInDue DEF WaitTimesOut
<1>3. /\ turn' \in [Turns -> {"new", "waiting", "owned", "skipped"}]
      /\ activeOperation' \in [Turns -> Turns \cup {None}]
      /\ observer' \in [Observers -> Observer \cup {NotYet}]
      /\ upstream' \subseteq Turns
  BY <1>1 DEF Types, WaitTimesOut
<1>4. \A u \in Turns :
         \/ turn'[u] = turn[u] /\ activeOperation'[u] = activeOperation[u]
         \/ u = t /\ ~Owns(u) /\ turn'[u] = "skipped"
  BY <1>1 DEF Types, WaitTimesOut, Owns
<1>5. \A o \in Observers :
         observer'[o] = observer[o] /\ o # t
  BY ObserversAssumption DEF WaitTimesOut
<1> QED
  BY <1>2, <1>3, <1>4, <1>5, LeavingKeepsIInv DEF WaitTimesOut

LEMMA UpstreamAbortsKeepsIInv ==
    ASSUME IInv, NEW t \in Turns, UpstreamAborts(t)
    PROVE  IInv'
<1>1. Types /\ QueuesInv /\ TurnInv(t)
  BY DEF IInv
<1>2. KeyOf[t] \in Keys
  BY KeysAssumption
<1>3. CASE t \in Waiting(KeyOf[t])
  <2>1. turn[t] = "waiting" /\ \A k \in Keys : t \notin Due(k)
    BY <1>1, <1>2, <1>3 DEF TurnInv, QueuesInv
  <2>2. /\ turn' \in [Turns -> {"new", "waiting", "owned", "skipped"}]
        /\ activeOperation' \in [Turns -> Turns \cup {None}]
        /\ observer' \in [Observers -> Observer \cup {NotYet}]
        /\ upstream' \subseteq Turns
    BY <1>1 DEF Types, UpstreamAborts
  <2>3. \A u \in Turns :
           \/ turn'[u] = turn[u] /\ activeOperation'[u] = activeOperation[u]
           \/ u = t /\ ~Owns(u) /\ turn'[u] = "skipped"
    BY <1>1, <1>3, <2>1 DEF Types, UpstreamAborts, Owns, Waiting
  <2>4. \A o \in Observers :
           observer'[o] = observer[o] /\ o # t
    BY ObserversAssumption DEF UpstreamAborts
  <2> QED
    BY <2>1, <2>2, <2>3, <2>4, LeavingKeepsIInv DEF UpstreamAborts
<1>4. CASE t \notin Waiting(KeyOf[t])
  \* t waits nowhere: its queues are as they were.
  <2>1. \A k \in Keys : t \notin Waiting(k)
    BY <1>1, <1>4 DEF TurnInv
  <2>2. UNCHANGED <<turn, activeOperation>>
    BY <1>4 DEF UpstreamAborts, Waiting
  <2>3. WaitersAre([k \in Keys |-> Waiting(k) \ {t}])
    BY <1>1, WaiterLeaves DEF UpstreamAborts
  <2>4. DueAre([k \in Keys |-> Due(k)])
    BY <1>1, QueuesUnchanged DEF UpstreamAborts
  <2>5. ASSUME NEW k \in Keys
        PROVE  Waiting(k)' = Waiting(k) /\ Due(k)' = Due(k)
    <3>1. Waiting(k)' = Waiting(k) \ {t} /\ Due(k)' = Due(k)
      BY <2>3, <2>4 DEF WaitersAre, DueAre
    <3> QED
      BY <2>1, <3>1
  <2>6. Types'
    BY <1>1, <2>2, <2>3, <2>4
       DEF Types, UpstreamAborts, run, WaitersAre, DueAre
  <2>7. QueuesInv'
    BY <1>1, <2>3, <2>4, QueuesStayApart DEF QueuesInv
  <2>8. /\ HoldersInv' /\ KeysOfIdsInv'
    BY DEF IInv, HoldersInv, KeysOfIdsInv, UpstreamAborts
  <2>9. ASSUME NEW u \in Turns
        PROVE  TurnInv(u)' /\ IdsInv(u)' /\ PhaseInv(u)'
    <3>1. TurnInv(u) /\ IdsInv(u) /\ PhaseInv(u)
      BY DEF IInv
    <3> QED
      BY <2>2, <2>5, <3>1
         DEF UpstreamAborts, TurnInv, IdsInv, PhaseInv, Owns, IdOf, run
  <2>10. ASSUME NEW o \in Observers PROVE ObserverInv(o)'
    <3>1. ObserverInv(o)
      BY DEF IInv
    <3>2. Remains(o)
      BY <2>5 DEF Remains, UpstreamAborts
    <3>3. \A u \in Turns : Advances(u)
      BY <2>2 DEF IInv, TurnInv, Advances, UpstreamAborts, Owns
    <3> QED
      BY <1>1, <3>1, <3>2, <3>3, ObserverRemains
  <2>11. ASSUME NEW k \in Keys PROVE WaitsOn(k)
    BY <2>2, <2>5 DEF WaitsOn, UpstreamAborts
  <2>12. NobodyWaitsInVain'
    BY <2>11, StillNobodyWaitsInVain DEF IInv
  <2> QED
    BY <2>6, <2>7, <2>8, <2>9, <2>10, <2>12 DEF IInv
<1> QED
  BY <1>3, <1>4

-----------------------------------------------------------------------------
(***************************************************************************)
(* The work of an admitted turn.                                           *)
(***************************************************************************)

\* What is done to an operation short of its end.
Works(t) ==
    /\ ~Owns(t) => operation'[t] = operation[t]
    /\ Owns(t) => /\ operation'[t] \in Operation
                  /\ operation'[t].sessionId = operation[t].sessionId
                  /\ operation'[t].held = operation[t].held
                  /\ operation'[t].stateCleared = operation[t].stateCleared
                  /\ operation[t].phase = "settled"
                     => operation'[t].phase = "settled"
    /\ (work'[t] = "none") <=> (work[t] = "none")
    /\ t \in rotating' => t \in rotating \/ Owns(t)
    /\ PhaseInv(t)'

LEMMA OperationsAreTyped ==
    ASSUME IInv, turn' = turn, DOMAIN operation' = Turns,
           operation' = [t \in Turns |-> operation'[t]],
           \A t \in Turns : Works(t)
    PROVE  operation' \in [Turns -> Operation \cup {NoOperation}]
<1>1. ASSUME NEW t \in Turns
      PROVE  operation'[t] \in Operation \cup {NoOperation}
  BY DEF IInv, TurnInv, Works
<1> QED
  BY <1>1

LEMMA WorkKeepsIInv ==
    ASSUME IInv,
           UNCHANGED <<registry, admission, observer, woken>>,
           operation' = [t \in Turns |-> operation'[t]],
           work' \in [Turns -> {"none", "admitted", "compacting", "running",
                                "done"}],
           storedSession' \in [Keys -> 0 .. RotationCap],
           rotating' \subseteq Turns,
           \A t \in Turns : Works(t)
    PROVE  IInv'
<1>1. Types /\ QueuesInv /\ HoldersInv /\ KeysOfIdsInv /\ NobodyWaitsInVain
  BY DEF IInv
<1>2. turn' = turn /\ waitersByKey' = waitersByKey /\ woken' = woken
      /\ activeOperation' = activeOperation /\ observer' = observer
      /\ activeRunsByKey' = activeRunsByKey
      /\ activeKeysBySessionId' = activeKeysBySessionId
      /\ waitKeysBySessionId' = waitKeysBySessionId
  BY DEF registry, admission
<1>3. \A k \in Keys : Waiting(k)' = Waiting(k) /\ Due(k)' = Due(k)
  BY <1>2 DEF Waiting, Due
<1>4. Types'
  <2>1. operation' \in [Turns -> Operation \cup {NoOperation}]
    BY <1>2, OperationsAreTyped
  <2> QED
    BY <1>1, <2>1 DEF Types, registry, admission
<1>5. QueuesInv'
  BY <1>1, <1>2, <1>3 DEF QueuesInv
<1>6. HoldersInv'
  <2>1. \A t \in Turns : operation'[t].stateCleared = operation[t].stateCleared
    BY DEF Works
  <2> QED
    BY <1>1, <1>2, <2>1, HoldersStay
<1>7. KeysOfIdsInv'
  BY <1>1, <1>2 DEF KeysOfIdsInv
<1>8. ASSUME NEW u \in Turns PROVE Advances(u) /\ KeepsIds(u) /\ Stays(u)
  BY <1>2, <1>3 DEF Works, Advances, KeepsIds, Stays, Owns
<1>9. ASSUME NEW u \in Turns
      PROVE  TurnInv(u)' /\ IdsInv(u)' /\ PhaseInv(u)'
  <2>1. TurnInv(u) /\ IdsInv(u)
    BY DEF IInv
  <2>2. TurnInv(u)'
    BY <1>1, <1>8, <2>1, TurnStays
  <2>3. IdsInv(u)'
    BY <1>2, <1>8, <2>1, IdsStay
  <2> QED
    BY <2>2, <2>3 DEF Works
<1>10. ASSUME NEW o \in Observers PROVE ObserverInv(o)'
  <2>1. Remains(o)
    BY <1>2, <1>3 DEF Remains
  <2>2. ObserverInv(o)
    BY DEF IInv
  <2> QED
    BY <1>1, <1>8, <2>1, <2>2, ObserverRemains
<1>11. NobodyWaitsInVain'
  BY <1>1, <1>2 DEF NobodyWaitsInVain, IsIdle
<1> QED
  BY <1>4, <1>5, <1>6, <1>7, <1>9, <1>10, <1>11 DEF IInv

\* Nothing is done to the operation of u.
LEMMA IdlersWork ==
    ASSUME IInv, NEW u \in Turns, turn' = turn,
           operation'[u] = operation[u], work'[u] = work[u],
           u \in rotating' => u \in rotating
    PROVE  Works(u)
<1>1. TurnInv(u) /\ PhaseInv(u)
  BY DEF IInv
<1> QED
  BY <1>1 DEF Works, TurnInv, PhaseInv, Owns

LEMMA SetPhaseSets ==
    ASSUME IInv, NEW t \in Turns, NEW next \in Phases, SetPhase(t, next),
           Owns(t)
    PROVE  /\ operation' = [u \in Turns |-> operation'[u]]
           /\ \A u \in Turns \ {t} : operation'[u] = operation[u]
           /\ operation'[t] =
                IF operation[t].phase = "settled" THEN operation[t]
                ELSE [operation[t] EXCEPT !.phase = next]
<1>1. operation \in [Turns -> Operation \cup {NoOperation}]
  BY DEF IInv, Types
<1> QED
  BY <1>1 DEF SetPhase

LEMMA CompactionBeginsKeepsIInv ==
    ASSUME IInv, NEW t \in Turns, CompactionBegins(t)
    PROVE  IInv'
<1>1. Types /\ TurnInv(t) /\ PhaseInv(t)
  BY DEF IInv
<1>2. Owns(t) /\ operation[t] \in Operation
  BY <1>1 DEF TurnInv, CompactionBegins
<1>3. /\ operation' = [u \in Turns |-> operation'[u]]
      /\ \A u \in Turns \ {t} : operation'[u] = operation[u]
      /\ operation'[t] =
           IF operation[t].phase = "settled" THEN operation[t]
           ELSE [operation[t] EXCEPT !.phase = "compacting"]
  <2>1. "compacting" \in Phases /\ SetPhase(t, "compacting")
    BY DEF Phases, CompactionBegins
  <2> QED
    BY <1>2, <2>1, SetPhaseSets
<1>4. /\ turn' = turn /\ rotating' = rotating
      /\ work'[t] = "compacting"
      /\ \A u \in Turns \ {t} : work'[u] = work[u]
  BY <1>1 DEF Types, CompactionBegins, admission
<1>5. Works(t)
  <2>1. CASE operation[t].phase = "settled"
    BY <1>1, <1>2, <1>3, <1>4, <2>1
       DEF Works, PhaseInv, Owns, CompactionBegins
  <2>2. CASE operation[t].phase # "settled"
    <3>1. /\ operation'[t] \in Operation
          /\ operation'[t].sessionId = operation[t].sessionId
          /\ operation'[t].held = operation[t].held
          /\ operation'[t].stateCleared = operation[t].stateCleared
          /\ operation'[t].backend = operation[t].backend
          /\ operation'[t].phase = "compacting"
      BY <1>2, <1>3, <2>2 DEF Operation, Phases
    <3> QED
      BY <1>1, <1>2, <1>4, <2>2, <3>1
         DEF Works, PhaseInv, Owns, CompactionBegins
  <2> QED
    BY <2>1, <2>2
<1>6. \A u \in Turns \ {t} : Works(u)
  BY <1>3, <1>4, IdlersWork
<1>7. work' \in [Turns -> {"none", "admitted", "compacting", "running", "done"}]
      /\ storedSession' \in [Keys -> 0 .. RotationCap]
      /\ rotating' \subseteq Turns
  BY <1>1 DEF Types, CompactionBegins
<1> QED
  BY <1>3, <1>5, <1>6, <1>7, WorkKeepsIInv DEF CompactionBegins

LEMMA RunBeginsKeepsIInv ==
    ASSUME IInv, NEW t \in Turns, RunBegins(t)
    PROVE  IInv'
<1>1. Types /\ TurnInv(t) /\ PhaseInv(t)
  BY DEF IInv
<1>2. Owns(t) /\ operation[t] \in Operation
  BY <1>1 DEF TurnInv, RunBegins
<1>3. /\ operation' = [u \in Turns |-> operation'[u]]
      /\ \A u \in Turns \ {t} : operation'[u] = operation[u]
      /\ operation'[t] =
           IF operation[t].phase = "settled" THEN operation[t]
           ELSE [operation[t] EXCEPT !.phase = "running"]
  <2>1. "running" \in Phases /\ SetPhase(t, "running")
    BY DEF Phases, RunBegins
  <2> QED
    BY <1>2, <2>1, SetPhaseSets
<1>4. /\ turn' = turn /\ rotating' = rotating
      /\ work'[t] = "running"
      /\ \A u \in Turns \ {t} : work'[u] = work[u]
  BY <1>1 DEF Types, RunBegins, admission
<1>5. Works(t)
  <2>1. CASE operation[t].phase = "settled"
    BY <1>1, <1>2, <1>3, <1>4, <2>1
       DEF Works, PhaseInv, Owns, RunBegins
  <2>2. CASE operation[t].phase # "settled"
    <3>1. /\ operation'[t] \in Operation
          /\ operation'[t].sessionId = operation[t].sessionId
          /\ operation'[t].held = operation[t].held
          /\ operation'[t].stateCleared = operation[t].stateCleared
          /\ operation'[t].backend = operation[t].backend
          /\ operation'[t].phase = "running"
      BY <1>2, <1>3, <2>2 DEF Operation, Phases
    <3> QED
      BY <1>1, <1>2, <1>4, <2>2, <3>1
         DEF Works, PhaseInv, Owns, RunBegins
  <2> QED
    BY <2>1, <2>2
<1>6. \A u \in Turns \ {t} : Works(u)
  BY <1>3, <1>4, IdlersWork
<1>7. work' \in [Turns -> {"none", "admitted", "compacting", "running", "done"}]
      /\ storedSession' \in [Keys -> 0 .. RotationCap]
      /\ rotating' \subseteq Turns
  BY <1>1 DEF Types, RunBegins
<1> QED
  BY <1>3, <1>5, <1>6, <1>7, WorkKeepsIInv DEF RunBegins

\* A backend is attached or detached.
LEMMA BackendKeepsIInv ==
    ASSUME IInv, NEW t \in Turns,
           UNCHANGED <<registry, admission, run, observer, woken>>,
           NEW b \in {"none", "live", "cancelled"},
           operation' = [operation EXCEPT ![t].backend = b],
           Owns(t),
           b # "none" => work[t] \in {"compacting", "running"},
           b = "live" => operation[t].phase # "settled"
    PROVE  IInv'
<1>1. Types /\ TurnInv(t) /\ PhaseInv(t)
  BY DEF IInv
<1>2. operation[t] \in Operation
  BY <1>1 DEF TurnInv
<1>3. /\ operation' = [u \in Turns |-> operation'[u]]
      /\ \A u \in Turns \ {t} : operation'[u] = operation[u]
      /\ operation'[t] = [operation[t] EXCEPT !.backend = b]
  BY <1>1 DEF Types
<1>4. turn' = turn /\ work' = work /\ rotating' = rotating
  BY DEF admission, run
<1>5. Works(t)
  <2>1. /\ operation'[t] \in Operation
        /\ operation'[t].sessionId = operation[t].sessionId
        /\ operation'[t].held = operation[t].held
        /\ operation'[t].stateCleared = operation[t].stateCleared
        /\ operation'[t].backend = b
        /\ operation'[t].phase = operation[t].phase
    BY <1>2, <1>3 DEF Operation, Phases
  <2> QED
    BY <1>1, <1>4, <2>1 DEF Works, PhaseInv, Owns
<1>6. \A u \in Turns \ {t} : Works(u)
  BY <1>3, <1>4, IdlersWork
<1>7. work' \in [Turns -> {"none", "admitted", "compacting", "running", "done"}]
      /\ storedSession' \in [Keys -> 0 .. RotationCap]
      /\ rotating' \subseteq Turns
  BY <1>1 DEF Types, run
<1> QED
  BY <1>3, <1>5, <1>6, <1>7, WorkKeepsIInv

LEMMA AttachBackendKeepsIInv ==
    ASSUME IInv, NEW t \in Turns, AttachBackend(t)
    PROVE  IInv'
<1>1. TurnInv(t)
  BY DEF IInv
<1>2. Owns(t)
  BY <1>1 DEF TurnInv, AttachBackend
<1>3. CASE operation[t].phase = "settled" \/ t \in upstream
  <2>1. operation' = [operation EXCEPT ![t].backend = "cancelled"]
    BY <1>3 DEF AttachBackend, Attached
  <2> QED
    BY <1>2, <2>1, BackendKeepsIInv DEF AttachBackend
<1>4. CASE ~(operation[t].phase = "settled" \/ t \in upstream)
  <2>1. operation' = [operation EXCEPT ![t].backend = "live"]
    BY <1>4 DEF AttachBackend, Attached
  <2> QED
    BY <1>2, <1>4, <2>1, BackendKeepsIInv DEF AttachBackend
<1> QED
  BY <1>3, <1>4

LEMMA DetachBackendKeepsIInv ==
    ASSUME IInv, NEW t \in Turns, DetachBackend(t)
    PROVE  IInv'
<1>1. TurnInv(t)
  BY DEF IInv
<1>2. Owns(t)
  BY <1>1 DEF TurnInv, DetachBackend, NoOperation
<1> QED
  BY <1>2, BackendKeepsIInv DEF DetachBackend

LEMMA RotationKeepsIInv ==
    ASSUME IInv, NEW t \in Turns, SessionRotates(t) \/ SessionIsReset(t)
    PROVE  IInv'
<1>1. Types /\ TurnInv(t)
  BY DEF IInv
<1>2. /\ UNCHANGED <<registry, admission, observer, woken>>
      /\ operation' = operation /\ work' = work
      /\ rotating' \subseteq rotating \cup {t}
      /\ storedSession[KeyOf[t]] < RotationCap
      /\ storedSession' = [storedSession EXCEPT ![KeyOf[t]] = @ + 1]
      /\ work[t] # "none"
  BY DEF SessionRotates, SessionIsReset
<1>3. storedSession' \in [Keys -> 0 .. RotationCap]
  <2>1. \A n \in 0 .. RotationCap : n < RotationCap
         => n + 1 \in 0 .. RotationCap
    BY RotationAssumption
  <2>2. KeyOf[t] \in Keys
    BY KeysAssumption
  <2> QED
    BY <1>1, <1>2, <2>1, <2>2 DEF Types
<1>4. Owns(t)
  BY <1>1, <1>2 DEF TurnInv
<1>5. ASSUME NEW u \in Turns PROVE Works(u)
  <2>1. TurnInv(u) /\ PhaseInv(u)
    BY DEF IInv
  <2>2. u \in rotating' => u \in rotating \/ Owns(u)
    BY <1>2, <1>4
  <2> QED
    BY <1>2, <2>1, <2>2 DEF Works, TurnInv, PhaseInv, Owns, admission
<1>6. operation' = [u \in Turns |-> operation'[u]]
      /\ work' \in [Turns -> {"none", "admitted", "compacting", "running",
                              "done"}]
      /\ rotating' \subseteq Turns
  BY <1>1, <1>2 DEF Types
<1> QED
  BY <1>2, <1>3, <1>5, <1>6, WorkKeepsIInv

\* The operation takes on the id the store has.
LEMMA RunFollowsRotationKeepsIInv ==
    ASSUME IInv, NEW t \in Turns, RunFollowsRotation(t)
    PROVE  IInv'
<1>. DEFINE key == KeyOf[t]
            next == <<key, storedSession[key]>>
            old == IdOf(t)
<1>1. Types /\ QueuesInv /\ HoldersInv /\ KeysOfIdsInv /\ NobodyWaitsInVain
      /\ TurnInv(t) /\ IdsInv(t) /\ PhaseInv(t)
  BY DEF IInv
<1>2. key \in Keys /\ next \in SessionIds /\ next[1] = key
  BY <1>1, KeysAssumption DEF Types, SessionIds
<1>3. Owns(t) /\ operation[t] \in Operation
  BY <1>1 DEF TurnInv, RunFollowsRotation
<1>4. /\ rotating' \subseteq rotating
      /\ UpdateSessionId(t, next)
      /\ UNCHANGED <<admission, work, storedSession, observer, woken>>
  BY DEF RunFollowsRotation
<1>. HIDE DEF next
<1>5. CASE operation[t].phase = "settled" \/ old = next
  <2>1. UNCHANGED <<registry, operation>>
    BY <1>4, <1>5 DEF UpdateSessionId
  <2>2. \A u \in Turns : Works(u)
    BY <1>4, <2>1, IdlersWork DEF admission
  <2>3. operation' = [u \in Turns |-> operation'[u]]
    BY <1>1, <2>1 DEF Types
  <2>4. /\ work' \in [Turns -> {"none", "admitted", "compacting", "running",
                                "done"}]
        /\ storedSession' \in [Keys -> 0 .. RotationCap]
        /\ rotating' \subseteq Turns
    BY <1>1, <1>4 DEF Types
  <2> QED
    BY <1>4, <2>1, <2>2, <2>3, <2>4, WorkKeepsIInv
<1>6. CASE ~(operation[t].phase = "settled" \/ old = next)
  <2>1. /\ operation' = [operation EXCEPT ![t].sessionId = next,
                                          ![t].held = @ \cup {next}]
        /\ activeSessionIdsByKey' = [activeSessionIdsByKey EXCEPT ![key] = next]
        /\ activeKeysBySessionId' =
              [activeKeysBySessionId EXCEPT ![old] = None, ![next] = key]
        /\ waitKeysBySessionId' =
              [waitKeysBySessionId EXCEPT ![old] = key, ![next] = key]
        /\ UNCHANGED <<activeRunsByKey, waitersByKey>>
    BY <1>4, <1>6 DEF UpdateSessionId
  <2>2. old \in SessionIds /\ old[1] = key
    BY <1>1, <1>3 DEF IdsInv, IdOf, Operation
  <2>. HIDE DEF key, old
  <2>3. \A u \in Turns \ {t} : operation'[u] = operation[u]
    BY <1>1, <2>1 DEF Types
  <2>4. operation'[t] = [operation[t] EXCEPT !.sessionId = next,
                                             !.held = @ \cup {next}]
    BY <1>1, <2>1 DEF Types
  <2>5. /\ operation'[t] \in Operation
        /\ operation'[t].sessionId = next
        /\ operation'[t].held = operation[t].held \cup {next}
        /\ operation'[t].stateCleared = operation[t].stateCleared
        /\ operation'[t].backend = operation[t].backend
        /\ operation'[t].phase = operation[t].phase
    <3>1. operation[t].held \cup {next} \in SUBSET SessionIds
      BY <1>2, <1>3 DEF Operation
    <3>. DEFINE held == operation[t].held \cup {next}
    <3>. HIDE DEF held
    <3>2. operation'[t] = [operation[t] EXCEPT !.sessionId = next,
                                               !.held = held]
      BY <1>3, <2>4 DEF Operation, held
    <3>3. held \in SUBSET SessionIds
      BY <3>1 DEF held
    <3>4. /\ operation'[t] \in Operation
          /\ operation'[t].sessionId = next
          /\ operation'[t].held = held
          /\ operation'[t].stateCleared = operation[t].stateCleared
          /\ operation'[t].backend = operation[t].backend
          /\ operation'[t].phase = operation[t].phase
      BY <1>2, <1>3, <3>2, <3>3 DEF Operation
    <3> QED
      BY <3>4 DEF held
  <2>6. \A id \in SessionIds :
           /\ waitKeysBySessionId'[id] =
                IF id \in {old, next} THEN key ELSE waitKeysBySessionId[id]
           /\ activeKeysBySessionId'[id] \in
                {None, activeKeysBySessionId[id]}
                \cup (IF id = next THEN {key} ELSE {})
    BY <1>1, <2>1 DEF Types
  <2>7. turn' = turn /\ activeOperation' = activeOperation /\ work' = work
        /\ woken' = woken /\ waitersByKey' = waitersByKey
        /\ observer' = observer /\ activeRunsByKey' = activeRunsByKey
    BY <1>4, <2>1 DEF admission
  <2>8. \A k \in Keys : Waiting(k)' = Waiting(k) /\ Due(k)' = Due(k)
    BY <2>7 DEF Waiting, Due
  <2>9. Types'
    <3>1. operation' \in [Turns -> Operation \cup {NoOperation}]
      <4>1. \A u \in Turns : operation'[u] \in Operation \cup {NoOperation}
        BY <1>1, <2>3, <2>5 DEF Types
      <4>2. operation' = [u \in Turns |-> operation'[u]]
        BY <1>1, <2>1 DEF Types
      <4> QED
        BY <4>1, <4>2
    <3>2. /\ activeSessionIdsByKey' \in [Keys -> SessionIds \cup {None}]
          /\ activeKeysBySessionId' \in [SessionIds -> Keys \cup {None}]
          /\ waitKeysBySessionId' \in [SessionIds -> Keys \cup {None}]
      BY <1>1, <1>2, <2>1 DEF Types
    <3> QED
      BY <1>1, <1>4, <2>7, <3>1, <3>2 DEF Types, admission
  <2>10. QueuesInv'
    BY <1>1, <2>7, <2>8 DEF QueuesInv
  <2>11. HoldersInv'
    <3>1. \A u \in Turns :
            operation'[u].stateCleared = operation[u].stateCleared
      BY <2>3, <2>5
    <3> QED
      BY <1>1, <2>7, <3>1, HoldersStay
  <2>12. KeysOfIdsInv'
    BY <1>1, <1>2, <2>2, <2>6 DEF KeysOfIdsInv
  <2>13. ASSUME NEW u \in Turns PROVE Advances(u) /\ Stays(u)
    <3>1. Owns(u) => operation[u] \in Operation
      BY DEF IInv, TurnInv
    <3>2. u # t => operation'[u] = operation[u]
      BY <2>3
    <3> QED
      BY <1>3, <1>4, <2>5, <2>7, <2>8, <3>1, <3>2 DEF Advances, Stays, Owns
  <2>14. ASSUME NEW u \in Turns
         PROVE  TurnInv(u)' /\ IdsInv(u)' /\ PhaseInv(u)'
    <3>1. TurnInv(u) /\ IdsInv(u) /\ PhaseInv(u)
      BY DEF IInv
    <3>2. TurnInv(u)'
      BY <1>1, <2>13, <3>1, TurnStays
    <3>3. CASE u = t
      <4>1. IdsInv(t)'
        <5>1. operation'[t].sessionId[1] = KeyOf[t]
          BY <1>2, <2>5 DEF key
        <5>2. ASSUME NEW id \in operation'[t].held
              PROVE  /\ id[1] = KeyOf[t]
                     /\ ~operation'[t].stateCleared
                        => waitKeysBySessionId'[id] = KeyOf[t]
          <6>1. CASE id = next
            BY <1>2, <2>6, <6>1 DEF key
          <6>2. CASE id \in operation[t].held
            BY <1>1, <1>3, <2>5, <2>6, <6>2 DEF IdsInv, Operation, key
          <6> QED
            BY <2>5, <6>1, <6>2
        <5> QED
          BY <5>1, <5>2 DEF IdsInv, IdOf
      <4>2. PhaseInv(t)'
        BY <1>1, <1>3, <2>5, <2>7 DEF PhaseInv, Owns
      <4> QED
        BY <3>2, <3>3, <4>1, <4>2
    <3>4. CASE u # t
      <4>1. operation'[u] = operation[u]
        BY <2>3, <3>4
      <4>2. IdsInv(u)'
        <5>1. ASSUME Owns(u), NEW id \in operation[u].held,
                     ~operation[u].stateCleared
              PROVE  waitKeysBySessionId'[id] = KeyOf[u]
          <6>1. id \in SessionIds /\ id[1] = KeyOf[u]
                /\ waitKeysBySessionId[id] = KeyOf[u]
            BY <3>1, <5>1 DEF IdsInv, TurnInv, Operation
          <6> QED
            BY <1>2, <2>2, <2>6, <6>1
        <5> QED
          BY <2>7, <3>1, <4>1, <5>1 DEF IdsInv, IdOf, Owns
      <4>3. PhaseInv(u)'
        BY <2>7, <3>1, <4>1, PhaseStays DEF Owns
      <4> QED
        BY <3>2, <4>2, <4>3
    <3> QED
      BY <3>3, <3>4
  <2>15. ASSUME NEW o \in Observers PROVE ObserverInv(o)'
    <3>1. Remains(o)
      BY <2>7, <2>8 DEF Remains
    <3>2. ObserverInv(o)
      BY DEF IInv
    <3> QED
      BY <1>1, <2>13, <3>1, <3>2, ObserverRemains
  <2>16. NobodyWaitsInVain'
    BY <1>1, <2>7 DEF NobodyWaitsInVain, IsIdle
  <2> QED
    BY <2>9, <2>10, <2>11, <2>12, <2>14, <2>15, <2>16 DEF IInv
<1> QED
  BY <1>5, <1>6

-----------------------------------------------------------------------------
(***************************************************************************)
(* Operations that end or are aborted.                                     *)
(***************************************************************************)

\* The keys that the end of cs gives back.
Freed(cs) == { KeyOf[t] : t \in Uncleared(cs) }

\* What becomes of the operations: those of cs are cleared.
Ends(t, cs) ==
    /\ ~Owns(t) => operation'[t] = operation[t] /\ t \notin cs
    /\ Owns(t) => /\ operation'[t] \in Operation
                  /\ operation'[t].sessionId = operation[t].sessionId
                  /\ operation[t].phase = "settled"
                     => operation'[t].phase = "settled"
                  /\ IF t \in cs
                     THEN /\ operation'[t].held = {}
                          /\ operation'[t].stateCleared
                          /\ operation'[t].phase = "settled"
                     ELSE /\ operation'[t].held = operation[t].held
                          /\ operation'[t].stateCleared
                               = operation[t].stateCleared
    /\ (work'[t] = "none") <=> (work[t] = "none")
    /\ PhaseInv(t)'

\* An observer that is done with an operation of cs.
IsOver(o, cs, gone) ==
    /\ observer'[o] \in Observer
    /\ observer'[o].stage \in {"ended", "timedOut"}
    /\ observer'[o].target \in cs
    /\ KeyOf[observer'[o].target] = observer'[o].id[1]
    /\ \A k \in Keys : /\ o \notin Due(k)
                       /\ o \in Waiting(k) => o = gone /\ k \in Freed(cs)

\* Whose key is given back held it.
LEMMA FreedWereHeld ==
    ASSUME HoldersInv, NEW cs \in SUBSET Turns, NEW k \in Freed(cs)
    PROVE  /\ k \in Keys
           /\ activeRunsByKey[k] \in Uncleared(cs)
           /\ KeyOf[activeRunsByKey[k]] = k
<1>1. PICK t \in Uncleared(cs) : k = KeyOf[t]
  BY DEF Freed
<1>2. t \in Turns /\ activeRunsByKey[k] = t
  BY <1>1 DEF HoldersInv, Uncleared
<1> QED
  BY <1>1, <1>2, KeysAssumption

LEMMA EndingKeepsIInv ==
    ASSUME IInv, NEW cs \in SUBSET Turns, NEW gone \in Observers \cup {None},
           ClearStateAfter(cs, gone),
           UNCHANGED <<admission, storedSession, rotating>>,
           operation' = [t \in Turns |-> operation'[t]],
           work' \in [Turns -> {"none", "admitted", "compacting", "running",
                                "done"}],
           observer' = [o \in Observers |-> observer'[o]],
           \A t \in Turns : Ends(t, cs),
           \A o \in Observers :
               (observer'[o] = observer[o] /\ o # gone) \/ IsOver(o, cs, gone)
    PROVE  IInv'
<1>1. Types /\ QueuesInv /\ HoldersInv /\ KeysOfIdsInv /\ NobodyWaitsInVain
  BY DEF IInv
<1>. DEFINE keys == Freed(cs)
            cleared == Uncleared(cs)
<1>2. /\ activeRunsByKey' = [k \in Keys |->
            IF k \in keys THEN None ELSE activeRunsByKey[k]]
      /\ activeSessionIdsByKey' = [k \in Keys |->
            IF k \in keys THEN None ELSE activeSessionIdsByKey[k]]
      /\ activeKeysBySessionId' = [id \in SessionIds |->
            IF id \in { IdOf(t) : t \in cleared } THEN None
            ELSE activeKeysBySessionId[id]]
      /\ waitKeysBySessionId' = [id \in SessionIds |->
            IF waitKeysBySessionId[id] \in keys THEN None
            ELSE waitKeysBySessionId[id]]
      /\ NotifyReplyRunEnded(keys, gone)
  BY DEF ClearStateAfter, Freed
<1>3. /\ WaitersAre([k \in Keys |-> IF k \in keys THEN {} ELSE Waiting(k)])
      /\ DueAre([k \in Keys |->
                   IF k \in keys THEN Due(k) \cup (Waiting(k) \ {gone})
                   ELSE Due(k)])
  BY <1>1, <1>2, WaitersAreTold
<1>4. \A k \in Keys :
         /\ Waiting(k)' = IF k \in keys THEN {} ELSE Waiting(k)
         /\ Due(k)' = IF k \in keys THEN Due(k) \cup (Waiting(k) \ {gone})
                      ELSE Due(k)
  BY <1>3 DEF WaitersAre, DueAre
<1>5. turn' = turn /\ activeOperation' = activeOperation
      /\ rotating' = rotating
  BY DEF admission
<1>. HIDE DEF keys, cleared
<1>6. Types'
  <2>1. operation' \in [Turns -> Operation \cup {NoOperation}]
    <3>1. \A u \in Turns : operation'[u] \in Operation \cup {NoOperation}
      BY <1>1 DEF Types, Ends
    <3> QED
      BY <3>1
  <2>2. observer' \in [Observers -> Observer \cup {NotYet}]
    <3>1. \A o \in Observers : observer'[o] \in Observer \cup {NotYet}
      BY <1>1 DEF Types, IsOver
    <3> QED
      BY <3>1
  <2>3. /\ activeRunsByKey' \in [Keys -> Turns \cup {None}]
        /\ activeSessionIdsByKey' \in [Keys -> SessionIds \cup {None}]
    BY <1>1, <1>2 DEF Types
  <2>4. /\ activeKeysBySessionId' \in [SessionIds -> Keys \cup {None}]
        /\ waitKeysBySessionId' \in [SessionIds -> Keys \cup {None}]
    BY <1>1, <1>2 DEF Types
  <2>5. /\ waitersByKey' \in [Keys -> Seq(Turns \cup Observers)]
        /\ woken' \in [Keys -> Seq(Turns \cup Observers)]
    BY <1>3 DEF WaitersAre, DueAre
  <2>6. /\ kind' \in KindMixes
        /\ turn' \in [Turns -> {"new", "waiting", "owned", "skipped"}]
        /\ activeOperation' \in [Turns -> Turns \cup {None}]
        /\ upstream' \subseteq Turns
        /\ storedSession' \in [Keys -> 0 .. RotationCap]
        /\ rotating' \subseteq Turns
    BY <1>1 DEF Types, admission
  <2> QED
    BY <2>1, <2>2, <2>3, <2>4, <2>5, <2>6 DEF Types
<1>7. QueuesInv'
  <2>1. \A k \in Keys :
           (IF k \in keys THEN {} ELSE Waiting(k))
           \cap (IF k \in keys THEN Due(k) \cup (Waiting(k) \ {gone})
                 ELSE Due(k)) = {}
    BY <1>1 DEF QueuesInv
  <2> QED
    BY <1>3, <2>1, QueuesStayApart
<1>8. ASSUME NEW u \in Turns, ~operation'[u].stateCleared
      PROVE  /\ u \notin cs
             /\ ~operation[u].stateCleared
             /\ activeRunsByKey[KeyOf[u]] = u
             /\ KeyOf[u] \in Keys \ keys
  <2>1. TurnInv(u)
    BY DEF IInv
  <2>2. Owns(u)
    BY <1>8, <2>1 DEF TurnInv, Ends, NoOperation
  <2>3. u \notin cs /\ ~operation[u].stateCleared
    BY <1>8, <2>2 DEF Ends
  <2>4. activeRunsByKey[KeyOf[u]] = u
    BY <1>1, <2>3 DEF HoldersInv
  <2>5. KeyOf[u] \notin keys
    BY <1>1, <2>3, <2>4, FreedWereHeld DEF keys, Uncleared
  <2> QED
    BY <2>3, <2>4, <2>5, KeysAssumption
<1>9. HoldersInv'
  <2>1. ASSUME NEW k \in Keys, activeRunsByKey'[k] # None
        PROVE  /\ KeyOf[activeRunsByKey'[k]] = k
               /\ ~operation'[activeRunsByKey'[k]].stateCleared
    <3>1. k \notin keys /\ activeRunsByKey'[k] = activeRunsByKey[k]
      BY <1>2, <2>1
    <3>2. PICK u \in Turns : u = activeRunsByKey[k]
      BY <1>1, <2>1, <3>1 DEF Types
    <3>3. KeyOf[u] = k /\ ~operation[u].stateCleared
      BY <1>1, <2>1, <3>1, <3>2 DEF HoldersInv
    <3>4. u \notin cs
      BY <3>1, <3>3 DEF keys, Freed, Uncleared
    <3>5. TurnInv(u)
      BY DEF IInv
    <3>6. ~operation'[u].stateCleared
      BY <3>3, <3>4, <3>5 DEF Ends, TurnInv, NoOperation
    <3> QED
      BY <3>1, <3>2, <3>3, <3>6
  <2>2. ASSUME NEW u \in Turns, ~operation'[u].stateCleared
        PROVE  activeRunsByKey'[KeyOf[u]] = u
    BY <1>2, <1>8, <2>2
  <2> QED
    BY <2>1, <2>2 DEF HoldersInv
<1>10. KeysOfIdsInv'
  BY <1>1, <1>2 DEF KeysOfIdsInv
<1>11. ASSUME NEW u \in Turns PROVE Advances(u) /\ KeepsIds(u) /\ Stays(u)
  <2>1. Advances(u) /\ KeepsIds(u)
    BY <1>5 DEF Ends, Advances, KeepsIds, Owns
  <2>2. u # gone
    BY ObserversAssumption, KeysAssumption
  <2>3. \A k \in Keys : u \in Waiting(k)' \cup Due(k)'
                        => u \in Waiting(k) \cup Due(k)
    BY <1>4
  <2> QED
    BY <1>5, <2>1, <2>3 DEF Ends, Stays
<1>12. ASSUME NEW u \in Turns
       PROVE  TurnInv(u)' /\ IdsInv(u)' /\ PhaseInv(u)'
  <2>1. TurnInv(u) /\ IdsInv(u) /\ PhaseInv(u)
    BY DEF IInv
  <2>2. TurnInv(u)'
    BY <1>1, <1>11, <2>1, TurnStays
  <2>3. IdsInv(u)'
    <3>1. ASSUME Owns(u), ~operation'[u].stateCleared,
                 NEW id \in operation[u].held
          PROVE  waitKeysBySessionId'[id] = waitKeysBySessionId[id]
      <4>1. id \in SessionIds /\ waitKeysBySessionId[id] = KeyOf[u]
        BY <1>8, <2>1, <3>1 DEF IdsInv, TurnInv, Operation
      <4> QED
        BY <1>2, <1>8, <3>1, <4>1
    <3> QED
      BY <1>11, <2>1, <3>1, IdsStay
  <2>4. PhaseInv(u)'
    BY DEF Ends
  <2> QED
    BY <2>2, <2>3, <2>4
<1>13. ASSUME NEW o \in Observers PROVE ObserverInv(o)'
  <2>1. ObserverInv(o)
    BY DEF IInv
  <2>2. CASE observer'[o] = observer[o] /\ o # gone
    <3>1. \A k \in Keys : (o \in Waiting(k)' \cup Due(k)')
                          <=> (o \in Waiting(k) \cup Due(k))
      BY <1>4, <2>2
    <3>2. ASSUME NEW k \in Keys, o \in Due(k)', o \notin Due(k),
                 observer[o].target # None
          PROVE  operation'[observer[o].target].stateCleared
      <4>1. k \in keys /\ o \in Waiting(k)
        BY <1>4, <3>2
      <4>2. /\ observer[o].target = activeRunsByKey[k]
            /\ activeRunsByKey[k] \in cs
        BY <1>1, <3>2, <4>1, FreedWereHeld
           DEF NobodyWaitsInVain, Waiting, keys, Uncleared
      <4>3. Ends(activeRunsByKey[k], cs) /\ activeRunsByKey[k] \in Turns
        BY <4>2
      <4> QED
        BY <4>2, <4>3 DEF Ends
    <3>3. Remains(o)
      BY <2>2, <3>1, <3>2 DEF Remains
    <3> QED
      BY <1>1, <1>11, <2>1, <3>3, ObserverRemains
  <2>3. CASE IsOver(o, cs, gone)
    <3>1. \A k \in Keys : o \notin Waiting(k)' \cup Due(k)'
      BY <1>4, <2>3 DEF IsOver, keys
    <3>2. PICK t \in cs : t = observer'[o].target
      BY <2>3 DEF IsOver
    <3>3. Ends(t, cs) /\ t \in Turns
      OBVIOUS
    <3>4. turn'[t] = "owned" /\ operation'[t].stateCleared
          /\ operation'[t].phase = "settled"
      BY <1>5, <3>3 DEF Ends, Owns
    <3>5. t # None /\ KeyOf[t] = observer'[o].id[1]
          /\ observer'[o].stage # "waiting"
      BY <2>3, <3>2, KeysAssumption DEF IsOver
    <3> QED
      BY <3>1, <3>2, <3>4, <3>5 DEF ObserverInv, Owns
  <2> QED
    BY <2>2, <2>3
<1>14. ASSUME NEW k \in Keys PROVE WaitsOn(k)
  <2>1. CASE k \in keys
    BY <1>4, <2>1 DEF WaitsOn
  <2>2. CASE k \notin keys
    <3>1. activeRunsByKey'[k] = activeRunsByKey[k]
      BY <1>2, <2>2
    <3>2. \A o \in Observers \cap Waiting(k) : observer'[o] = observer[o]
      BY <2>2 DEF IsOver, keys
    <3> QED
      BY <1>4, <1>5, <2>2, <3>1, <3>2 DEF WaitsOn
  <2> QED
    BY <2>1, <2>2
<1>15. NobodyWaitsInVain'
  BY <1>1, <1>14, StillNobodyWaitsInVain
<1> QED
  BY <1>6, <1>7, <1>9, <1>10, <1>12, <1>13, <1>15 DEF IInv

LEMMA HolderOwns ==
    ASSUME IInv, NEW k \in Keys, activeRunsByKey[k] # None
    PROVE  /\ activeRunsByKey[k] \in Turns
           /\ Owns(activeRunsByKey[k])
           /\ KeyOf[activeRunsByKey[k]] = k
           /\ ~operation[activeRunsByKey[k]].stateCleared
<1>1. PICK t \in Turns : t = activeRunsByKey[k]
  BY DEF IInv, Types
<1>2. KeyOf[t] = k /\ ~operation[t].stateCleared
  BY <1>1 DEF IInv, HoldersInv
<1>3. TurnInv(t)
  BY DEF IInv
<1> QED
  BY <1>1, <1>2, <1>3 DEF TurnInv, NoOperation

\* The operation of the run that is found under id.
LEMMA ResolvedHolds ==
    ASSUME IInv, NEW id \in SessionIds, ResolveReplyRun(id) # None
    PROVE  id[1] \in Keys /\ ResolveReplyRun(id) = activeRunsByKey[id[1]]
BY DEF IInv, Types, KeysOfIdsInv, ResolveReplyRun, SessionIds

LEMMA SettledSettles ==
    ASSUME IInv, NEW t \in Turns, Owns(t)
    PROVE  /\ \A u \in Turns \ {t} : Settled(t)[u] = operation[u]
           /\ Settled(t) = [u \in Turns |-> Settled(t)[u]]
           /\ Settled(t)[t] \in Operation
           /\ Settled(t)[t].sessionId = operation[t].sessionId
           /\ Settled(t)[t].backend = operation[t].backend
           /\ Settled(t)[t].phase = "settled"
           /\ Settled(t)[t].stateCleared
           /\ Settled(t)[t].held = {}
<1>1. operation \in [Turns -> Operation \cup {NoOperation}]
      /\ operation[t] \in Operation
  BY DEF IInv, Types, TurnInv
<1>2. Settled(t)[t] = [operation[t] EXCEPT !.phase = "settled",
                                           !.stateCleared = TRUE, !.held = {}]
  BY <1>1 DEF Settled
<1>3. "settled" \in Phases /\ {} \in SUBSET SessionIds
  BY DEF Phases
<1>4. \A u \in Turns \ {t} : Settled(t)[u] = operation[u]
  BY <1>1 DEF Settled
<1>5. Settled(t) = [u \in Turns |-> Settled(t)[u]]
  BY <1>1 DEF Settled
<1> QED
  BY <1>1, <1>2, <1>3, <1>4, <1>5 DEF Operation

\* An operation that nothing happens to.
LEMMA OthersEndNot ==
    ASSUME IInv, NEW u \in Turns, NEW cs, u \notin cs, turn' = turn,
           operation'[u] = operation[u], work'[u] = work[u]
    PROVE  Ends(u, cs)
<1>1. TurnInv(u) /\ PhaseInv(u)
  BY DEF IInv
<1> QED
  BY <1>1 DEF Ends, TurnInv, PhaseInv, Owns

LEMMA TurnEndsKeepsIInv ==
    ASSUME IInv, NEW t \in Turns, TurnEnds(t)
    PROVE  IInv'
<1>1. Types /\ TurnInv(t) /\ PhaseInv(t)
  BY DEF IInv
<1>2. Owns(t)
  BY <1>1 DEF TurnInv, TurnEnds
<1>3. turn' = turn /\ operation' = Settled(t) /\ ClearStateAfter({t}, None)
      /\ UNCHANGED <<admission, storedSession, rotating, observer>>
  BY DEF TurnEnds, admission, ClearState
<1>4. work'[t] = "done" /\ \A u \in Turns \ {t} : work'[u] = work[u]
  BY <1>1 DEF TurnEnds, Types
<1>5. Ends(t, {t})
  BY <1>1, <1>2, <1>3, <1>4, SettledSettles
     DEF Ends, PhaseInv, TurnInv, Owns, TurnEnds
<1>6. \A u \in Turns \ {t} : Ends(u, {t})
  BY <1>2, <1>3, <1>4, SettledSettles, OthersEndNot
<1>7. operation' = [u \in Turns |-> operation'[u]]
  BY <1>2, <1>3, SettledSettles
<1>8. work' \in [Turns -> {"none", "admitted", "compacting", "running", "done"}]
      /\ observer' = [o \in Observers |-> observer'[o]]
  BY <1>1 DEF TurnEnds, Types
<1>9. \A o \in Observers : observer'[o] = observer[o] /\ o # None
  BY <1>3, ObserversAssumption
<1> QED
  BY <1>3, <1>5, <1>6, <1>7, <1>8, <1>9, EndingKeepsIInv

\* An abort ends what has not begun and settles the rest.
LEMMA AbortedEnds ==
    ASSUME IInv, NEW ts \in SUBSET Turns, \A t \in ts : Owns(t),
           operation' = Aborted(ts), turn' = turn, work' = work
    PROVE  /\ \A t \in Turns : Ends(t, NotBegun(ts))
           /\ operation' = [t \in Turns |-> operation'[t]]
<1>1. operation' = [t \in Turns |-> operation'[t]]
  BY DEF Aborted
<1>2. ASSUME NEW t \in Turns PROVE Ends(t, NotBegun(ts))
  <2>1. TurnInv(t) /\ PhaseInv(t)
    BY DEF IInv
  <2>2. CASE t \notin ts
    <3>1. operation'[t] = operation[t] /\ t \notin NotBegun(ts)
      BY <2>2 DEF Aborted, NotBegun
    <3> QED
      BY <3>1, OthersEndNot
  <2>3. CASE t \in ts /\ operation[t].phase = "queued"
    <3>1. operation'[t] = Settled(t)[t] /\ t \in NotBegun(ts) /\ Owns(t)
      BY <2>3 DEF Aborted, NotBegun
    <3> QED
      BY <2>1, <2>3, <3>1, SettledSettles DEF Ends, PhaseInv, Owns
  <2>4. CASE t \in ts /\ operation[t].phase # "queued"
    <3>1. Owns(t) /\ operation[t] \in Operation /\ t \notin NotBegun(ts)
      BY <2>1, <2>4 DEF TurnInv, NotBegun
    <3>2. PICK b \in {"none", "cancelled"} :
              /\ b = "none" <=> operation[t].backend = "none"
              /\ operation'[t] = [operation[t] EXCEPT !.phase = "settled",
                                                      !.backend = b]
      <4>1. CASE operation[t].backend = "none"
        <5>1. operation'[t] = [operation[t] EXCEPT !.phase = "settled",
                                                   !.backend = "none"]
          BY <2>4, <3>1, <4>1 DEF Aborted, Operation
        <5> QED
          BY <4>1, <5>1
      <4>2. CASE operation[t].backend # "none"
        <5>1. operation'[t] = [operation[t] EXCEPT !.phase = "settled",
                                                   !.backend = "cancelled"]
          BY <2>4, <3>1, <4>2 DEF Aborted, Operation
        <5> QED
          BY <4>2, <5>1
      <4> QED
        BY <4>1, <4>2
    <3>3. /\ operation'[t] \in Operation
          /\ operation'[t].sessionId = operation[t].sessionId
          /\ operation'[t].held = operation[t].held
          /\ operation'[t].stateCleared = operation[t].stateCleared
          /\ operation'[t].backend = b
          /\ operation'[t].phase = "settled"
      BY <3>1, <3>2 DEF Operation, Phases
    <3> QED
      BY <2>1, <3>1, <3>2, <3>3 DEF Ends, PhaseInv, Owns
  <2> QED
    BY <2>2, <2>3, <2>4
<1> QED
  BY <1>1, <1>2

LEMMA AbortKeepsIInv ==
    ASSUME IInv, NEW ts \in SUBSET Turns, \A t \in ts : Owns(t),
           operation' = Aborted(ts), ClearState(NotBegun(ts)),
           UNCHANGED <<admission, run, observer>>
    PROVE  IInv'
<1>1. Types
  BY DEF IInv
<1>2. turn' = turn /\ work' = work /\ UNCHANGED <<storedSession, rotating>>
      /\ NotBegun(ts) \in SUBSET Turns /\ ClearStateAfter(NotBegun(ts), None)
  BY DEF admission, run, NotBegun, ClearState
<1>3. /\ \A t \in Turns : Ends(t, NotBegun(ts))
      /\ operation' = [t \in Turns |-> operation'[t]]
  BY <1>2, AbortedEnds
<1>4. work' \in [Turns -> {"none", "admitted", "compacting", "running", "done"}]
      /\ observer' = [o \in Observers |-> observer'[o]]
  BY <1>1, <1>2 DEF Types
<1>5. \A o \in Observers : observer'[o] = observer[o] /\ o # None
  BY ObserversAssumption
<1> QED
  BY <1>2, <1>3, <1>4, <1>5, EndingKeepsIInv

LEMMA UserAbortsKeepsIInv ==
    ASSUME IInv, NEW k \in Keys, UserAborts(k)
    PROVE  IInv'
<1>1. activeRunsByKey[k] \in Turns /\ Owns(activeRunsByKey[k])
  BY HolderOwns DEF UserAborts, IsIdle
<1> QED
  BY <1>1, AbortKeepsIInv DEF UserAborts

LEMMA RestartAbortsKeepsIInv ==
    ASSUME IInv, RestartAborts
    PROVE  IInv'
<1>1. PICK ts \in SUBSET Active :
          operation' = Aborted(ts) /\ ClearState(NotBegun(ts))
  BY DEF RestartAborts
<1>2. ASSUME NEW t \in ts PROVE t \in Turns /\ Owns(t)
  BY HolderOwns DEF Active
<1> QED
  BY <1>1, <1>2, AbortKeepsIInv DEF RestartAborts

-----------------------------------------------------------------------------
(***************************************************************************)
(* Observers.                                                              *)
(***************************************************************************)

LEMMA IdleObserverIsNowhere ==
    ASSUME IInv, NEW o \in Observers, observer[o].stage = "idle"
    PROVE  \A k \in Keys : o \notin Waiting(k) \cup Due(k)
BY DEF IInv, ObserverInv

\* An observer asks about id and begins to wait.  The operations may be
\* aborted short of their end.
LEMMA JoiningKeepsIInv ==
    ASSUME IInv, NEW o \in Observers, observer[o].stage = "idle",
           NEW asked \in Observer,
           asked.stage = "waiting",
           observer' = [observer EXCEPT ![o] = asked],
           ~IsIdle(asked.id[1]),
           waitersByKey' = [waitersByKey EXCEPT ![asked.id[1]] = Append(@, o)],
           asked.target \in {None, activeRunsByKey[asked.id[1]]},
           asked.drains => asked.target # None,
           asked.drains => operation'[asked.target].phase = "settled",
           UNCHANGED <<activeRunsByKey, activeSessionIdsByKey,
                       activeKeysBySessionId, waitKeysBySessionId,
                       admission, run, woken>>,
           operation' = [t \in Turns |-> operation'[t]],
           \A t \in Turns : Ends(t, {})
    PROVE  IInv'
<1>1. Types /\ QueuesInv /\ HoldersInv /\ KeysOfIdsInv /\ NobodyWaitsInVain
  BY DEF IInv
<1>. DEFINE key == asked.id[1]
<1>2. key \in Keys /\ activeRunsByKey[key] # None
  BY DEF Observer, SessionIds, IsIdle
<1>3. \A k \in Keys : o \notin Waiting(k) \cup Due(k)
  BY IdleObserverIsNowhere
<1>4. WaitersAre([k \in Keys |-> IF k = key THEN Waiting(k) \cup {o}
                                 ELSE Waiting(k)])
  <2>1. o \in (Turns \cup Observers) \ Waiting(key)
    BY <1>2, <1>3
  <2> QED
    BY <1>1, <1>2, <2>1, WaiterJoins
<1>5. DueAre([k \in Keys |-> Due(k)])
  BY <1>1, QueuesUnchanged
<1>6. \A k \in Keys :
         /\ Waiting(k)' = IF k = key THEN Waiting(k) \cup {o} ELSE Waiting(k)
         /\ Due(k)' = Due(k)
  BY <1>4, <1>5 DEF WaitersAre, DueAre
<1>7. observer'[o] = asked
      /\ \A p \in Observers \ {o} : observer'[p] = observer[p]
  BY <1>1 DEF Types
<1>8. turn' = turn /\ activeOperation' = activeOperation
      /\ rotating' = rotating /\ work' = work
  BY DEF admission, run
<1>. HIDE DEF key
<1>9. Types'
  <2>1. operation' \in [Turns -> Operation \cup {NoOperation}]
    <3>1. \A u \in Turns : operation'[u] \in Operation \cup {NoOperation}
      BY <1>1 DEF Types, Ends
    <3> QED
      BY <3>1
  <2>2. observer' \in [Observers -> Observer \cup {NotYet}]
    BY <1>1 DEF Types
  <2>3. /\ waitersByKey' \in [Keys -> Seq(Turns \cup Observers)]
        /\ woken' \in [Keys -> Seq(Turns \cup Observers)]
    BY <1>4, <1>5 DEF WaitersAre, DueAre
  <2> QED
    BY <1>1, <2>1, <2>2, <2>3 DEF Types, admission, run
<1>10. QueuesInv'
  <2>1. \A k \in Keys : (IF k = key THEN Waiting(k) \cup {o} ELSE Waiting(k))
                        \cap Due(k) = {}
    BY <1>1, <1>3 DEF QueuesInv
  <2> QED
    BY <1>4, <1>5, <2>1, QueuesStayApart
<1>11. \A u \in Turns : operation'[u].stateCleared = operation[u].stateCleared
  BY DEF Ends
<1>12. HoldersInv' /\ KeysOfIdsInv'
  BY <1>1, <1>11, HoldersStay DEF KeysOfIdsInv
<1>13. ASSUME NEW u \in Turns PROVE Advances(u) /\ KeepsIds(u) /\ Stays(u)
  <2>1. Advances(u) /\ KeepsIds(u)
    BY <1>8 DEF Ends, Advances, KeepsIds, Owns
  <2>2. u # o
    BY ObserversAssumption
  <2>3. \A k \in Keys : u \in Waiting(k)' \cup Due(k)'
                        => u \in Waiting(k) \cup Due(k)
    BY <1>6, <2>2
  <2> QED
    BY <1>8, <2>1, <2>3 DEF Ends, Stays
<1>14. ASSUME NEW u \in Turns
       PROVE  TurnInv(u)' /\ IdsInv(u)' /\ PhaseInv(u)'
  <2>1. TurnInv(u) /\ IdsInv(u)
    BY DEF IInv
  <2>2. TurnInv(u)'
    BY <1>1, <1>13, <2>1, TurnStays
  <2>3. IdsInv(u)'
    BY <1>13, <2>1, IdsStay
  <2> QED
    BY <2>2, <2>3 DEF Ends
<1>15. ASSUME NEW p \in Observers PROVE ObserverInv(p)'
  <2>1. ObserverInv(p)
    BY DEF IInv
  <2>2. CASE p # o
    <3>1. Remains(p)
      BY <1>6, <1>7, <2>2 DEF Remains
    <3> QED
      BY <1>1, <1>13, <2>1, <3>1, ObserverRemains
  <2>3. CASE p = o
    <3>1. \A k \in Keys : o \in Waiting(k)' \cup Due(k)' <=> k = key
      BY <1>3, <1>6
    <3>2. \A k \in Keys : o \notin Due(k)'
      BY <1>3, <1>6
    <3>3. asked.target # None
          => /\ turn'[asked.target] = "owned"
             /\ KeyOf[asked.target] = key
             /\ asked.drains => operation'[asked.target].phase = "settled"
      BY <1>2, <1>8, HolderOwns DEF Owns, key
    <3>4. o \in Range(waitersByKey'[asked.id[1]])
      <4>1. PICK k \in Keys : k = key
        BY <1>2
      <4>2. o \in Waiting(k)'
        BY <1>6, <4>1
      <4> QED
        BY <4>1, <4>2 DEF Waiting, key
    <3> QED
      BY <1>7, <2>3, <3>1, <3>2, <3>3, <3>4
         DEF ObserverInv, Owns, key, Waiting, Due
  <2> QED
    BY <2>2, <2>3
<1>16. NobodyWaitsInVain'
  <2>1. ASSUME NEW k \in Keys, NEW w \in Waiting(k)'
        PROVE  /\ activeRunsByKey'[k] # None
               /\ w \in Turns => activeOperation'[w] = activeRunsByKey'[k]
               /\ w \in Observers /\ observer'[w].target # None
                  => observer'[w].target = activeRunsByKey'[k]
    <3>1. CASE w = o /\ k = key
      BY <1>2, <1>7, <3>1, ObserversAssumption DEF key
    <3>2. CASE w \in Waiting(k)
      <4>1. w # o
        BY <1>3, <3>2
      <4> QED
        BY <1>1, <1>7, <1>8, <3>2, <4>1
           DEF NobodyWaitsInVain, Waiting, IsIdle
    <3> QED
      BY <1>6, <2>1, <3>1, <3>2
  <2> QED
    BY <2>1 DEF NobodyWaitsInVain, Waiting, IsIdle
<1> QED
  BY <1>9, <1>10, <1>12, <1>14, <1>15, <1>16 DEF IInv

\* An observer is answered: it is in no queue any more.
LEMMA AnsweringKeepsIInv ==
    ASSUME IInv, NEW o \in Observers,
           UNCHANGED <<registry, operation, admission, run>>,
           \A k \in Keys : o \notin Waiting(k),
           DueAre([k \in Keys |-> Due(k) \ {o}]),
           NEW answered \in Observer,
           answered.stage = "ended",
           observer' = [observer EXCEPT ![o] = answered],
           answered.drains => answered.target # None,
           answered.target # None
           => /\ Owns(answered.target)
              /\ KeyOf[answered.target] = answered.id[1]
              /\ operation[answered.target].stateCleared
    PROVE  IInv'
<1>1. Types /\ QueuesInv /\ HoldersInv /\ KeysOfIdsInv /\ NobodyWaitsInVain
  BY DEF IInv
<1>2. WaitersAre([k \in Keys |-> Waiting(k)])
  BY <1>1, QueuesUnchanged DEF registry
<1>3. \A k \in Keys : Waiting(k)' = Waiting(k) /\ Due(k)' = Due(k) \ {o}
  BY <1>2 DEF WaitersAre, DueAre
<1>4. observer'[o] = answered
      /\ \A p \in Observers \ {o} : observer'[p] = observer[p]
  BY <1>1 DEF Types
<1>5. turn' = turn /\ activeOperation' = activeOperation
      /\ rotating' = rotating /\ work' = work /\ operation' = operation
      /\ waitKeysBySessionId' = waitKeysBySessionId
      /\ activeRunsByKey' = activeRunsByKey
  BY DEF admission, run, registry
<1>6. Types'
  <2>1. observer' \in [Observers -> Observer \cup {NotYet}]
    BY <1>1 DEF Types
  <2> QED
    BY <1>1, <1>2, <2>1
       DEF Types, admission, run, registry, WaitersAre, DueAre
<1>7. QueuesInv'
  BY <1>1, <1>2, QueuesStayApart DEF QueuesInv
<1>8. HoldersInv' /\ KeysOfIdsInv'
  BY <1>1, <1>5 DEF HoldersInv, KeysOfIdsInv, registry
<1>9. ASSUME NEW u \in Turns PROVE Advances(u) /\ KeepsIds(u) /\ Stays(u)
  <2>1. Owns(u) => operation[u] \in Operation
    BY DEF IInv, TurnInv
  <2> QED
    BY <1>3, <1>5, <2>1 DEF Advances, KeepsIds, Stays, Owns
<1>10. ASSUME NEW u \in Turns
       PROVE  TurnInv(u)' /\ IdsInv(u)' /\ PhaseInv(u)'
  <2>1. TurnInv(u) /\ IdsInv(u) /\ PhaseInv(u)
    BY DEF IInv
  <2>2. TurnInv(u)'
    BY <1>1, <1>9, <2>1, TurnStays
  <2>3. IdsInv(u)'
    BY <1>5, <1>9, <2>1, IdsStay
  <2>4. PhaseInv(u)'
    BY <1>5, <2>1 DEF PhaseInv, Owns
  <2> QED
    BY <2>2, <2>3, <2>4
<1>11. ASSUME NEW p \in Observers PROVE ObserverInv(p)'
  <2>1. ObserverInv(p)
    BY DEF IInv
  <2>2. CASE p # o
    <3>1. Remains(p)
      BY <1>3, <1>4, <2>2 DEF Remains
    <3> QED
      BY <1>1, <1>9, <2>1, <3>1, ObserverRemains
  <2>3. CASE p = o
    <3>1. \A k \in Keys : o \notin Waiting(k)' \cup Due(k)'
      BY <1>3
    <3>2. answered.target \in Turns \cup {None}
      BY DEF Observer
    <3>3. answered.target # None
          => operation[answered.target].phase = "settled"
      BY <3>2 DEF IInv, PhaseInv
    <3> QED
      BY <1>4, <1>5, <2>3, <3>1, <3>3 DEF ObserverInv, Owns
  <2> QED
    BY <2>2, <2>3
<1>12. ASSUME NEW k \in Keys PROVE WaitsOn(k)
  BY <1>3, <1>4, <1>5 DEF WaitsOn
<1>13. NobodyWaitsInVain'
  BY <1>1, <1>12, StillNobodyWaitsInVain
<1> QED
  BY <1>6, <1>7, <1>8, <1>10, <1>11, <1>13 DEF IInv

\* The operation behind an id is found by it.
LEMMA HolderIsFound ==
    ASSUME IInv, NEW id \in SessionIds
    PROVE  /\ ResolveReplyRunWaitKey(id) \in {None, id[1]}
           /\ Holder(id) \in Turns \cup {None}
           /\ Holder(id) # None
              => /\ ResolveReplyRunWaitKey(id) = id[1]
                 /\ activeRunsByKey[id[1]] = Holder(id)
<1>1. KeysOfIdsInv
  BY DEF IInv
<1>2. ResolveReplyRunWaitKey(id) \in {None, id[1]}
  BY <1>1 DEF KeysOfIdsInv, ResolveReplyRunWaitKey
<1>3. CASE Holder(id) # None
  <2>1. PICK t \in Turns : /\ t = Holder(id)
                           /\ ~operation[t].stateCleared
                           /\ id \in operation[t].held
    BY <1>3 DEF Holder
  <2>2. TurnInv(t) /\ IdsInv(t)
    BY DEF IInv
  <2>3. Owns(t)
    BY <2>1, <2>2 DEF TurnInv, NoOperation
  <2>4. id[1] = KeyOf[t] /\ waitKeysBySessionId[id] = KeyOf[t]
    BY <2>1, <2>2, <2>3 DEF IdsInv
  <2>5. activeRunsByKey[KeyOf[t]] = t
    BY <2>1 DEF IInv, HoldersInv
  <2>6. id[1] # None
    BY <2>4, KeysAssumption
  <2> QED
    BY <1>1, <1>2, <2>1, <2>4, <2>5, <2>6
       DEF KeysOfIdsInv, ResolveReplyRunWaitKey
<1>4. CASE Holder(id) = None
  BY <1>2, <1>4
<1> QED
  BY <1>3, <1>4

LEMMA ObserverWaitsKeepsIInv ==
    ASSUME IInv, NEW o \in Observers, ObserverWaits(o)
    PROVE  IInv'
<1>1. Types /\ QueuesInv
  BY DEF IInv
<1>2. PICK id \in SessionIds : WaitForReplyRunEnd(o, id)
  BY DEF ObserverWaits, SessionIds
<1>. DEFINE key == ResolveReplyRunWaitKey(id)
            waits == key # None /\ ~IsIdle(key)
            asked == [stage |-> IF waits THEN "waiting" ELSE "ended",
                      drains |-> FALSE, id |-> id, target |-> Holder(id)]
<1>3. /\ observer' = [observer EXCEPT ![o] = asked]
      /\ IF waits
         THEN waitersByKey' = [waitersByKey EXCEPT ![key] = Append(@, o)]
         ELSE UNCHANGED waitersByKey
  BY <1>2 DEF WaitForReplyRunEnd
<1>4. asked \in Observer
  BY HolderIsFound DEF Observer
<1>5. asked.id = id /\ ~asked.drains /\ asked.target = Holder(id)
      /\ asked.stage = IF waits THEN "waiting" ELSE "ended"
  OBVIOUS
<1>. HIDE DEF asked
<1>6. UNCHANGED <<activeRunsByKey, activeSessionIdsByKey, activeKeysBySessionId,
                  waitKeysBySessionId, operation, admission, run, woken>>
      /\ observer[o].stage = "idle"
  BY DEF ObserverWaits
<1>7. CASE waits
  <2>1. key = id[1]
    BY <1>7, HolderIsFound
  <2>2. asked.target \in {None, activeRunsByKey[id[1]]}
    BY <1>5, HolderIsFound
  <2>3. operation' = [t \in Turns |-> operation'[t]]
    BY <1>1, <1>6 DEF Types
  <2>4. \A t \in Turns : Ends(t, {})
    BY <1>6, OthersEndNot DEF admission, run
  <2>. HIDE DEF key
  <2>5. waitersByKey' = [waitersByKey EXCEPT ![asked.id[1]] = Append(@, o)]
        /\ ~IsIdle(asked.id[1]) /\ asked.stage = "waiting"
    BY <1>3, <1>5, <1>7, <2>1
  <2> QED
    BY <1>3, <1>4, <1>5, <1>6, <2>2, <2>3, <2>4, <2>5, JoiningKeepsIInv
<1>8. CASE ~waits
  <2>1. asked.target = None
    <3>1. CASE Holder(id) # None
      <4>1. key = id[1] /\ activeRunsByKey[id[1]] = Holder(id)
            /\ id[1] \in Keys
        BY <3>1, HolderIsFound DEF SessionIds
      <4> QED
        BY <1>8, <3>1, <4>1, KeysAssumption DEF IsIdle
    <3> QED
      BY <1>5, <3>1
  <2>2. \A k \in Keys : o \notin Waiting(k) \cup Due(k)
    BY <1>6, IdleObserverIsNowhere
  <2>3. DueAre([k \in Keys |-> Due(k) \ {o}])
    <3>1. DueAre([k \in Keys |-> Due(k)])
      BY <1>1, <1>6, QueuesUnchanged
    <3> QED
      BY <2>2, <3>1 DEF DueAre
  <2>4. UNCHANGED <<registry, operation, admission, run>>
    BY <1>3, <1>6, <1>8 DEF registry
  <2>5. asked.stage = "ended"
    BY <1>5, <1>8
  <2> QED
    BY <1>3, <1>4, <1>5, <2>1, <2>2, <2>3, <2>4, <2>5, AnsweringKeepsIInv
<1> QED
  BY <1>7, <1>8

LEMMA ObserverDrainsKeepsIInv ==
    ASSUME IInv, NEW o \in Observers, ObserverDrains(o)
    PROVE  IInv'
<1>1. Types
  BY DEF IInv
<1>2. PICK id \in SessionIds :
          LET t == ResolveReplyRun(id)
          IN  /\ t # None
              /\ operation' = Aborted({t})
              /\ IF operation[t].phase = "queued"
                 THEN /\ observer' = [observer EXCEPT ![o] =
                            [stage |-> "ended", drains |-> TRUE, id |-> id,
                             target |-> t]]
                      /\ ClearState({t})
                 ELSE /\ observer' = [observer EXCEPT ![o] =
                            [stage |-> "waiting", drains |-> TRUE, id |-> id,
                             target |-> t]]
                      /\ waitersByKey' =
                            [waitersByKey EXCEPT ![KeyOf[t]] = Append(@, o)]
                      /\ UNCHANGED <<activeRunsByKey, activeSessionIdsByKey,
                                     activeKeysBySessionId,
                                     waitKeysBySessionId, woken>>
  BY DEF ObserverDrains
<1>3. PICK t \in Turns :
          /\ t = ResolveReplyRun(id) /\ t = activeRunsByKey[id[1]]
          /\ Owns(t) /\ KeyOf[t] = id[1] /\ ~operation[t].stateCleared
          /\ id[1] \in Keys /\ t # None
  BY <1>2, ResolvedHolds, HolderOwns
<1>4. UNCHANGED <<admission, run>> /\ observer[o].stage = "idle"
      /\ turn' = turn /\ work' = work
  BY DEF ObserverDrains, admission, run
<1>5. operation' = Aborted({t})
  BY <1>2, <1>3
<1>6. /\ \A u \in Turns : Ends(u, NotBegun({t}))
      /\ operation' = [u \in Turns |-> operation'[u]]
  BY <1>3, <1>4, <1>5, AbortedEnds
<1>7. \A k \in Keys : o \notin Waiting(k) \cup Due(k)
  BY <1>4, IdleObserverIsNowhere
<1>8. CASE operation[t].phase = "queued"
  <2>. DEFINE asked == [stage |-> "ended", drains |-> TRUE, id |-> id,
                        target |-> t]
  <2>1. observer' = [observer EXCEPT ![o] = asked] /\ ClearState({t})
    BY <1>2, <1>3, <1>8
  <2>2. asked \in Observer
    BY DEF Observer
  <2>3. asked.stage = "ended" /\ asked.id = id /\ asked.target = t
    OBVIOUS
  <2>. HIDE DEF asked
  <2>4. NotBegun({t}) = {t}
    BY <1>8 DEF NotBegun
  <2>5. /\ observer'[o] = asked
        /\ \A p \in Observers \ {o} : observer'[p] = observer[p]
        /\ observer' = [p \in Observers |-> observer'[p]]
    BY <1>1, <2>1 DEF Types
  <2>6. IsOver(o, {t}, None)
    BY <1>3, <1>7, <2>2, <2>3, <2>5 DEF IsOver
  <2>7. \A p \in Observers : \/ observer'[p] = observer[p] /\ p # None
                             \/ IsOver(p, {t}, None)
    BY <2>5, <2>6, ObserversAssumption
  <2>8. work' \in [Turns -> {"none", "admitted", "compacting", "running",
                             "done"}]
        /\ UNCHANGED <<admission, storedSession, rotating>>
        /\ ClearStateAfter({t}, None)
    BY <1>1, <1>4, <2>1 DEF Types, run, ClearState
  <2>9. /\ \A u \in Turns : Ends(u, {t})
        /\ {t} \in SUBSET Turns
    BY <1>6, <2>4
  <2> QED
    BY <1>6, <2>5, <2>7, <2>8, <2>9, EndingKeepsIInv
<1>9. CASE operation[t].phase # "queued"
  <2>. DEFINE asked == [stage |-> "waiting", drains |-> TRUE, id |-> id,
                        target |-> t]
  <2>1. /\ observer' = [observer EXCEPT ![o] = asked]
        /\ waitersByKey' = [waitersByKey EXCEPT ![KeyOf[t]] = Append(@, o)]
        /\ UNCHANGED <<activeRunsByKey, activeSessionIdsByKey,
                       activeKeysBySessionId, waitKeysBySessionId, woken>>
    BY <1>2, <1>3, <1>9
  <2>2. asked \in Observer
    BY DEF Observer
  <2>3. asked.stage = "waiting" /\ asked.id = id /\ asked.target = t
    OBVIOUS
  <2>. HIDE DEF asked
  <2>4. NotBegun({t}) = {}
    BY <1>9 DEF NotBegun
  <2>5. operation'[t].phase = "settled"
    <3>1. TurnInv(t)
      BY DEF IInv
    <3>2. operation[t] \in Operation
      BY <1>3, <3>1 DEF TurnInv
    <3> QED
      BY <1>5, <1>9, <3>2 DEF Aborted, Operation
  <2>6. ~IsIdle(asked.id[1]) /\ asked.target = activeRunsByKey[asked.id[1]]
        /\ asked.target # None
        /\ waitersByKey' = [waitersByKey EXCEPT ![asked.id[1]] = Append(@, o)]
    BY <1>3, <2>1, <2>3 DEF IsIdle
  <2>7. \A u \in Turns : Ends(u, {})
    BY <1>6, <2>4
  <2>8. asked.drains => operation'[asked.target].phase = "settled"
    BY <2>3, <2>5
  <2>9. UNCHANGED <<activeRunsByKey, activeSessionIdsByKey,
                    activeKeysBySessionId, waitKeysBySessionId,
                    admission, run, woken>>
    BY <1>4, <2>1
  <2>10. asked.target \in {None, activeRunsByKey[asked.id[1]]}
    BY <2>6
  <2> QED
    BY <1>4, <1>6, <2>1, <2>2, <2>3, <2>6, <2>7, <2>8, <2>9, <2>10,
       JoiningKeepsIInv
<1> QED
  BY <1>8, <1>9

LEMMA ObserverIsToldKeepsIInv ==
    ASSUME IInv, NEW o \in Observers, ObserverIsTold(o)
    PROVE  IInv'
<1>1. Types /\ QueuesInv /\ ObserverInv(o)
  BY DEF IInv
<1>2. PICK key \in Keys : IsNext(key, o) /\ GoesOn(key)
  BY DEF ObserverIsTold
<1>3. /\ o \in Due(key)
      /\ DueAre([k \in Keys |-> IF k = key THEN Due(k) \ {o} ELSE Due(k)])
  BY <1>1, <1>2, NextGoesOn
<1>4. observer[o].stage = "waiting" /\ observer[o].id[1] = key
      /\ \A k \in Keys : o \in Waiting(k) \cup Due(k) => k = key
  BY <1>1, <1>3 DEF ObserverInv
<1>5. \A k \in Keys : o \notin Waiting(k)
  BY <1>1, <1>3, <1>4 DEF QueuesInv
<1>6. DueAre([k \in Keys |-> Due(k) \ {o}])
  BY <1>3, <1>4 DEF DueAre
<1>7. observer[o] \in Observer
  BY <1>1, <1>4 DEF Types, NotYet
<1>. DEFINE answered == [observer[o] EXCEPT !.stage = "ended"]
<1>8. /\ answered \in Observer
      /\ answered.stage = "ended"
      /\ answered.drains = observer[o].drains
      /\ answered.target = observer[o].target
      /\ answered.id = observer[o].id
  BY <1>7 DEF Observer
<1>9. observer' = [observer EXCEPT ![o] = answered]
  BY <1>1 DEF ObserverIsTold, Types
<1>. HIDE DEF answered
<1>10. answered.drains => answered.target # None
  BY <1>1, <1>4, <1>8 DEF ObserverInv
<1>11. answered.target # None
       => /\ Owns(answered.target)
          /\ KeyOf[answered.target] = answered.id[1]
          /\ operation[answered.target].stateCleared
  BY <1>1, <1>3, <1>4, <1>8 DEF ObserverInv
<1> QED
  BY <1>5, <1>6, <1>8, <1>9, <1>10, <1>11, AnsweringKeepsIInv
     DEF ObserverIsTold

\* Who clears a session by force finds the operation it has aborted.
LEMMA ForcedIsTheTarget ==
    ASSUME IInv, NEW o \in Observers, NothingIsDue,
           observer[o].stage = "waiting", observer[o].drains,
           ResolveReplyRun(observer[o].id) # None
    PROVE  /\ observer[o] \in Observer
           /\ observer[o].target = ResolveReplyRun(observer[o].id)
           /\ observer[o].target \in Turns
           /\ Owns(observer[o].target)
           /\ KeyOf[observer[o].target] = observer[o].id[1]
           /\ ~operation[observer[o].target].stateCleared
           /\ operation[observer[o].target].phase = "settled"
<1>1. Types /\ ObserverInv(o) /\ NobodyWaitsInVain
  BY DEF IInv
<1>2. observer[o] \in Observer
  BY <1>1 DEF Types, NotYet
<1>3. PICK id \in SessionIds : id = observer[o].id
  BY <1>2 DEF Observer
<1>4. id[1] \in Keys /\ ResolveReplyRun(id) = activeRunsByKey[id[1]]
  BY <1>3, ResolvedHolds
<1>5. o \in Waiting(id[1]) \cup Due(id[1])
  BY <1>1, <1>3 DEF ObserverInv
<1>6. o \in Waiting(id[1])
  BY <1>4, <1>5, NothingIsInDue
<1>7. observer[o].target # None
  BY <1>1 DEF ObserverInv
<1>8. observer[o].target = activeRunsByKey[id[1]]
  BY <1>1, <1>4, <1>6, <1>7 DEF NobodyWaitsInVain, Waiting
<1>9. /\ activeRunsByKey[id[1]] \in Turns
      /\ Owns(activeRunsByKey[id[1]])
      /\ KeyOf[activeRunsByKey[id[1]]] = id[1]
      /\ ~operation[activeRunsByKey[id[1]]].stateCleared
  BY <1>4, <1>7, <1>8, HolderOwns
<1>10. operation[observer[o].target].phase = "settled"
  BY <1>1, <1>7 DEF ObserverInv
<1> QED
  BY <1>2, <1>3, <1>4, <1>8, <1>9, <1>10

LEMMA ObserverTimesOutKeepsIInv ==
    ASSUME IInv, NEW o \in Observers, ObserverTimesOut(o)
    PROVE  IInv'
<1>1. Types /\ ObserverInv(o)
  BY DEF IInv
<1>2. /\ NothingIsDue /\ observer[o].stage = "waiting"
      /\ UNCHANGED <<admission, run>>
      /\ observer' = [observer EXCEPT ![o].stage = "timedOut"]
  BY DEF ObserverTimesOut
<1>3. observer[o] \in Observer
  BY <1>1, <1>2 DEF Types, NotYet
<1>4. /\ observer'[o] = [observer[o] EXCEPT !.stage = "timedOut"]
      /\ \A p \in Observers \ {o} : observer'[p] = observer[p]
      /\ observer' = [p \in Observers |-> observer'[p]]
  BY <1>1, <1>2 DEF Types
<1>5. /\ observer'[o] \in Observer
      /\ observer'[o].stage = "timedOut"
      /\ observer'[o].target = observer[o].target
      /\ observer'[o].id = observer[o].id
  BY <1>3, <1>4 DEF Observer
<1>6. \A k \in Keys : o \notin Due(k)
  BY <1>2, NothingIsInDue
<1>7. turn' = turn /\ work' = work /\ kind' = kind /\ upstream' = upstream
      /\ activeOperation' = activeOperation
  BY <1>2 DEF admission, run
<1>8. CASE observer[o].drains /\ ResolveReplyRun(observer[o].id) # None
  <2>1. PICK t \in Turns :
            /\ t = ResolveReplyRun(observer[o].id) /\ t = observer[o].target
            /\ Owns(t) /\ KeyOf[t] = observer[o].id[1]
            /\ ~operation[t].stateCleared /\ operation[t].phase = "settled"
    BY <1>2, <1>8, ForcedIsTheTarget
  <2>2. operation' = Settled(t) /\ ClearStateAfter({t}, o)
    BY <1>8, <2>1, KeysAssumption DEF ObserverTimesOut
  <2>3. TurnInv(t) /\ PhaseInv(t)
    BY DEF IInv
  <2>4. Ends(t, {t})
    BY <1>7, <2>1, <2>2, <2>3, SettledSettles DEF Ends, PhaseInv, Owns
  <2>5. \A u \in Turns \ {t} : Ends(u, {t})
    BY <1>7, <2>1, <2>2, SettledSettles, OthersEndNot
  <2>6. operation' = [u \in Turns |-> operation'[u]]
    BY <2>1, <2>2, SettledSettles
  <2>7. IsOver(o, {t}, o)
    <3>1. \A k \in Keys : o \in Waiting(k) => k = observer[o].id[1]
      BY <1>1 DEF ObserverInv
    <3>2. KeyOf[t] \in Freed({t})
      BY <2>1 DEF Freed, Uncleared
    <3> QED
      BY <1>5, <1>6, <2>1, <3>1, <3>2 DEF IsOver
  <2>8. \A p \in Observers : \/ observer'[p] = observer[p] /\ p # o
                             \/ IsOver(p, {t}, o)
    BY <1>4, <2>7
  <2>9. work' \in [Turns -> {"none", "admitted", "compacting", "running",
                             "done"}]
        /\ UNCHANGED <<admission, storedSession, rotating>>
    BY <1>1, <1>2, <1>7 DEF Types, run
  <2> QED
    BY <1>4, <2>2, <2>4, <2>5, <2>6, <2>8, <2>9, EndingKeepsIInv
<1>9. CASE ~(observer[o].drains /\ ResolveReplyRun(observer[o].id) # None)
  <2>1. /\ StopsWaiting(o)
        /\ UNCHANGED <<activeRunsByKey, activeSessionIdsByKey,
                       activeKeysBySessionId, waitKeysBySessionId, operation,
                       woken>>
    BY <1>9 DEF ObserverTimesOut
  <2>2. /\ turn' \in [Turns -> {"new", "waiting", "owned", "skipped"}]
        /\ activeOperation' \in [Turns -> Turns \cup {None}]
        /\ upstream' \subseteq Turns
    BY <1>1, <1>7 DEF Types
  <2>3. observer' \in [Observers -> Observer \cup {NotYet}]
    BY <1>1, <1>2, <1>5, <1>4 DEF Types
  <2>4. \A p \in Observers :
           \/ /\ observer'[p] = observer[p]
              /\ p # o
           \/ /\ p = o
              /\ observer[p].stage = "waiting"
              /\ observer'[p] = [observer[p] EXCEPT !.stage = "timedOut"]
    BY <1>2, <1>4
  <2> QED
    BY <1>2, <1>6, <1>7, <2>1, <2>2, <2>3, <2>4, LeavingKeepsIInv
<1> QED
  BY <1>8, <1>9

-----------------------------------------------------------------------------
(***************************************************************************)
(* Every step.                                                             *)
(***************************************************************************)
LEMMA NextKeepsIInv == IInv /\ [Next]_vars => IInv'
<1>. SUFFICES ASSUME IInv, [Next]_vars PROVE IInv'
  OBVIOUS
<1>1. CASE UNCHANGED vars
  BY <1>1 DEF IInv, Types, QueuesInv, HoldersInv, KeysOfIdsInv, TurnInv, IdsInv,
              PhaseInv, ObserverInv, NobodyWaitsInVain, IsIdle, Waiting, Due,
              Owns, IdOf, vars, registry, admission, run
<1>2. ASSUME NEW t \in Turns, AdmitReplyTurn(t) PROVE IInv'
  BY <1>2, AdmitReplyTurnKeepsIInv
<1>3. ASSUME NEW t \in Turns, TurnGoesOn(t) PROVE IInv'
  BY <1>3, TurnGoesOnKeepsIInv
<1>4. ASSUME NEW t \in Turns, WaitTimesOut(t) PROVE IInv'
  BY <1>4, WaitTimesOutKeepsIInv
<1>5. ASSUME NEW t \in Turns, UpstreamAborts(t) PROVE IInv'
  BY <1>5, UpstreamAbortsKeepsIInv
<1>6. ASSUME NEW t \in Turns, CompactionBegins(t) PROVE IInv'
  BY <1>6, CompactionBeginsKeepsIInv
<1>7. ASSUME NEW t \in Turns, SessionRotates(t) \/ SessionIsReset(t) PROVE IInv'
  BY <1>7, RotationKeepsIInv
<1>8. ASSUME NEW t \in Turns, RunFollowsRotation(t) PROVE IInv'
  BY <1>8, RunFollowsRotationKeepsIInv
<1>9. ASSUME NEW t \in Turns, RunBegins(t) PROVE IInv'
  BY <1>9, RunBeginsKeepsIInv
<1>10. ASSUME NEW t \in Turns, AttachBackend(t) PROVE IInv'
  BY <1>10, AttachBackendKeepsIInv
<1>11. ASSUME NEW t \in Turns, DetachBackend(t) PROVE IInv'
  BY <1>11, DetachBackendKeepsIInv
<1>12. ASSUME NEW t \in Turns, TurnEnds(t) PROVE IInv'
  BY <1>12, TurnEndsKeepsIInv
<1>13. ASSUME NEW k \in Keys, UserAborts(k) PROVE IInv'
  BY <1>13, UserAbortsKeepsIInv
<1>14. CASE RestartAborts
  BY <1>14, RestartAbortsKeepsIInv
<1>15. ASSUME NEW o \in Observers, ObserverWaits(o) PROVE IInv'
  BY <1>15, ObserverWaitsKeepsIInv
<1>16. ASSUME NEW o \in Observers, ObserverDrains(o) PROVE IInv'
  BY <1>16, ObserverDrainsKeepsIInv
<1>17. ASSUME NEW o \in Observers, ObserverIsTold(o) PROVE IInv'
  BY <1>17, ObserverIsToldKeepsIInv
<1>18. ASSUME NEW o \in Observers, ObserverTimesOut(o) PROVE IInv'
  BY <1>18, ObserverTimesOutKeepsIInv
<1> QED
  BY <1>1, <1>2, <1>3, <1>4, <1>5, <1>6, <1>7, <1>8, <1>9, <1>10, <1>11, <1>12,
     <1>13, <1>14, <1>15, <1>16, <1>17, <1>18 DEF Next

LEMMA IInvHolds == Spec => []IInv
BY InitIsFine, NextKeepsIInv, PTL DEF Spec

-----------------------------------------------------------------------------
(***************************************************************************)
(* What the invariant is for.                                              *)
(***************************************************************************)

\* Every variable has its type; a waiter is in one queue, once, while it waits.
THEOREM TypeCorrect == Spec => []TypeOK
<1>1. IInv => TypeOK
  <2>. SUFFICES ASSUME IInv PROVE TypeOK
    OBVIOUS
  <2>1. Types /\ QueuesInv
    BY DEF IInv
  <2>2. ASSUME NEW k \in Keys, NEW w \in Range(waitersByKey[k])
        PROVE  IF w \in Turns THEN turn[w] = "waiting" /\ KeyOf[w] = k
               ELSE observer[w].stage = "waiting"
    <3>1. w \in Turns \cup Observers
      BY <2>1 DEF Types, Range
    <3>2. CASE w \in Turns
      BY <3>2 DEF IInv, TurnInv, Waiting
    <3>3. CASE w \in Observers \ Turns
      BY <3>3 DEF IInv, ObserverInv, Waiting
    <3> QED
      BY <3>1, <3>2, <3>3
  <2> QED
    BY <2>1, <2>2 DEF TypeOK, Types, QueuesInv
<1> QED
  BY IInvHolds, <1>1, PTL

\* A session with waiters is held, and they wait for the run that holds it.
THEOREM WaitsAreNeverInVain == Spec => []NobodyWaitsInVain
<1>1. IInv => NobodyWaitsInVain
  BY DEF IInv
<1> QED
  BY IInvHolds, <1>1, PTL

\* A session has at most one backend that nobody has told to stop: a live one
\* belongs to an operation without a result, which holds the session's key.
THEOREM BackendsWorkAlone == Spec => []OneLiveBackend
<1>1. IInv => OneLiveBackend
  <2>. SUFFICES ASSUME IInv, NEW k \in Keys
                PROVE  Cardinality({ t \in Turns :
                          /\ KeyOf[t] = k
                          /\ operation[t].backend = "live" }) =< 1
    BY DEF OneLiveBackend
  <2>. DEFINE live == { t \in Turns : /\ KeyOf[t] = k
                                      /\ operation[t].backend = "live" }
  <2>1. ASSUME NEW t \in live PROVE activeRunsByKey[k] = t
    <3>1. HoldersInv /\ TurnInv(t) /\ PhaseInv(t)
      BY DEF IInv
    <3>2. Owns(t)
      BY <3>1 DEF TurnInv, NoOperation
    <3>3. ~operation[t].stateCleared
      BY <3>1, <3>2 DEF PhaseInv
    <3> QED
      BY <3>1, <3>3 DEF HoldersInv
  <2>2. live \subseteq {activeRunsByKey[k]}
    BY <2>1
  <2>3. /\ IsFiniteSet({activeRunsByKey[k]})
        /\ Cardinality({activeRunsByKey[k]}) = 1
    BY FS_Singleton
  <2>4. Cardinality(live) =< Cardinality({activeRunsByKey[k]})
    BY <2>2, <2>3, FS_Subset
  <2> QED
    BY <2>3, <2>4
<1> QED
  BY IInvHolds, <1>1, PTL

\* Who is told that a run is over is told the truth, whatever session ids the
\* run has had.
THEOREM EndsAreReal == Spec => []WaitsOutlastRotation
<1>1. IInv => WaitsOutlastRotation
  BY DEF IInv, ObserverInv, WaitsOutlastRotation
<1> QED
  BY IInvHolds, <1>1, PTL

\* Only its own timeout makes an observer give up, and what it then clears by
\* force is the operation it asked about.
THEOREM ForceClearHitsItsTarget == Spec => ForceClearSparesSuccessors
<1>. DEFINE Spares == \A o \in Observers :
                observer[o].stage = "waiting" /\ observer'[o].stage = "timedOut"
                => \A t \in Turns :
                      operation'[t].stateCleared # operation[t].stateCleared
                      => t = observer[o].target
<1>1. IInv /\ [Next]_vars => [Spares]_vars
  <2>. SUFFICES ASSUME IInv, Next, NEW o \in Observers,
                       observer[o].stage = "waiting",
                       observer'[o].stage = "timedOut",
                       NEW t \in Turns,
                       operation'[t].stateCleared # operation[t].stateCleared
                PROVE  t = observer[o].target
    OBVIOUS
  <2>1. Types
    BY DEF IInv
  <2>2. observer' # observer
    OBVIOUS
  <2>3. ~ \E u \in Turns :
            \/ AdmitReplyTurn(u)   \/ TurnGoesOn(u)     \/ WaitTimesOut(u)
            \/ UpstreamAborts(u)   \/ CompactionBegins(u)
            \/ SessionRotates(u)   \/ RunFollowsRotation(u)
            \/ RunBegins(u)        \/ AttachBackend(u)  \/ DetachBackend(u)
            \/ SessionIsReset(u)   \/ TurnEnds(u)
    BY <2>2 DEF AdmitReplyTurn, TurnGoesOn, TryToAdmit, WaitTimesOut,
                UpstreamAborts, CompactionBegins, SessionRotates,
                RunFollowsRotation, RunBegins, AttachBackend, DetachBackend,
                SessionIsReset, TurnEnds
  <2>4. ~ RestartAborts /\ ~ \E k \in Keys : UserAborts(k)
    BY <2>2 DEF RestartAborts, UserAborts
  <2>5. PICK p \in Observers : \/ ObserverWaits(p)  \/ ObserverDrains(p)
                               \/ ObserverIsTold(p) \/ ObserverTimesOut(p)
    BY <2>3, <2>4 DEF Next
  <2>6. \A q \in Observers \ {p} : observer'[q] = observer[q]
    BY <2>1, <2>5 DEF ObserverWaits, WaitForReplyRunEnd, ObserverDrains,
                      ObserverIsTold, ObserverTimesOut, Types
  <2>7. p = o
    BY <2>6
  <2>8. ~ObserverWaits(o) /\ ~ObserverDrains(o)
    BY DEF ObserverWaits, ObserverDrains
  <2>9. ~ObserverIsTold(o)
    <3>1. observer[o] \in Observer
      BY <2>1 DEF Types, NotYet
    <3> QED
      BY <2>1, <3>1 DEF ObserverIsTold, Types, Observer
  <2>10. ObserverTimesOut(o)
    BY <2>5, <2>7, <2>8, <2>9
  <2>11. CASE observer[o].drains /\ ResolveReplyRun(observer[o].id) # None
    <3>1. PICK u \in Turns : /\ u = ResolveReplyRun(observer[o].id)
                             /\ u = observer[o].target /\ Owns(u)
      BY <2>10, <2>11, ForcedIsTheTarget DEF ObserverTimesOut
    <3>2. operation' = Settled(u)
      BY <2>10, <2>11, <3>1, KeysAssumption DEF ObserverTimesOut
    <3>3. \A v \in Turns \ {u} : operation'[v] = operation[v]
      BY <3>1, <3>2, SettledSettles
    <3> QED
      BY <3>1, <3>3
  <2>12. CASE ~(observer[o].drains /\ ResolveReplyRun(observer[o].id) # None)
    BY <2>10, <2>12 DEF ObserverTimesOut
  <2> QED
    BY <2>11, <2>12
<1> QED
  BY IInvHolds, <1>1, PTL DEF Spec, ForceClearSparesSuccessors

-----------------------------------------------------------------------------
(***************************************************************************)
(* The lock.  A step of the registry leaves every turn where it stands in  *)
(* TurnLock, creates one operation, or clears some.                        *)
(***************************************************************************)
LockStands ==
    \A t \in Turns :
        /\ Owns(t)' <=> Owns(t)
        /\ Owns(t) => (operation'[t].stateCleared
                        <=> operation[t].stateCleared)

LockIsGivenBack(cs) ==
    \A t \in Turns :
        /\ Owns(t)' <=> Owns(t)
        /\ t \in cs => Owns(t)
        /\ Owns(t) => (operation'[t].stateCleared
                        <=> operation[t].stateCleared \/ t \in cs)

LEMMA StandingStutters ==
    ASSUME LockStands
    PROVE  LockStage' = LockStage
BY DEF LockStands, LockStage, Owns

LEMMA GivingBackGivesBack ==
    ASSUME NEW cs \in SUBSET Turns, LockIsGivenBack(cs)
    PROVE  Lock!GiveBack(Uncleared(cs))
<1>1. \A t \in Uncleared(cs) : LockStage[t] = "holding"
  BY DEF LockIsGivenBack, Uncleared, LockStage, Owns
<1>2. ASSUME NEW t \in Turns
      PROVE  LockStage'[t] = IF t \in Uncleared(cs) THEN "released"
                             ELSE LockStage[t]
  <2>1. Owns(t)' <=> turn'[t] = "owned"
    BY DEF Owns
  <2>2. LockStage'[t] = IF turn'[t] # "owned" THEN "outside"
                        ELSE IF operation'[t].stateCleared THEN "released"
                        ELSE "holding"
    BY DEF LockStage
  <2>3. LockStage[t] = IF turn[t] # "owned" THEN "outside"
                       ELSE IF operation[t].stateCleared THEN "released"
                       ELSE "holding"
    BY DEF LockStage
  <2>4. t \in Uncleared(cs) <=> t \in cs /\ ~operation[t].stateCleared
    BY DEF Uncleared
  <2> QED
    BY <2>1, <2>2, <2>3, <2>4 DEF LockIsGivenBack, Owns
<1>3. LockStage' = [t \in Turns |-> LockStage'[t]]
  BY DEF LockStage
<1>4. LockStage' = [t \in Turns |-> IF t \in Uncleared(cs) THEN "released"
                                    ELSE LockStage[t]]
  BY <1>2, <1>3
<1> QED
  BY <1>1, <1>4 DEF Lock!GiveBack

\* Creation takes the lock: nobody's operation holds the key.
LEMMA CreationTakes ==
    ASSUME IInv, NEW t \in Turns, NEW id, turn[t] \in {"new", "waiting"},
           IsCreated(t, id)
    PROVE  Lock!Take(t)
<1>1. Types /\ HoldersInv
  BY DEF IInv
<1>2. LockStage[t] = "outside"
  BY DEF LockStage
<1>3. Lock!Holding(KeyOf[t]) = {}
  <2>. SUFFICES ASSUME NEW u \in Turns, LockStage[u] = "holding",
                       KeyOf[u] = KeyOf[t]
                PROVE  FALSE
    BY DEF Lock!Holding
  <2>1. ~operation[u].stateCleared
    BY DEF LockStage
  <2>2. activeRunsByKey[KeyOf[t]] = u
    BY <1>1, <2>1 DEF HoldersInv
  <2> QED
    BY <2>2, KeysAssumption DEF IsCreated, IsIdle
<1>4. /\ turn' = [turn EXCEPT ![t] = "owned"]
      /\ \A u \in Turns \ {t} : operation'[u] = operation[u]
      /\ ~operation'[t].stateCleared
  BY <1>1 DEF IsCreated, CreateReplyOperation, Types
<1>5. ASSUME NEW u \in Turns
      PROVE  LockStage'[u] = IF u = t THEN "holding" ELSE LockStage[u]
  BY <1>1, <1>4 DEF LockStage, Types
<1>6. LockStage' = [LockStage EXCEPT ![t] = "holding"]
  BY <1>5 DEF LockStage
<1> QED
  BY <1>2, <1>3, <1>6 DEF Lock!Take

LEMMA TryingMapsToLock ==
    ASSUME IInv, NEW t \in Turns, NEW id, turn[t] \in {"new", "waiting"},
           TryToAdmit(t, id)
    PROVE  Lock!Take(t) \/ LockStands
<1>1. turn \in [Turns -> {"new", "waiting", "owned", "skipped"}]
  BY DEF IInv, Types
<1>2. CASE Skipped(t)
  BY <1>1, <1>2 DEF Skipped, LockStands, Owns
<1>3. CASE IsCreated(t, id)
  BY <1>3, CreationTakes
<1>4. CASE StartsToWait(t)
  BY <1>1, <1>4 DEF StartsToWait, LockStands, Owns
<1> QED
  BY <1>2, <1>3, <1>4 DEF TryToAdmit, IsCreated, StartsToWait

LEMMA EndsGiveBack ==
    ASSUME NEW cs \in SUBSET Turns, turn' = turn, \A t \in Turns : Ends(t, cs)
    PROVE  LockIsGivenBack(cs)
<1>1. ASSUME NEW t \in Turns
      PROVE  /\ Owns(t)' <=> Owns(t)
             /\ t \in cs => Owns(t)
             /\ Owns(t) => (operation'[t].stateCleared
                             <=> operation[t].stateCleared \/ t \in cs)
  <2>1. Owns(t)' <=> Owns(t)
    BY DEF Owns
  <2> QED
    BY <2>1 DEF Ends
<1> QED
  BY <1>1 DEF LockIsGivenBack

LEMMA AbortMapsToLock ==
    ASSUME IInv, NEW ts \in SUBSET Turns, \A t \in ts : Owns(t),
           operation' = Aborted(ts), UNCHANGED <<admission, run>>
    PROVE  \E cs \in SUBSET Turns : LockIsGivenBack(cs)
<1>1. turn' = turn /\ work' = work /\ NotBegun(ts) \in SUBSET Turns
  BY DEF admission, run, NotBegun
<1>2. \A t \in Turns : Ends(t, NotBegun(ts))
  BY <1>1, AbortedEnds
<1> QED
  BY <1>1, <1>2, EndsGiveBack

LEMMA SettlingMapsToLock ==
    ASSUME IInv, NEW t \in Turns, Owns(t), operation' = Settled(t), turn' = turn
    PROVE  LockIsGivenBack({t})
<1>1. /\ \A u \in Turns \ {t} : operation'[u] = operation[u]
      /\ operation'[t].stateCleared
  BY SettledSettles
<1>2. \A u \in Turns : Owns(u)' <=> Owns(u)
  BY DEF Owns
<1> QED
  BY <1>1, <1>2 DEF LockIsGivenBack

\* What the work of a turn does to its operation is none of the lock's.
LEMMA WorkMapsToLock ==
    ASSUME IInv, NEW t \in Turns,
           \/ WaitTimesOut(t)     \/ UpstreamAborts(t) \/ CompactionBegins(t)
           \/ SessionRotates(t)   \/ RunFollowsRotation(t)
           \/ RunBegins(t)        \/ AttachBackend(t)  \/ DetachBackend(t)
           \/ SessionIsReset(t)
    PROVE  LockStands
<1>1. Types /\ TurnInv(t)
  BY DEF IInv
<1>2. CASE WaitTimesOut(t)
  BY <1>1, <1>2 DEF WaitTimesOut, LockStands, Owns, Types
<1>3. CASE UpstreamAborts(t)
  <2>1. \A u \in Turns :
           \/ turn'[u] = turn[u]
           \/ u = t /\ turn'[t] = "skipped" /\ turn[t] # "owned"
    <3>1. KeyOf[t] \in Keys
      BY KeysAssumption
    <3>2. t \in Range(waitersByKey[KeyOf[t]]) => turn[t] = "waiting"
      BY <1>1, <3>1 DEF TurnInv, Waiting
    <3>3. CASE t \in Range(waitersByKey[KeyOf[t]])
      <4>1. turn' = [turn EXCEPT ![t] = "skipped"] /\ turn[t] = "waiting"
        BY <1>3, <3>2, <3>3 DEF UpstreamAborts
      <4> QED
        BY <1>1, <4>1 DEF Types
    <3>4. CASE t \notin Range(waitersByKey[KeyOf[t]])
      <4>1. turn' = turn
        BY <1>3, <3>4 DEF UpstreamAborts
      <4> QED
        BY <4>1
    <3> QED
      BY <3>3, <3>4
  <2>2. operation' = operation
    BY <1>3 DEF UpstreamAborts
  <2> QED
    BY <2>1, <2>2 DEF LockStands, Owns
<1>4. ASSUME turn' = turn,
             \A u \in Turns :
                operation'[u].stateCleared = operation[u].stateCleared
      PROVE  LockStands
  BY <1>4 DEF LockStands, Owns
<1>5. ASSUME Owns(t), NEW next \in Phases, SetPhase(t, next), turn' = turn
      PROVE  LockStands
  <2>1. operation[t] \in Operation
    BY <1>1, <1>5 DEF TurnInv
  <2>2. /\ \A u \in Turns \ {t} : operation'[u] = operation[u]
        /\ operation'[t] = IF operation[t].phase = "settled" THEN operation[t]
                           ELSE [operation[t] EXCEPT !.phase = next]
    BY <1>5, SetPhaseSets
  <2>3. operation'[t].stateCleared = operation[t].stateCleared
    BY <2>1, <2>2 DEF Operation
  <2> QED
    BY <1>4, <1>5, <2>2, <2>3
<1>6. CASE CompactionBegins(t) \/ RunBegins(t)
  <2>1. Owns(t)
    BY <1>1, <1>6 DEF TurnInv, CompactionBegins, RunBegins
  <2> QED
    BY <1>5, <1>6, <2>1 DEF CompactionBegins, RunBegins, admission, Phases
<1>7. CASE SessionRotates(t) \/ SessionIsReset(t)
  BY <1>4, <1>7 DEF SessionRotates, SessionIsReset, admission
<1>8. CASE RunFollowsRotation(t)
  <2>1. Owns(t) /\ operation[t] \in Operation
    BY <1>1, <1>8 DEF TurnInv, RunFollowsRotation
  <2>2. turn' = turn
    BY <1>8 DEF RunFollowsRotation, admission
  <2>3. PICK next \in SessionIds : UpdateSessionId(t, next)
    BY <1>1, <1>8, KeysAssumption DEF RunFollowsRotation, Types, SessionIds
  <2>4. \/ operation' = operation
        \/ operation' = [operation EXCEPT ![t].sessionId = next,
                                         ![t].held = @ \cup {next}]
    BY <2>3 DEF UpdateSessionId
  <2>5. \A u \in Turns \ {t} : operation'[u] = operation[u]
    BY <1>1, <2>4 DEF Types
  <2>6. operation'[t].stateCleared = operation[t].stateCleared
    BY <1>1, <2>1, <2>4 DEF Types, Operation
  <2> QED
    BY <1>4, <2>2, <2>5, <2>6
<1>9. CASE AttachBackend(t) \/ DetachBackend(t)
  <2>1. Owns(t) /\ operation[t] \in Operation
    BY <1>1, <1>9 DEF TurnInv, AttachBackend, DetachBackend, NoOperation
  <2>2. turn' = turn
    BY <1>9 DEF AttachBackend, DetachBackend, admission
  <2>3. PICK b \in {"none", "live", "cancelled"} :
            operation' = [operation EXCEPT ![t].backend = b]
    BY <1>9 DEF AttachBackend, DetachBackend, Attached
  <2>4. \A u \in Turns \ {t} : operation'[u] = operation[u]
    BY <1>1, <2>3 DEF Types
  <2>5. operation'[t].stateCleared = operation[t].stateCleared
    BY <1>1, <2>1, <2>3 DEF Types, Operation
  <2> QED
    BY <1>4, <2>2, <2>4, <2>5
<1> QED
  BY <1>2, <1>3, <1>6, <1>7, <1>8, <1>9

LEMMA NextMapsToLock ==
    ASSUME IInv, Next
    PROVE  \/ LockStands
           \/ \E t \in Turns : Lock!Take(t)
           \/ \E cs \in SUBSET Turns : LockIsGivenBack(cs)
<1>1. Types
  BY DEF IInv
<1>2. ASSUME NEW t \in Turns, AdmitReplyTurn(t)
      PROVE  Lock!Take(t) \/ LockStands
  BY <1>2, AdmitReplyTurnTries, TryingMapsToLock DEF AdmitReplyTurn
<1>3. ASSUME NEW t \in Turns, TurnGoesOn(t)
      PROVE  Lock!Take(t) \/ LockStands
  <2>1. TryToAdmit(t, IdOf(activeOperation[t])) /\ turn[t] = "waiting"
    BY <1>3, TurnGoesOnTries DEF TurnGoesOn
  <2> QED
    BY <2>1, TryingMapsToLock
<1>4. ASSUME NEW t \in Turns,
             \/ WaitTimesOut(t)     \/ UpstreamAborts(t) \/ CompactionBegins(t)
             \/ SessionRotates(t)   \/ RunFollowsRotation(t)
             \/ RunBegins(t)        \/ AttachBackend(t)  \/ DetachBackend(t)
             \/ SessionIsReset(t)
      PROVE  LockStands
  BY <1>4, WorkMapsToLock
<1>5. ASSUME NEW t \in Turns, TurnEnds(t)
      PROVE  \E cs \in SUBSET Turns : LockIsGivenBack(cs)
  <2>1. TurnInv(t)
    BY DEF IInv
  <2>2. Owns(t) /\ operation' = Settled(t) /\ turn' = turn
    BY <1>5, <2>1 DEF TurnInv, TurnEnds, admission
  <2> QED
    BY <2>2, SettlingMapsToLock
<1>6. ASSUME NEW k \in Keys, UserAborts(k)
      PROVE  \E cs \in SUBSET Turns : LockIsGivenBack(cs)
  <2>1. activeRunsByKey[k] \in Turns /\ Owns(activeRunsByKey[k])
    BY <1>6, HolderOwns DEF UserAborts, IsIdle
  <2> QED
    BY <1>6, <2>1, AbortMapsToLock DEF UserAborts
<1>7. CASE RestartAborts
  <2>1. PICK ts \in SUBSET Active : operation' = Aborted(ts)
    BY <1>7 DEF RestartAborts
  <2>2. ASSUME NEW t \in ts PROVE t \in Turns /\ Owns(t)
    BY HolderOwns DEF Active
  <2> QED
    BY <1>7, <2>1, <2>2, AbortMapsToLock DEF RestartAborts
<1>8. ASSUME UNCHANGED <<operation, admission>>
      PROVE  LockStands
  BY <1>8 DEF LockStands, Owns, admission
<1>9. ASSUME NEW o \in Observers, ObserverWaits(o)
      PROVE  LockStands
  BY <1>8, <1>9 DEF ObserverWaits
<1>10. ASSUME NEW o \in Observers, ObserverDrains(o)
       PROVE  \E cs \in SUBSET Turns : LockIsGivenBack(cs)
  <2>1. PICK id \in SessionIds : /\ ResolveReplyRun(id) # None
                                 /\ operation' = Aborted({ResolveReplyRun(id)})
    BY <1>10 DEF ObserverDrains
  <2>2. PICK t \in Turns : t = ResolveReplyRun(id) /\ Owns(t)
    BY <2>1, ResolvedHolds, HolderOwns
  <2>3. UNCHANGED <<admission, run>>
    BY <1>10 DEF ObserverDrains
  <2>4. {t} \in SUBSET Turns /\ \A u \in {t} : Owns(u)
    BY <2>2
  <2>5. operation' = Aborted({t})
    BY <2>1, <2>2
  <2> QED
    BY <2>3, <2>4, <2>5, AbortMapsToLock
<1>11. ASSUME NEW o \in Observers, ObserverIsTold(o)
       PROVE  LockStands
  BY <1>8, <1>11 DEF ObserverIsTold
<1>12. ASSUME NEW o \in Observers, ObserverTimesOut(o)
       PROVE  LockStands \/ \E cs \in SUBSET Turns : LockIsGivenBack(cs)
  <2>1. UNCHANGED admission
    BY <1>12 DEF ObserverTimesOut
  <2>2. CASE observer[o].drains /\ ResolveReplyRun(observer[o].id) # None
    <3>1. PICK u \in Turns : u = ResolveReplyRun(observer[o].id) /\ Owns(u)
      BY <1>12, <2>2, ForcedIsTheTarget DEF ObserverTimesOut
    <3>2. operation' = Settled(u) /\ turn' = turn
      BY <1>12, <2>1, <2>2, <3>1, KeysAssumption
         DEF ObserverTimesOut, admission
    <3> QED
      BY <3>1, <3>2, SettlingMapsToLock
  <2>3. CASE ~(observer[o].drains /\ ResolveReplyRun(observer[o].id) # None)
    BY <1>8, <1>12, <2>1, <2>3 DEF ObserverTimesOut
  <2> QED
    BY <2>2, <2>3
<1> QED
  BY <1>2, <1>3, <1>4, <1>5, <1>6, <1>7, <1>9, <1>10, <1>11, <1>12 DEF Next

\* However operations end, a session is a lock that one turn at a time holds,
\* takes once and gives back once.
THEOREM RegistryIsALock == Spec => ImplementsTurnLock
<1>1. Init => Lock!Init
  BY DEF Init, Lock!Init, LockStage
<1>2. IInv /\ [Next]_vars => [Lock!Next]_LockStage
  <2>1. CASE UNCHANGED vars
    BY <2>1 DEF vars, admission, LockStage
  <2>2. ASSUME IInv, LockStands
        PROVE  [Lock!Next]_LockStage
    BY <2>2, StandingStutters
  <2>3. ASSUME IInv, NEW t \in Turns, Lock!Take(t)
        PROVE  [Lock!Next]_LockStage
    BY <2>3 DEF Lock!Next
  <2>4. ASSUME IInv, NEW cs \in SUBSET Turns, LockIsGivenBack(cs)
        PROVE  [Lock!Next]_LockStage
    <3>1. Lock!GiveBack(Uncleared(cs)) /\ Uncleared(cs) \in SUBSET Turns
      BY <2>4, GivingBackGivesBack DEF Uncleared
    <3> QED
      BY <3>1 DEF Lock!Next
  <2> QED
    BY <2>1, <2>2, <2>3, <2>4, NextMapsToLock
<1> QED
  BY IInvHolds, <1>1, <1>2, PTL DEF Spec, ImplementsTurnLock, Lock!Spec
=============================================================================
