------------------------- MODULE InboundDebounceProofs -------------------------
(***************************************************************************)
(* What the debouncer of incoming messages keeps, for any messages, keys   *)
(* and caps: every message is handed on once or cancelled, in the order of *)
(* arrival within its conversation, and the batches of a conversation do   *)
(* not overlap.                                                            *)
(***************************************************************************)
EXTENDS InboundDebounce, FiniteSetTheorems, TLAPS

Arrived == Range(arrived)

InChain(t) == task[t].stage # "none" /\ task[t].inChain

Holds(t, m) == m \in Range(task[t].items)

ArrivedOnce ==
    \A i, j \in DOMAIN arrived : arrived[i] = arrived[j] => i = j

NewOnesAreUnknown ==
    \A t \in Messages \ Arrived : task[t] = NoTask /\ flushFirst[t] = None

\* Batches share no message, hold what has arrived for their key and has not
\* been cancelled, and hold all of it.
ItemsBelong ==
    /\ \A t \in Messages : task[t].stage = "none" => task[t].items = <<>>
    /\ \A t, m \in Messages :
         Holds(t, m) => m \in Arrived \ cancelled /\ KeyOf[m] = KeyOf[t]
    /\ \A t, u, m \in Messages : Holds(t, m) /\ Holds(u, m) => t = u
    /\ \A m \in Arrived \ cancelled : \E t \in Messages : Holds(t, m)
    /\ cancelled \subseteq Arrived

ItemsInOrder ==
    \A t \in Messages : \A i, j \in DOMAIN task[t].items :
        i < j => Before(task[t].items[i], task[t].items[j])

\* Batches of a key do not mix: they are apart in time, as their tasks are.
BatchesInOrder ==
    \A t, u, m, n \in Messages :
        /\ t # u /\ KeyOf[t] = KeyOf[u]
        /\ Holds(t, m) /\ Holds(u, n) /\ Before(m, n)
        => Before(t, u)

UpTo(u, t) == t # None /\ (u = t \/ Before(u, t))

\* The task before t in its chain is the youngest that is not over.
Links(t) ==
    task[t].stage # "none" =>
        /\ task[t].stage = "chained" => task[t].inChain
        /\ task[t].previous # None =>
             /\ KeyOf[task[t].previous] = KeyOf[t]
             /\ Before(task[t].previous, t)
             /\ InChain(task[t].previous)
        /\ \A u \in Messages :
             KeyOf[u] = KeyOf[t] /\ InChain(u) /\ Before(u, t) =>
                 task[u].stage = "over" \/ UpTo(u, task[t].previous)

\* What has begun found the chain before it over.
OldOnesAreOver(t) ==
    task[t].stage \in {"running", "over"} =>
        \A u \in Messages :
            KeyOf[u] = KeyOf[t] /\ InChain(u) /\ Before(u, t) =>
                task[u].stage = "over"

\* The end of a chain is its youngest task, or everything in it is over.
ChainEnds(k) ==
    /\ keyChains[k] # None =>
         KeyOf[keyChains[k]] = k /\ InChain(keyChains[k])
    /\ \A u \in Messages :
         KeyOf[u] = k /\ InChain(u) =>
             task[u].stage = "over" \/ UpTo(u, keyChains[k])

\* A filling buffer is at the end of its chain and waits; nothing of its key
\* is younger.
BufferFills(k) ==
    LET b == buffers[k]
    IN  b # None =>
          /\ KeyOf[b] = k
          /\ keyChains[k] = b
          /\ task[b].stage = "chained"
          /\ ~task[b].ready
          /\ flushFirst[b] = None
          /\ \A u \in Messages :
               u # b /\ KeyOf[u] = k /\ task[u].stage # "none" => Before(u, b)

IInv ==
    /\ TypeOK
    /\ ArrivedOnce
    /\ NewOnesAreUnknown
    /\ ItemsBelong
    /\ ItemsInOrder
    /\ BatchesInOrder
    /\ \A t \in Messages : Links(t)
    /\ \A t \in Messages : OldOnesAreOver(t)
    /\ \A k \in Keys : ChainEnds(k)
    /\ \A k \in Keys : BufferFills(k)

-----------------------------------------------------------------------------
(***************************************************************************)
(* Sequences and the order of arrival.                                     *)
(***************************************************************************)

LEMMA RangeOfAppend ==
    ASSUME NEW S, NEW s \in Seq(S), NEW x \in S
    PROVE  /\ Append(s, x) \in Seq(S)
           /\ Range(Append(s, x)) = Range(s) \cup {x}
<1>1. /\ Append(s, x) \in Seq(S)
      /\ Len(Append(s, x)) = Len(s) + 1
      /\ \A i \in 1 .. Len(s) : Append(s, x)[i] = s[i]
      /\ Append(s, x)[Len(s) + 1] = x
    OBVIOUS
<1>2. DOMAIN Append(s, x) = 1 .. Len(s) + 1 /\ DOMAIN s = 1 .. Len(s)
    BY <1>1
<1>3. Len(s) \in Nat
    OBVIOUS
<1>4. ASSUME NEW y \in Range(Append(s, x))
      PROVE  y \in Range(s) \cup {x}
  <2>1. PICK i \in 1 .. Len(s) + 1 : y = Append(s, x)[i]
      BY <1>2, <1>4 DEF Range
  <2>. QED
      BY <1>1, <1>2, <1>3, <2>1 DEF Range
<1>5. ASSUME NEW y \in Range(s) \cup {x}
      PROVE  y \in Range(Append(s, x))
  <2>1. CASE y = x
      BY <1>1, <1>2, <1>3, <2>1 DEF Range
  <2>2. CASE y \in Range(s)
    <3>1. PICK i \in 1 .. Len(s) : y = s[i]
        BY <1>2, <2>2 DEF Range
    <3>. QED
        BY <1>1, <1>2, <1>3, <3>1 DEF Range
  <2>. QED
      BY <1>5, <2>1, <2>2
<1>. QED
    BY <1>1, <1>4, <1>5

LEMMA RangeOfOne ==
    ASSUME NEW x
    PROVE  Range(<<x>>) = {x} /\ DOMAIN <<x>> = {1} /\ Range(<<>>) = {}
BY DEF Range

\* Arrival is a total order on what has arrived.
LEMMA ArrivalIsAnOrder ==
    ASSUME TypeOK, ArrivedOnce
    PROVE  /\ \A m, n : Before(m, n) => m \in Arrived /\ n \in Arrived
           /\ \A m : ~Before(m, m)
           /\ \A m, n : Before(m, n) => ~Before(n, m)
           /\ \A l, m, n : Before(l, m) /\ Before(m, n) => Before(l, n)
           /\ \A m, n \in Arrived : m = n \/ Before(m, n) \/ Before(n, m)
<1>1. DOMAIN arrived = 1 .. Len(arrived) /\ Len(arrived) \in Nat
    BY DEF TypeOK
<1>2. \A m, n : Before(m, n) => m \in Arrived /\ n \in Arrived
    BY DEF Before, Arrived, Range
<1>3. \A m : ~Before(m, m)
    BY <1>1 DEF Before, ArrivedOnce
<1>4. \A l, m, n : Before(l, m) /\ Before(m, n) => Before(l, n)
  <2>1. SUFFICES ASSUME NEW l, NEW m, NEW n, Before(l, m), Before(m, n)
                 PROVE  Before(l, n)
      OBVIOUS
  <2>2. PICK i, j \in DOMAIN arrived : i < j /\ arrived[i] = l /\ arrived[j] = m
      BY <2>1 DEF Before
  <2>3. PICK h, k \in DOMAIN arrived : h < k /\ arrived[h] = m /\ arrived[k] = n
      BY <2>1 DEF Before
  <2>4. j = h
      BY <2>2, <2>3 DEF ArrivedOnce
  <2>5. i < k
      BY <1>1, <2>2, <2>3, <2>4
  <2>. QED
      BY <2>2, <2>3, <2>5 DEF Before
<1>5. \A m, n \in Arrived : m = n \/ Before(m, n) \/ Before(n, m)
  <2>1. SUFFICES ASSUME NEW m \in Arrived, NEW n \in Arrived, m # n
                 PROVE  Before(m, n) \/ Before(n, m)
      OBVIOUS
  <2>2. PICK i \in DOMAIN arrived : arrived[i] = m
      BY DEF Arrived, Range
  <2>3. PICK j \in DOMAIN arrived : arrived[j] = n
      BY DEF Arrived, Range
  <2>4. i < j \/ j < i
      BY <1>1, <2>1, <2>2, <2>3
  <2>. QED
      BY <2>2, <2>3, <2>4 DEF Before
<1>. QED
    BY <1>2, <1>3, <1>4, <1>5

LEMMA BeforeIsOfArrived ==
    ASSUME NEW m, NEW n, Before(m, n)
    PROVE  m \in Arrived /\ n \in Arrived
BY DEF Before, Arrived, Range

LEMMA HoldersExist ==
    ASSUME ItemsBelong, NEW t \in Messages, NEW m, Holds(t, m)
    PROVE  task[t].stage # "none"
BY RangeOfOne DEF ItemsBelong, Holds

\* Who arrives comes after all the others.
LEMMA ArrivingIsLast ==
    ASSUME TypeOK, ArrivedOnce, NEW t \in Messages, t \notin Arrived,
           arrived' = Append(arrived, t)
    PROVE  /\ ArrivedOnce'
           /\ Arrived' = Arrived \cup {t}
           /\ \A m, n : Before(m, n)' <=>
                           Before(m, n) \/ (m \in Arrived /\ n = t)
<1>1. /\ Len(arrived) \in Nat
      /\ DOMAIN arrived = 1 .. Len(arrived)
      /\ DOMAIN arrived' = 1 .. Len(arrived) + 1
      /\ \A i \in 1 .. Len(arrived) : arrived'[i] = arrived[i]
      /\ arrived'[Len(arrived) + 1] = t
    BY DEF TypeOK
<1>2. \A i \in 1 .. Len(arrived) : arrived[i] \in Arrived /\ arrived[i] # t
    BY <1>1 DEF Arrived, Range
<1>3. ArrivedOnce'
    BY <1>1, <1>2 DEF ArrivedOnce
<1>4. Arrived' = Arrived \cup {t}
    BY RangeOfAppend DEF TypeOK, Arrived
<1>5. ASSUME NEW m, NEW n, Before(m, n)'
      PROVE  Before(m, n) \/ (m \in Arrived /\ n = t)
  <2>1. PICK i, j \in 1 .. Len(arrived) + 1 :
            i < j /\ arrived'[i] = m /\ arrived'[j] = n
      BY <1>1, <1>5 DEF Before
  <2>2. i \in 1 .. Len(arrived)
      BY <1>1, <2>1
  <2>3. CASE j = Len(arrived) + 1
      BY <1>1, <1>2, <2>1, <2>2, <2>3
  <2>4. CASE j \in 1 .. Len(arrived)
      BY <1>1, <2>1, <2>2, <2>4 DEF Before
  <2>. QED
      BY <1>1, <2>3, <2>4
<1>6. ASSUME NEW m, NEW n, Before(m, n)
      PROVE  Before(m, n)'
  <2>1. PICK i, j \in 1 .. Len(arrived) :
            i < j /\ arrived[i] = m /\ arrived[j] = n
      BY <1>1, <1>6 DEF Before
  <2>2. i \in DOMAIN arrived' /\ j \in DOMAIN arrived'
      BY <1>1
  <2>. QED
      BY <1>1, <2>1, <2>2 DEF Before
<1>7. ASSUME NEW m \in Arrived
      PROVE  Before(m, t)'
  <2>1. PICK i \in 1 .. Len(arrived) : arrived[i] = m
      BY <1>1 DEF Arrived, Range
  <2>2. i \in DOMAIN arrived' /\ Len(arrived) + 1 \in DOMAIN arrived'
      BY <1>1
  <2>. QED
      BY <1>1, <2>1, <2>2 DEF Before
<1>. QED
    BY <1>3, <1>4, <1>5, <1>6, <1>7

LEMMA NobodyArrives ==
    ASSUME arrived' = arrived
    PROVE  /\ Arrived' = Arrived
           /\ \A m, n : Before(m, n)' <=> Before(m, n)
           /\ ArrivedOnce => ArrivedOnce'
BY DEF Arrived, Before, ArrivedOnce

-----------------------------------------------------------------------------
(***************************************************************************)
(* Types.                                                                  *)
(***************************************************************************)

LEMMA TasksAreTyped ==
    /\ NoTask \in Task
    /\ \A t \in Messages, ready \in BOOLEAN :
         TypeOK => Chained(t, ready) \in Task /\ RunningAtOnce(t) \in Task
<1>1. <<>> \in Seq(Messages)
    OBVIOUS
<1>2. \A t \in Messages : <<t>> \in Seq(Messages)
    OBVIOUS
<1>. QED
    BY <1>1, <1>2, MessagesAssumption
       DEF NoTask, Task, Stages, TypeOK, Chained, RunningAtOnce

\* An update of a task changes the fields it names.
LEMMA UpdatesAreTyped ==
    ASSUME NEW r \in Task
    PROVE  /\ \A s \in Stages : [r EXCEPT !.stage = s] \in Task
           /\ [r EXCEPT !.ready = TRUE] \in Task
           /\ \A q \in Seq(Messages) : [r EXCEPT !.items = q] \in Task
           /\ [r EXCEPT !.items = <<>>, !.ready = TRUE] \in Task
<1>1. <<>> \in Seq(Messages)
    OBVIOUS
<1>2. \A s \in Stages : [r EXCEPT !.stage = s] \in Task
    BY DEF Task
<1>3. \A q \in Seq(Messages) : [r EXCEPT !.items = q] \in Task
    BY DEF Task
<1>4. \A q \in Task : [q EXCEPT !.ready = TRUE] \in Task
    BY DEF Task
<1>5. [[r EXCEPT !.items = <<>>] EXCEPT !.ready = TRUE] \in Task
    BY <1>1, <1>3, <1>4
<1>6. [r EXCEPT !.items = <<>>, !.ready = TRUE]
        = [[r EXCEPT !.items = <<>>] EXCEPT !.ready = TRUE]
    BY DEF Task
<1>. QED
    BY <1>2, <1>3, <1>4, <1>5, <1>6

LEMMA TypeStep ==
    ASSUME TypeOK, [Next]_vars
    PROVE  TypeOK'
<1>. USE MessagesAssumption DEF TypeOK
<1>1. ASSUME NEW t \in Messages, Enqueue(t)
      PROVE  TypeOK'
  <2>1. arrived' \in Seq(Messages)
      BY <1>1, RangeOfAppend DEF Enqueue
  <2>2. /\ t \in Messages /\ KeyOf[t] \in Keys
        /\ \A r \in BOOLEAN : Chained(t, r) \in Task
        /\ RunningAtOnce(t) \in Task
      BY TasksAreTyped
  <2>3. CASE buffers[KeyOf[t]] # None /\ FlushesBufferFirst(t)
    <3>1. task' \in [Messages -> Task]
        BY ZenonT(40), <2>2, <2>3 DEF FlushesBufferFirst, Task
    <3>2. /\ buffers' \in [Keys -> Messages \cup {None}]
          /\ keyChains' \in [Keys -> Messages \cup {None}]
          /\ flushFirst' \in [Messages -> Messages \cup {None}]
          /\ \A k \in Keys : buffers'[k] # None => KeyOf[buffers'[k]] = k
        BY <2>2, <2>3 DEF FlushesBufferFirst, TakesPlaceInChain
    <3>. QED
        BY <1>1, <2>1, <3>1, <3>2 DEF Enqueue
  <2>4. CASE WaitsItsTurn(t)
    <3>1. task' \in [Messages -> Task]
        BY <2>2, <2>4 DEF WaitsItsTurn, Task
    <3>. QED
        BY <1>1, <2>1, <2>2, <2>4, <3>1
           DEF Enqueue, WaitsItsTurn, TakesPlaceInChain
  <2>5. CASE RunsAtOnce(t)
    <3>1. task' \in [Messages -> Task]
        BY <2>2, <2>5 DEF RunsAtOnce, Task
    <3>. QED
        BY <1>1, <2>1, <2>2, <2>5, <3>1
           DEF Enqueue, RunsAtOnce, TakesPlaceInChain
  <2>6. CASE buffers[KeyOf[t]] # None /\ JoinsBuffer(t)
    <3>1. \A s \in Seq(Messages) : Append(s, t) \in Seq(Messages)
        BY RangeOfAppend
    <3>2. task' \in [Messages -> Task]
        BY ZenonT(40), <2>2, <2>6, <3>1 DEF JoinsBuffer, Task
    <3>. QED
        BY <1>1, <2>1, <2>6, <3>2 DEF Enqueue, JoinsBuffer
  <2>7. CASE OpensBuffer(t)
    <3>1. task' \in [Messages -> Task]
        BY <2>2, <2>7 DEF OpensBuffer, Task
    <3>. QED
        BY <1>1, <2>1, <2>2, <2>7, <3>1
           DEF Enqueue, OpensBuffer, TakesPlaceInChain
  <2>. QED
      BY <1>1, <2>3, <2>4, <2>5, <2>6, <2>7
         DEF Enqueue, EnqueueImmediate, EnqueueDebounced
<1>2. ASSUME NEW t \in Messages, ReservedTaskIsReleased(t)
      PROVE  TypeOK'
    BY ZenonT(40), <1>2 DEF ReservedTaskIsReleased, Task
<1>3. ASSUME NEW t \in Messages, TaskBegins(t)
      PROVE  TypeOK'
  <2>1. CASE task[t].items = <<>>
    <3>1. task' \in [Messages -> Task]
        BY SMTT(30), <1>3, <2>1 DEF TaskBegins, Task, Stages
    <3>. QED
        BY <1>3, <2>1, <3>1 DEF TaskBegins, Cleanup
  <2>2. CASE task[t].items # <<>>
    <3>0. task' = [task EXCEPT ![t].stage = "running"]
        BY <1>3, <2>2 DEF TaskBegins
    <3>1. task' \in [Messages -> Task]
        BY <3>0, UpdatesAreTyped DEF Stages
    <3>. QED
        BY <1>3, <2>2, <3>1 DEF TaskBegins
  <2>. QED
      BY <2>1, <2>2
<1>4. ASSUME NEW t \in Messages, FlushEnds(t)
      PROVE  TypeOK'
    BY <1>4 DEF FlushEnds, Cleanup, Task, Stages
<1>5. ASSUME NEW k \in Keys, FlushBuffer(k)
      PROVE  TypeOK'
    BY ZenonT(40), <1>5 DEF FlushBuffer, Task
<1>6. ASSUME NEW k \in Keys, CancelKey(k)
      PROVE  TypeOK'
  <2>1. <<>> \in Seq(Messages)
      OBVIOUS
  <2>2. \A s \in Seq(Messages) : Range(s) \subseteq Messages
      BY DEF Range
  <2>3. buffers[k] \in Messages
      BY <1>6 DEF CancelKey
  <2>5. task' = [task EXCEPT ![buffers[k]] =
                  [task[buffers[k]] EXCEPT !.items = <<>>, !.ready = TRUE]]
      BY <1>6, <2>3 DEF CancelKey, Task
  <2>6. [task[buffers[k]] EXCEPT !.items = <<>>, !.ready = TRUE] \in Task
      BY <2>3, UpdatesAreTyped
  <2>7. task' \in [Messages -> Task]
      BY <2>3, <2>5, <2>6
  <2>4. cancelled' \subseteq Messages
      BY <1>6, <2>2 DEF CancelKey, Task
  <2>. QED
      BY <1>6, <2>7, <2>4 DEF CancelKey
<1>7. CASE UNCHANGED vars
    BY <1>7 DEF vars
<1>. QED
    BY <1>1, <1>2, <1>3, <1>4, <1>5, <1>6, <1>7 DEF Next

LEMMA TypeInit ==
    ASSUME Init
    PROVE  TypeOK
<1>1. <<>> \in Seq(Messages)
    OBVIOUS
<1>. QED
    BY <1>1, TasksAreTyped, MessagesAssumption DEF Init, TypeOK

\* Every variable keeps its type, whatever arrives in whatever order.
THEOREM TypeCorrect == Spec => []TypeOK
<1>1. TypeOK /\ [Next]_vars => TypeOK'
    BY TypeStep
<1>. QED
    BY <1>1, TypeInit, PTL DEF Spec

-----------------------------------------------------------------------------
(***************************************************************************)
(* What an arriving message changes.                                       *)
(***************************************************************************)

\* It makes a task of its own, behind its chain or with nothing before it,
OwnTask(t) ==
    /\ t \in Messages \ Arrived
    /\ arrived' = Append(arrived, t)
    /\ cancelled' = cancelled
    /\ task'[t].stage \in {"chained", "running"}
    /\ task'[t].items = <<t>>
    /\ task'[t].stage = "chained" =>
         task'[t].inChain /\ task'[t].previous = keyChains[KeyOf[t]]
    /\ task'[t].stage = "running" =>
         task'[t].previous = None /\ keyChains[KeyOf[t]] = None
    /\ \A u \in Messages \ {t} :
         /\ task'[u].stage = task[u].stage
         /\ task'[u].items = task[u].items
         /\ task'[u].previous = task[u].previous
         /\ task'[u].inChain = task[u].inChain
    /\ \A k \in Keys :
         keyChains'[k] = IF k = KeyOf[t] /\ task'[t].inChain THEN t
                                                            ELSE keyChains[k]

\* or joins the buffer of its key.
JoinsBatch(t) ==
    LET b == buffers[KeyOf[t]]
    IN  /\ t \in Messages \ Arrived
        /\ arrived' = Append(arrived, t)
        /\ cancelled' = cancelled
        /\ b # None
        /\ task'[b].items = Append(task[b].items, t)
        /\ \A u \in Messages \ {b} : task'[u].items = task[u].items
        /\ \A u \in Messages :
             /\ task'[u].stage = task[u].stage
             /\ task'[u].previous = task[u].previous
             /\ task'[u].inChain = task[u].inChain
        /\ keyChains' = keyChains

LEMMA ArrivingMakesATaskOrJoins ==
    ASSUME IInv, NEW t \in Messages, Enqueue(t)
    PROVE  OwnTask(t) \/ JoinsBatch(t)
<1>. USE MessagesAssumption DEF IInv, TypeOK
<1>1. /\ t \notin Arrived /\ arrived' = Append(arrived, t)
      /\ cancelled' = cancelled
    BY DEF Enqueue, Arrived
<1>2. \A k \in Keys : buffers[k] # None => buffers[k] \in Arrived
    BY DEF BufferFills, NewOnesAreUnknown, NoTask
<1>3. CASE buffers[KeyOf[t]] # None /\ FlushesBufferFirst(t)
  <2>1. buffers[KeyOf[t]] \in Messages /\ buffers[KeyOf[t]] # t
      BY <1>1, <1>2, <1>3
  <2>. QED
      BY <1>1, <1>3, <2>1
         DEF FlushesBufferFirst, TakesPlaceInChain, Chained, OwnTask, Task
<1>4. CASE WaitsItsTurn(t)
    BY <1>1, <1>4 DEF WaitsItsTurn, TakesPlaceInChain, Chained, OwnTask, Task
<1>5. CASE keyChains[KeyOf[t]] = None /\ RunsAtOnce(t)
  <2>1. /\ task' = [task EXCEPT ![t] = RunningAtOnce(t)]
        /\ \A k \in Keys :
             keyChains'[k] = IF k = KeyOf[t] /\ serializeImmediate THEN t
                                                           ELSE keyChains[k]
      BY <1>5 DEF RunsAtOnce, TakesPlaceInChain
  <2>. QED
      BY <1>1, <1>5, <2>1 DEF RunningAtOnce, OwnTask, Task
<1>6. CASE OpensBuffer(t)
    BY <1>1, <1>6 DEF OpensBuffer, TakesPlaceInChain, Chained, OwnTask, Task
<1>7. CASE buffers[KeyOf[t]] # None /\ JoinsBuffer(t)
    BY <1>1, <1>7 DEF JoinsBuffer, JoinsBatch, Task
<1>. QED
    BY <1>3, <1>4, <1>5, <1>6, <1>7
       DEF Enqueue, EnqueueImmediate, EnqueueDebounced

\* The chains and batches, as one conjunction.
Order ==
    /\ ItemsBelong
    /\ ItemsInOrder
    /\ BatchesInOrder
    /\ \A t \in Messages : Links(t)
    /\ \A t \in Messages : OldOnesAreOver(t)
    /\ \A k \in Keys : ChainEnds(k)

LEMMA ArrivedAreMessages ==
    ASSUME TypeOK
    PROVE  Arrived \subseteq Messages
BY DEF TypeOK, Arrived, Range

LEMMA CancelledHaveArrived ==
    ASSUME ItemsBelong
    PROVE  cancelled \subseteq Arrived
BY DEF ItemsBelong

LEMMA OwnTasksKeepOrder ==
    ASSUME IInv, NEW t \in Messages, OwnTask(t)
    PROVE  Order'
<1>. USE MessagesAssumption DEF IInv
<1>1. /\ Arrived' = Arrived \cup {t}
      /\ \A m, n : Before(m, n)' <=> Before(m, n) \/ (m \in Arrived /\ n = t)
    BY ArrivingIsLast DEF OwnTask
<1>2. /\ t \notin Arrived /\ Range(task'[t].items) = {t}
      /\ task[t].stage = "none"
      /\ \A u \in Messages : task[u].stage # "none" => u \in Arrived
      /\ \A m : ~Holds(t, m)
    BY RangeOfOne DEF OwnTask, NewOnesAreUnknown, NoTask, Holds
<1>3. \A u, m \in Messages :
         Holds(u, m)' <=> Holds(u, m) \/ (u = t /\ m = t)
    BY <1>2 DEF OwnTask, Holds
<1>4. \A u \in Messages : InChain(u) => InChain(u)' /\ u # t /\ u \in Arrived
    BY <1>2 DEF OwnTask, InChain
<1>5. \A u \in Messages : u # t => (InChain(u)' <=> InChain(u))
    BY DEF OwnTask, InChain
<1>6. ItemsBelong'
  <2>1. \A u \in Messages : task'[u].stage = "none" => task'[u].items = <<>>
      BY DEF OwnTask, ItemsBelong
  <2>2. \A u, m \in Messages :
           Holds(u, m)' => m \in (Arrived \ cancelled)' /\ KeyOf[m] = KeyOf[u]
      BY <1>1, <1>2, <1>3, CancelledHaveArrived DEF OwnTask, ItemsBelong
  <2>3. \A u, v, m \in Messages : Holds(u, m)' /\ Holds(v, m)' => u = v
      BY <1>2, <1>3 DEF ItemsBelong
  <2>4. ASSUME NEW m \in (Arrived \ cancelled)'
        PROVE  \E u \in Messages : Holds(u, m)'
    <3>1. m \in Messages
        BY <1>1, <2>4, ArrivedAreMessages
    <3>2. CASE m = t
        BY <1>3, <3>2
    <3>3. CASE m # t
        BY <1>1, <1>3, <2>4, <3>1, <3>3 DEF OwnTask, ItemsBelong
    <3>. QED
        BY <3>2, <3>3
  <2>5. (cancelled \subseteq Arrived)'
      BY <1>1, CancelledHaveArrived DEF OwnTask
  <2>. QED
      BY <2>1, <2>2, <2>3, <2>4, <2>5 DEF ItemsBelong
<1>7. ItemsInOrder'
    BY <1>1, <1>2, RangeOfOne DEF OwnTask, ItemsInOrder
<1>8. BatchesInOrder'
  <2>1. SUFFICES ASSUME NEW u \in Messages, NEW v \in Messages,
                        NEW m \in Messages, NEW n \in Messages,
                        u # v, KeyOf[u] = KeyOf[v], Before(m, n)',
                        Holds(u, m)', Holds(v, n)'
                 PROVE  Before(u, v)'
      BY DEF BatchesInOrder
  <2>2. m # t /\ u # t
      BY <1>1, <1>2, <1>3, <2>1, BeforeIsOfArrived DEF ItemsBelong
  <2>3. u \in Arrived
      BY <1>2, <1>3, <2>1, <2>2, HoldersExist
  <2>4. CASE v = t
      BY <1>1, <2>3, <2>4
  <2>5. CASE v # t
      BY <1>1, <1>2, <1>3, <2>1, <2>2, <2>5 DEF BatchesInOrder, ItemsBelong
  <2>. QED
      BY <2>4, <2>5
<1>9. ASSUME NEW u \in Messages
      PROVE  Links(u)'
  <2>1. CASE u # t
    <3>1. SUFFICES ASSUME task'[u].stage # "none"
                   PROVE  Links(u)'
        BY DEF Links
    <3>2. /\ task'[u].stage = task[u].stage
          /\ task'[u].previous = task[u].previous
          /\ task'[u].inChain = task[u].inChain
          /\ Links(u)
        BY <2>1 DEF OwnTask
    <3>3. ASSUME NEW v \in Messages,
                 KeyOf[v] = KeyOf[u], InChain(v)', Before(v, u)'
          PROVE  task'[v].stage = "over" \/ UpTo(v, task[u].previous)'
      <4>1. Before(v, u) /\ v # t
          BY <1>1, <1>2, <2>1, <3>3, BeforeIsOfArrived
      <4>. QED
          BY <1>1, <1>5, <3>1, <3>2, <3>3, <4>1 DEF Links, UpTo, OwnTask
    <3>4. task[u].previous # None =>
            /\ KeyOf[task[u].previous] = KeyOf[u]
            /\ Before(task[u].previous, u)'
            /\ InChain(task[u].previous)'
        BY <1>1, <1>4, <3>1, <3>2 DEF Links, TypeOK, Task
    <3>. QED
        BY <3>1, <3>2, <3>3, <3>4 DEF Links
  <2>2. CASE u = t
    <3>1. KeyOf[t] \in Keys /\ ChainEnds(KeyOf[t])
        OBVIOUS
    <3>0. PICK c : c = keyChains[KeyOf[t]]
        OBVIOUS
    <3>2. /\ task'[t].stage = "chained" => task'[t].inChain
          /\ task'[t].previous = c
        BY <3>0 DEF OwnTask
    <3>3. c # None => /\ KeyOf[c] = KeyOf[t]
                      /\ Before(c, t)'
                      /\ InChain(c)'
        BY <1>1, <1>2, <1>4, <3>0, <3>1 DEF ChainEnds, TypeOK
    <3>4. ASSUME NEW v \in Messages, KeyOf[v] = KeyOf[t],
                 InChain(v)', Before(v, t)'
          PROVE  task'[v].stage = "over" \/ UpTo(v, c)'
      <4>1. v \in Arrived /\ v # t /\ InChain(v)
          BY <1>1, <1>2, <1>5, <3>4, BeforeIsOfArrived
      <4>2. task[v].stage = "over" \/ UpTo(v, c)
          BY <3>0, <3>1, <3>4, <4>1 DEF ChainEnds
      <4>. QED
          BY <1>1, <4>1, <4>2 DEF UpTo, OwnTask
    <3>. QED
        BY <2>2, <3>2, <3>3, <3>4 DEF Links
  <2>. QED
      BY <2>1, <2>2
<1>10. ASSUME NEW u \in Messages
       PROVE  OldOnesAreOver(u)'
  <2>1. CASE u # t
      BY <1>1, <1>2, <1>4, <1>5, <2>1, ArrivalIsAnOrder
         DEF OwnTask, OldOnesAreOver
  <2>2. CASE u = t
    <3>1. KeyOf[t] \in Keys /\ ChainEnds(KeyOf[t])
        OBVIOUS
    <3>. QED
        BY <1>1, <1>2, <1>4, <1>5, <2>2, <3>1, ArrivalIsAnOrder
           DEF OwnTask, OldOnesAreOver, UpTo, ChainEnds
  <2>. QED
      BY <2>1, <2>2
<1>11. ASSUME NEW k \in Keys
       PROVE  ChainEnds(k)'
    BY SMTT(30), <1>1, <1>2, <1>4, <1>5, ArrivalIsAnOrder
       DEF OwnTask, ChainEnds, UpTo, InChain, TypeOK
<1>. QED
    BY <1>6, <1>7, <1>8, <1>9, <1>10, <1>11 DEF Order

LEMMA JoiningKeepsOrder ==
    ASSUME IInv, NEW t \in Messages, JoinsBatch(t)
    PROVE  Order'
<1>. USE MessagesAssumption DEF IInv
<1>. DEFINE b == buffers[KeyOf[t]]
<1>0. /\ t \notin Arrived /\ b \in Messages /\ KeyOf[t] \in Keys /\ b # None
      /\ task[b].items \in Seq(Messages)
    BY DEF JoinsBatch, TypeOK, Task
<1>1. /\ Arrived' = Arrived \cup {t}
      /\ \A m, n : Before(m, n)' <=> Before(m, n) \/ (m \in Arrived /\ n = t)
    BY ArrivingIsLast DEF JoinsBatch
<1>2. /\ \A u \in Messages : task[u].stage # "none" => u \in Arrived
      /\ task[b].stage = "chained"
      /\ KeyOf[b] = KeyOf[t]
      /\ \A u \in Messages :
           u # b /\ KeyOf[u] = KeyOf[t] /\ task[u].stage # "none" =>
               Before(u, b)
    BY <1>0 DEF NewOnesAreUnknown, NoTask, BufferFills
<1>3. \A u, m \in Messages :
         Holds(u, m)' <=> Holds(u, m) \/ (u = b /\ m = t)
  <2>1. Range(Append(task[b].items, t)) = Range(task[b].items) \cup {t}
      BY <1>0, RangeOfAppend
  <2>. QED
      BY <1>0, <2>1 DEF JoinsBatch, Holds
<1>4. \A u \in Messages : (InChain(u)' <=> InChain(u)) /\ (InChain(u) => u # t)
    BY <1>0, <1>2 DEF JoinsBatch, InChain
<1>5. \A u, m \in Messages : Holds(u, m) => m \in Arrived /\ m # t
    BY <1>0 DEF ItemsBelong
<1>6. ItemsBelong'
  <2>1. \A u \in Messages : task'[u].stage = "none" => task'[u].items = <<>>
      BY <1>2 DEF JoinsBatch, ItemsBelong
  <2>2. \A u, m \in Messages :
           Holds(u, m)' => m \in (Arrived \ cancelled)' /\ KeyOf[m] = KeyOf[u]
      BY <1>0, <1>1, <1>2, <1>3, CancelledHaveArrived
         DEF JoinsBatch, ItemsBelong
  <2>3. \A u, v, m \in Messages : Holds(u, m)' /\ Holds(v, m)' => u = v
      BY <1>3, <1>5 DEF ItemsBelong
  <2>4. ASSUME NEW m \in (Arrived \ cancelled)'
        PROVE  \E u \in Messages : Holds(u, m)'
    <3>1. m \in Messages
        BY <1>1, <2>4, ArrivedAreMessages
    <3>2. CASE m = t
        BY <1>0, <1>3, <3>2
    <3>3. CASE m # t
        BY <1>1, <1>3, <2>4, <3>1, <3>3 DEF JoinsBatch, ItemsBelong
    <3>. QED
        BY <3>2, <3>3
  <2>5. (cancelled \subseteq Arrived)'
      BY <1>1, CancelledHaveArrived DEF JoinsBatch
  <2>. QED
      BY <2>1, <2>2, <2>3, <2>4, <2>5 DEF ItemsBelong
<1>7. ItemsInOrder'
  <2>1. SUFFICES ASSUME NEW u \in Messages, NEW i \in DOMAIN task[u].items',
                        NEW j \in DOMAIN task[u].items', i < j
                 PROVE  Before(task[u].items[i], task[u].items[j])'
      BY DEF ItemsInOrder
  <2>2. CASE u # b
    <3>1. task'[u].items = task[u].items
        BY <2>2 DEF JoinsBatch
    <3>. QED
        BY <1>1, <2>1, <3>1 DEF ItemsInOrder
  <2>3. CASE u = b
    <3>. DEFINE s == task[b].items
    <3>1. /\ task'[b].items = Append(s, t)
          /\ s \in Seq(Messages) /\ Len(s) \in Nat
          /\ DOMAIN s = 1 .. Len(s)
          /\ DOMAIN Append(s, t) = 1 .. Len(s) + 1
          /\ \A h \in 1 .. Len(s) : Append(s, t)[h] = s[h]
          /\ Append(s, t)[Len(s) + 1] = t
        BY <1>0 DEF JoinsBatch
    <3>2. i \in 1 .. Len(s)
        BY <2>1, <2>3, <3>1
    <3>3. s[i] \in Arrived
        BY <1>0, <1>5, <3>1, <3>2 DEF Holds, Range
    <3>4. CASE j \in 1 .. Len(s)
        BY <1>0, <1>1, <2>1, <2>3, <3>1, <3>2, <3>4 DEF ItemsInOrder
    <3>5. CASE j = Len(s) + 1
        BY <1>1, <2>3, <3>1, <3>2, <3>3, <3>5
    <3>. QED
        BY SMTT(30), <2>1, <2>3, <3>1, <3>4, <3>5
  <2>. QED
      BY <2>2, <2>3
<1>8. BatchesInOrder'
  <2>1. SUFFICES ASSUME NEW u \in Messages, NEW v \in Messages,
                        NEW m \in Messages, NEW n \in Messages,
                        u # v, KeyOf[u] = KeyOf[v], Before(m, n)',
                        Holds(u, m)', Holds(v, n)'
                 PROVE  Before(u, v)
      BY <1>1 DEF BatchesInOrder
  <2>2. ~(m = t /\ u = b)
      BY <1>0, <1>1, <1>3, <1>5, <2>1, ArrivalIsAnOrder
  <2>3. Holds(u, m)
      BY <1>3, <2>1, <2>2
  <2>4. CASE n = t
    <3>1. v = b /\ task[u].stage # "none"
        BY <1>3, <1>5, <2>1, <2>3, <2>4, RangeOfOne DEF ItemsBelong, Holds
    <3>. QED
        BY <1>2, <2>1, <3>1
  <2>5. CASE n # t
      BY <1>1, <1>3, <2>1, <2>3, <2>5 DEF BatchesInOrder
  <2>. QED
      BY <2>4, <2>5
<1>9. ASSUME NEW u \in Messages
      PROVE  Links(u)'
  <2>1. SUFFICES ASSUME task[u].stage # "none"
                 PROVE  Links(u)'
      BY DEF Links, JoinsBatch
  <2>2. /\ task'[u].stage = task[u].stage
        /\ task'[u].previous = task[u].previous
        /\ task'[u].inChain = task[u].inChain
        /\ Links(u)
      BY DEF JoinsBatch
  <2>3. u \in Arrived
      BY <1>2, <2>1
  <2>4. ASSUME NEW v \in Messages,
               KeyOf[v] = KeyOf[u], InChain(v)', Before(v, u)'
        PROVE  task'[v].stage = "over" \/ UpTo(v, task[u].previous)'
    <3>1. Before(v, u) /\ InChain(v)
        BY <1>0, <1>1, <1>4, <2>3, <2>4
    <3>2. task[v].stage = "over" \/ UpTo(v, task[u].previous)
        BY <2>1, <2>2, <2>4, <3>1 DEF Links
    <3>. QED
        BY <1>1, <2>2, <3>2 DEF UpTo, JoinsBatch
  <2>5. task[u].previous # None =>
          /\ KeyOf[task[u].previous] = KeyOf[u]
          /\ Before(task[u].previous, u)'
          /\ InChain(task[u].previous)'
      BY <1>1, <1>4, <2>1, <2>2 DEF Links, TypeOK, Task
  <2>. QED
      BY <2>1, <2>2, <2>4, <2>5 DEF Links
<1>10. ASSUME NEW u \in Messages
       PROVE  OldOnesAreOver(u)'
    BY <1>0, <1>1, <1>2, <1>4, ArrivalIsAnOrder DEF JoinsBatch, OldOnesAreOver
<1>11. ASSUME NEW k \in Keys
       PROVE  ChainEnds(k)'
  <2>1. keyChains[k] # None =>
          KeyOf[keyChains[k]] = k /\ InChain(keyChains[k])'
      BY <1>4 DEF ChainEnds, TypeOK, JoinsBatch
  <2>2. \A u \in Messages :
           KeyOf[u] = k /\ InChain(u)' =>
               task'[u].stage = "over" \/ UpTo(u, keyChains[k])'
      BY <1>1, <1>4 DEF ChainEnds, UpTo, JoinsBatch
  <2>. QED
      BY <2>1, <2>2 DEF ChainEnds, JoinsBatch
<1>. QED
    BY <1>6, <1>7, <1>8, <1>9, <1>10, <1>11 DEF Order

-----------------------------------------------------------------------------
(***************************************************************************)
(* What the other steps change.                                            *)
(***************************************************************************)

LEMMA ReleasingKeepsOrder ==
    ASSUME IInv, arrived' = arrived, cancelled' = cancelled,
           keyChains' = keyChains,
           \A u \in Messages : /\ task'[u].stage = task[u].stage
                               /\ task'[u].items = task[u].items
                               /\ task'[u].previous = task[u].previous
                               /\ task'[u].inChain = task[u].inChain
    PROVE  Order'
<1>. USE DEF IInv
<1>1. Arrived' = Arrived /\ \A m, n : Before(m, n)' <=> Before(m, n)
    BY NobodyArrives
<1>2. \A u \in Messages : InChain(u)' <=> InChain(u)
    BY DEF InChain
<1>3. \A u, m \in Messages : Holds(u, m)' <=> Holds(u, m)
    BY DEF Holds
<1>4. ItemsBelong' /\ ItemsInOrder' /\ BatchesInOrder'
  <2>1. ItemsBelong'
    <3>1. Arrived \subseteq Messages
        BY ArrivedAreMessages
    <3>. QED
        BY <1>1, <1>3, <3>1 DEF ItemsBelong
  <2>2. ItemsInOrder'
      BY <1>1 DEF ItemsInOrder
  <2>3. BatchesInOrder'
      BY <1>1, <1>3 DEF BatchesInOrder
  <2>. QED
      BY <2>1, <2>2, <2>3
<1>5. ASSUME NEW u \in Messages
      PROVE  Links(u)' /\ OldOnesAreOver(u)'
  <2>1. task[u].stage # "none" => task[u].previous \in Messages \cup {None}
      BY DEF TypeOK, Task
  <2>2. Links(u) /\ OldOnesAreOver(u)
      OBVIOUS
  <2>3. OldOnesAreOver(u)'
      BY <1>1, <1>2, <2>2 DEF OldOnesAreOver
  <2>4. Links(u)'
      BY <1>1, <1>2, <2>1, <2>2 DEF Links, UpTo
  <2>. QED
      BY <2>3, <2>4
<1>6. ASSUME NEW k \in Keys
      PROVE  ChainEnds(k)'
    BY <1>1, <1>2 DEF ChainEnds, UpTo, TypeOK
<1>. QED
    BY <1>4, <1>5, <1>6 DEF Order

LEMMA CancellingKeepsOrder ==
    ASSUME IInv, NEW b \in Messages, arrived' = arrived,
           cancelled' = cancelled \cup Range(task[b].items),
           keyChains' = keyChains,
           task'[b].items = <<>>,
           \A u \in Messages \ {b} : task'[u].items = task[u].items,
           \A u \in Messages : /\ task'[u].stage = task[u].stage
                               /\ task'[u].previous = task[u].previous
                               /\ task'[u].inChain = task[u].inChain
    PROVE  Order'
<1>. USE DEF IInv
<1>1. Arrived' = Arrived /\ \A m, n : Before(m, n)' <=> Before(m, n)
    BY NobodyArrives
<1>2. \A u \in Messages : InChain(u)' <=> InChain(u)
    BY DEF InChain
<1>3. \A u, m \in Messages : Holds(u, m)' <=> Holds(u, m) /\ u # b
    BY RangeOfOne DEF Holds
<1>4. \A m \in Messages : m \in cancelled' <=> m \in cancelled \/ Holds(b, m)
    BY DEF Holds
<1>5. ItemsBelong'
  <2>1. \A u \in Messages : task'[u].stage = "none" => task'[u].items = <<>>
      BY DEF ItemsBelong
  <2>2. \A u, m \in Messages :
           Holds(u, m)' => m \in (Arrived \ cancelled)' /\ KeyOf[m] = KeyOf[u]
      BY <1>1, <1>3, <1>4 DEF ItemsBelong
  <2>3. \A u, v, m \in Messages : Holds(u, m)' /\ Holds(v, m)' => u = v
      BY <1>3 DEF ItemsBelong
  <2>4. ASSUME NEW m \in (Arrived \ cancelled)'
        PROVE  \E u \in Messages : Holds(u, m)'
    <3>1. m \in Messages /\ m \in Arrived \ cancelled /\ ~Holds(b, m)
        BY <1>1, <1>4, <2>4, ArrivedAreMessages
    <3>. QED
        BY <1>3, <3>1 DEF ItemsBelong
  <2>5. (cancelled \subseteq Arrived)'
    <3>1. \A m \in Range(task[b].items) : m \in Messages
        BY DEF TypeOK, Task, Range
    <3>. QED
        BY <1>1, <3>1, CancelledHaveArrived DEF ItemsBelong, Holds
  <2>. QED
      BY <2>1, <2>2, <2>3, <2>4, <2>5 DEF ItemsBelong
<1>6. ItemsInOrder'
  <2>1. SUFFICES ASSUME NEW u \in Messages, NEW i \in DOMAIN task[u].items',
                        NEW j \in DOMAIN task[u].items', i < j
                 PROVE  Before(task[u].items[i], task[u].items[j])'
      BY DEF ItemsInOrder
  <2>2. u # b
      BY <2>1
  <2>3. task'[u].items = task[u].items
      BY <2>2
  <2>. QED
      BY <1>1, <2>1, <2>3 DEF ItemsInOrder
<1>7. BatchesInOrder'
    BY <1>1, <1>3 DEF BatchesInOrder
<1>8. ASSUME NEW u \in Messages
      PROVE  Links(u)' /\ OldOnesAreOver(u)'
  <2>1. task[u].stage # "none" => task[u].previous \in Messages \cup {None}
      BY DEF TypeOK, Task
  <2>2. Links(u) /\ OldOnesAreOver(u)
      OBVIOUS
  <2>3. OldOnesAreOver(u)'
      BY <1>1, <1>2, <2>2 DEF OldOnesAreOver
  <2>4. Links(u)'
      BY <1>1, <1>2, <2>1, <2>2 DEF Links, UpTo
  <2>. QED
      BY <2>3, <2>4
<1>9. ASSUME NEW k \in Keys
      PROVE  ChainEnds(k)'
    BY <1>1, <1>2 DEF ChainEnds, UpTo, TypeOK
<1>. QED
    BY <1>5, <1>6, <1>7, <1>8, <1>9 DEF Order

\* A task advances: its turn in the chain has come, or it has ended.
Advances(t) ==
    /\ arrived' = arrived
    /\ cancelled' = cancelled
    /\ \/ /\ task[t].stage = "chained"
          /\ IsOver(task[t].previous)
       \/ task[t].stage = "running"
    /\ task'[t].stage \in {"running", "over"}
    /\ \A u \in Messages \ {t} : task'[u].stage = task[u].stage
    /\ \A u \in Messages : /\ task'[u].items = task[u].items
                           /\ task'[u].previous = task[u].previous
                           /\ task'[u].inChain = task[u].inChain
    /\ \A k \in Keys :
         keyChains'[k] = IF task'[t].stage = "over" /\ keyChains[k] = t
                         THEN None ELSE keyChains[k]

LEMMA AdvancingKeepsOrder ==
    ASSUME IInv, NEW t \in Messages, Advances(t)
    PROVE  Order'
<1>. USE MessagesAssumption DEF IInv
<1>1. Arrived' = Arrived /\ \A m, n : Before(m, n)' <=> Before(m, n)
    BY NobodyArrives DEF Advances
<1>2. \A u \in Messages : InChain(u)' <=> InChain(u)
    BY DEF InChain, Advances
<1>3. \A u, m \in Messages : Holds(u, m)' <=> Holds(u, m)
    BY DEF Holds, Advances
<1>4. \A u \in Messages : task[u].stage = "over" => task'[u].stage = "over"
    BY DEF Advances
<1>5. ASSUME NEW u \in Messages, KeyOf[u] = KeyOf[t], InChain(u), Before(u, t)
      PROVE  task[u].stage = "over"
  <2>1. CASE task[t].stage = "running"
      BY <1>5, <2>1 DEF OldOnesAreOver
  <2>2. CASE task[t].stage = "chained" /\ IsOver(task[t].previous)
    <3>0. PICK p : p = task[t].previous
        OBVIOUS
    <3>1. task[u].stage = "over" \/ UpTo(u, p)
        BY <1>5, <2>2, <3>0 DEF Links
    <3>2. p # None => /\ p \in Messages
                      /\ task[p].stage = "over"
                      /\ KeyOf[p] = KeyOf[t]
        BY <2>2, <3>0 DEF IsOver, Links, TypeOK, Task
    <3>3. p # None => OldOnesAreOver(p)
        BY <3>2
    <3>. QED
        BY <1>5, <3>1, <3>2, <3>3 DEF OldOnesAreOver, UpTo
  <2>. QED
      BY <2>1, <2>2 DEF Advances
<1>6. ItemsBelong'
  <2>1. Arrived \subseteq Messages
      BY ArrivedAreMessages
  <2>. QED
      BY <1>1, <1>3, <2>1 DEF ItemsBelong, Advances
<1>7. ItemsInOrder'
    BY <1>1 DEF ItemsInOrder, Advances
<1>8. BatchesInOrder'
    BY <1>1, <1>3 DEF BatchesInOrder
<1>9. ASSUME NEW u \in Messages
      PROVE  OldOnesAreOver(u)'
    BY <1>1, <1>2, <1>4, <1>5 DEF OldOnesAreOver, Advances
<1>10. ASSUME NEW u \in Messages
       PROVE  Links(u)'
  <2>1. task[u].previous \in Messages \cup {None} /\ Links(u)
      BY DEF TypeOK, Task
  <2>2. /\ task'[u].stage = "none" <=> task[u].stage = "none"
        /\ task'[u].stage = "chained" => task[u].stage = "chained"
        /\ task'[u].previous = task[u].previous
        /\ task'[u].inChain = task[u].inChain
      BY DEF Advances
  <2>. QED
      BY <1>1, <1>2, <1>4, <2>1, <2>2 DEF Links, UpTo
<1>11. ASSUME NEW k \in Keys
       PROVE  ChainEnds(k)'
  <2>1. CASE task'[t].stage = "over" /\ keyChains[k] = t
    <3>1. keyChains'[k] = None /\ KeyOf[t] = k
        BY <2>1 DEF Advances, ChainEnds
    <3>2. \A u \in Messages :
             KeyOf[u] = k /\ InChain(u)' => task'[u].stage = "over"
        BY <1>2, <1>4, <1>5, <2>1, <3>1 DEF ChainEnds, UpTo
    <3>. QED
        BY <3>1, <3>2 DEF ChainEnds
  <2>2. CASE ~(task'[t].stage = "over" /\ keyChains[k] = t)
    <3>1. keyChains'[k] = keyChains[k] /\ keyChains[k] \in Messages \cup {None}
        BY <2>2 DEF Advances, TypeOK
    <3>. QED
        BY <1>1, <1>2, <1>4, <3>1 DEF ChainEnds, UpTo
  <2>. QED
      BY <2>1, <2>2
<1>. QED
    BY <1>6, <1>7, <1>8, <1>9, <1>10, <1>11 DEF Order

-----------------------------------------------------------------------------
(***************************************************************************)
(* The invariant.                                                          *)
(***************************************************************************)

LEMMA ArrivingKeepsBuffers ==
    ASSUME IInv, NEW t \in Messages, Enqueue(t)
    PROVE  NewOnesAreUnknown' /\ \A k \in Keys : BufferFills(k)'
<1>. USE MessagesAssumption DEF IInv, TypeOK
<1>1. /\ Arrived' = Arrived \cup {t}
      /\ t \notin Arrived
      /\ \A m, n : Before(m, n)' <=> Before(m, n) \/ (m \in Arrived /\ n = t)
    BY ArrivingIsLast DEF Enqueue, Arrived
<1>2. /\ task[t] = NoTask /\ flushFirst[t] = None
      /\ \A u \in Messages : task[u].stage # "none" => u \in Arrived
      /\ \A k \in Keys : buffers[k] # None => buffers[k] \in Arrived
    BY <1>1 DEF NewOnesAreUnknown, NoTask, BufferFills
<1>3. CASE buffers[KeyOf[t]] # None /\ FlushesBufferFirst(t)
  <2>0. PICK b \in Messages : /\ b = buffers[KeyOf[t]]
                              /\ b # t /\ KeyOf[b] = KeyOf[t]
      BY <1>1, <1>2, <1>3
  <2>1. /\ \A u \in Messages \ {t} :
             /\ task'[u].stage = task[u].stage
             /\ u # b => task'[u] = task[u] /\ flushFirst'[u] = flushFirst[u]
        /\ \A k \in Keys \ {KeyOf[t]} : /\ buffers'[k] = buffers[k]
                                        /\ keyChains'[k] = keyChains[k]
        /\ buffers'[KeyOf[t]] = None
      BY <1>3, <2>0 DEF FlushesBufferFirst, TakesPlaceInChain, Task
  <2>2. NewOnesAreUnknown'
      BY <1>1, <1>2, <2>0, <2>1 DEF NewOnesAreUnknown
  <2>3. ASSUME NEW k \in Keys
        PROVE  BufferFills(k)'
    <3>1. CASE k = KeyOf[t] \/ buffers[k] = None
        BY <2>1, <3>1 DEF BufferFills
    <3>2. CASE k # KeyOf[t] /\ buffers[k] # None
      <4>1. PICK c \in Messages : c = buffers[k] /\ KeyOf[c] = k
          BY <3>2 DEF BufferFills
      <4>2. c # b /\ c # t
          BY <2>0, <3>2, <4>1
      <4>3. /\ keyChains[k] = c /\ task[c].stage = "chained"
            /\ ~task[c].ready /\ flushFirst[c] = None
            /\ \A u \in Messages :
                 u # c /\ KeyOf[u] = k /\ task[u].stage # "none" =>
                     Before(u, c)
          BY <3>2, <4>1 DEF BufferFills
      <4>4. buffers'[k] = c /\ keyChains'[k] = c /\ task'[c] = task[c]
            /\ flushFirst'[c] = None
          BY <2>1, <3>2, <4>1, <4>2, <4>3
      <4>5. ASSUME NEW u \in Messages,
                   u # c, KeyOf[u] = k, task'[u].stage # "none"
            PROVE  Before(u, c)'
        <5>1. task'[u].stage = task[u].stage
            BY <2>1, <3>2, <4>5
        <5>. QED
            BY <1>1, <4>3, <4>5, <5>1
      <4>. QED
          BY <4>1, <4>3, <4>4, <4>5 DEF BufferFills
    <3>. QED
        BY <3>1, <3>2
  <2>. QED
      BY <2>2, <2>3
<1>4. CASE buffers[KeyOf[t]] = None /\ (WaitsItsTurn(t) \/ RunsAtOnce(t))
  <2>1. /\ \A u \in Messages \ {t} : task'[u] = task[u]
        /\ flushFirst' = flushFirst
        /\ buffers' = buffers
        /\ \A k \in Keys \ {KeyOf[t]} : keyChains'[k] = keyChains[k]
    <3>1. CASE WaitsItsTurn(t)
        BY <3>1 DEF WaitsItsTurn, TakesPlaceInChain
    <3>2. CASE RunsAtOnce(t)
        BY <3>2 DEF RunsAtOnce, TakesPlaceInChain
    <3>. QED
        BY <1>4, <3>1, <3>2
  <2>2. NewOnesAreUnknown'
      BY <1>1, <2>1 DEF NewOnesAreUnknown
  <2>3. ASSUME NEW k \in Keys
        PROVE  BufferFills(k)'
    <3>1. CASE buffers[k] = None
        BY <2>1, <3>1 DEF BufferFills
    <3>2. CASE k # KeyOf[t] /\ buffers[k] # None
        BY <1>1, <1>2, <2>1, <3>2 DEF BufferFills
    <3>. QED
        BY <1>4, <3>1, <3>2
  <2>. QED
      BY <2>2, <2>3
<1>5. CASE OpensBuffer(t)
  <2>1. /\ \A u \in Messages \ {t} : task'[u] = task[u]
        /\ task'[t].stage = "chained" /\ task'[t].ready = FALSE
        /\ flushFirst' = flushFirst
        /\ \A k \in Keys \ {KeyOf[t]} : /\ buffers'[k] = buffers[k]
                                        /\ keyChains'[k] = keyChains[k]
        /\ buffers'[KeyOf[t]] = t /\ keyChains'[KeyOf[t]] = t
      BY <1>5 DEF OpensBuffer, TakesPlaceInChain, Chained
  <2>2. NewOnesAreUnknown'
      BY <1>1, <2>1 DEF NewOnesAreUnknown
  <2>3. ASSUME NEW k \in Keys
        PROVE  BufferFills(k)'
    <3>1. CASE k = KeyOf[t]
        BY <1>1, <1>2, <2>1, <3>1 DEF BufferFills
    <3>2. CASE k # KeyOf[t]
        BY <1>1, <1>2, <2>1, <3>2 DEF BufferFills
    <3>. QED
        BY <3>1, <3>2
  <2>. QED
      BY <2>2, <2>3
<1>6. CASE buffers[KeyOf[t]] # None /\ JoinsBuffer(t)
  <2>0. PICK b \in Messages : b = buffers[KeyOf[t]] /\ b \in Arrived
      BY <1>1, <1>2, <1>6
  <2>1. /\ \A u \in Messages : /\ task'[u].stage = task[u].stage
                               /\ task'[u].ready = task[u].ready
                               /\ u # b => task'[u] = task[u]
        /\ flushFirst' = flushFirst
        /\ buffers' = buffers /\ keyChains' = keyChains
      BY <1>6, <2>0 DEF JoinsBuffer, Task
  <2>2. NewOnesAreUnknown'
      BY <1>1, <2>0, <2>1 DEF NewOnesAreUnknown
  <2>3. ASSUME NEW k \in Keys
        PROVE  BufferFills(k)'
    <3>1. \A u \in Messages : Before(u, buffers[k]) => Before(u, buffers[k])'
        BY <1>1, <2>1
    <3>2. buffers[k] # None => buffers[k] \in Messages
        OBVIOUS
    <3>. QED
        BY <2>1, <3>1, <3>2 DEF BufferFills
  <2>. QED
      BY <2>2, <2>3
<1>. QED
    BY <1>3, <1>4, <1>5, <1>6
       DEF Enqueue, EnqueueImmediate, EnqueueDebounced

LEMMA IInvStep ==
    ASSUME IInv, [Next]_vars
    PROVE  IInv'
<1>. USE MessagesAssumption
<1>0. TypeOK /\ TypeOK' /\ ArrivedOnce /\ NewOnesAreUnknown
    BY TypeStep DEF IInv
<1>1. SUFFICES /\ ArrivedOnce' /\ Order' /\ NewOnesAreUnknown'
               /\ \A k \in Keys : BufferFills(k)'
    BY <1>0 DEF IInv, Order
<1>2. ASSUME NEW t \in Messages, Enqueue(t)
      PROVE  /\ ArrivedOnce' /\ Order' /\ NewOnesAreUnknown'
             /\ \A k \in Keys : BufferFills(k)'
  <2>1. Order'
      BY <1>2, ArrivingMakesATaskOrJoins, OwnTasksKeepOrder, JoiningKeepsOrder
  <2>2. ArrivedOnce'
      BY <1>0, <1>2, ArrivingIsLast DEF Enqueue, Arrived
  <2>. QED
      BY <1>2, <2>1, <2>2, ArrivingKeepsBuffers
<1>3. ASSUME arrived' = arrived
      PROVE  /\ ArrivedOnce' /\ Arrived' = Arrived
             /\ \A m, n : Before(m, n)' <=> Before(m, n)
    BY <1>0, <1>3, NobodyArrives
<1>4. ASSUME NEW t \in Messages, ReservedTaskIsReleased(t)
      PROVE  /\ ArrivedOnce' /\ Order' /\ NewOnesAreUnknown'
             /\ \A k \in Keys : BufferFills(k)'
  <2>. USE <1>4 DEF ReservedTaskIsReleased
  <2>1. /\ \A u \in Messages : /\ task'[u].stage = task[u].stage
                               /\ task'[u].items = task[u].items
                               /\ task'[u].previous = task[u].previous
                               /\ task'[u].inChain = task[u].inChain
        /\ \A u \in Messages \ {t} :
             task'[u] = task[u] /\ flushFirst'[u] = flushFirst[u]
      BY <1>0 DEF TypeOK, Task
  <2>2. Order'
      BY <2>1, ReleasingKeepsOrder
  <2>3. NewOnesAreUnknown'
      BY <1>0, <1>3, <2>1 DEF NewOnesAreUnknown
  <2>4. ASSUME NEW k \in Keys
        PROVE  BufferFills(k)'
      BY <1>0, <1>3, <2>1 DEF IInv, TypeOK, BufferFills
  <2>. QED
      BY <1>3, <2>2, <2>3, <2>4
<1>5. ASSUME NEW t \in Messages, Advances(t),
             buffers' = buffers, flushFirst' = flushFirst,
             \A u \in Messages : task'[u].ready = task[u].ready,
             \A u \in Messages \ {t} : task'[u] = task[u],
             task[t].stage = "chained" => task[t].ready
      PROVE  /\ ArrivedOnce' /\ Order' /\ NewOnesAreUnknown'
             /\ \A k \in Keys : BufferFills(k)'
  <2>1. Order'
      BY <1>5, AdvancingKeepsOrder
  <2>2. NewOnesAreUnknown'
    <3>1. t \in Arrived
        BY <1>0, <1>5 DEF NewOnesAreUnknown, Advances, NoTask
    <3>2. arrived' = arrived
        BY <1>5 DEF Advances
    <3>. QED
        BY <1>0, <1>3, <1>5, <3>1, <3>2 DEF NewOnesAreUnknown
  <2>3. ASSUME NEW k \in Keys
        PROVE  BufferFills(k)'
    <3>1. CASE buffers[k] = None
        BY <1>5, <3>1 DEF BufferFills
    <3>2. CASE buffers[k] # None
      <4>1. buffers[k] \in Messages /\ buffers[k] # t
          BY <1>0, <1>5, <3>2 DEF IInv, TypeOK, BufferFills, Advances
      <4>2. \A u \in Messages :
               task'[u].stage = "none" <=> task[u].stage = "none"
          BY <1>5 DEF Advances
      <4>3. keyChains'[k] = keyChains[k] \/ keyChains[k] = t
          BY <1>5 DEF Advances
      <4>. QED
          BY <1>3, <1>5, <3>2, <4>1, <4>2, <4>3 DEF IInv, BufferFills, Advances
    <3>. QED
        BY <3>1, <3>2
  <2>. QED
      BY <1>3, <1>5, <2>1, <2>2, <2>3 DEF Advances
<1>6. ASSUME NEW t \in Messages, TaskBegins(t)
      PROVE  /\ ArrivedOnce' /\ Order' /\ NewOnesAreUnknown'
             /\ \A k \in Keys : BufferFills(k)'
  <2>1. CASE task[t].items = <<>>
    <3>1. /\ task' = [task EXCEPT ![t].stage = "over"]
          /\ keyChains' = [keyChains EXCEPT ![KeyOf[t]] =
                             IF @ = t THEN None ELSE @]
        BY <1>6, <2>1 DEF TaskBegins, Cleanup
    <3>2. \A k \in Keys : keyChains[k] = t => KeyOf[t] = k
        BY DEF IInv, ChainEnds
    <3>3. \A k \in Keys : keyChains'[k] = IF keyChains[k] = t THEN None
                                                             ELSE keyChains[k]
        BY <1>0, <3>1, <3>2 DEF TypeOK
    <3>4. Advances(t)
        BY <1>0, <1>6, <3>1, <3>3 DEF TaskBegins, Advances, TypeOK, Task
    <3>. QED
        BY <1>0, <1>5, <1>6, <3>1, <3>4 DEF TaskBegins, TypeOK, Task
  <2>2. CASE task[t].items # <<>>
    <3>1. /\ task' = [task EXCEPT ![t].stage = "running"]
          /\ keyChains' = keyChains
        BY <1>6, <2>2 DEF TaskBegins
    <3>2. Advances(t)
        BY <1>0, <1>6, <3>1 DEF TaskBegins, Advances, TypeOK, Task
    <3>. QED
        BY <1>0, <1>5, <1>6, <3>1, <3>2 DEF TaskBegins, TypeOK, Task
  <2>. QED
      BY <2>1, <2>2
<1>7. ASSUME NEW t \in Messages, FlushEnds(t)
      PROVE  /\ ArrivedOnce' /\ Order' /\ NewOnesAreUnknown'
             /\ \A k \in Keys : BufferFills(k)'
  <2>1. /\ task' = [task EXCEPT ![t].stage = "over"]
        /\ keyChains' = [keyChains EXCEPT ![KeyOf[t]] =
                           IF @ = t THEN None ELSE @]
      BY <1>7 DEF FlushEnds, Cleanup
  <2>2. \A k \in Keys : keyChains[k] = t => KeyOf[t] = k
      BY DEF IInv, ChainEnds
  <2>3. \A k \in Keys : keyChains'[k] = IF keyChains[k] = t THEN None
                                                           ELSE keyChains[k]
      BY <1>0, <2>1, <2>2 DEF TypeOK
  <2>4. Advances(t)
      BY <1>0, <1>7, <2>1, <2>3 DEF FlushEnds, Advances, TypeOK, Task
  <2>5. \A u \in Messages : task'[u].ready = task[u].ready
      BY <1>0, <2>1 DEF TypeOK, Task
  <2>6. \A u \in Messages \ {t} : task'[u] = task[u]
      BY <1>0, <2>1 DEF TypeOK
  <2>7. /\ task[t].stage # "chained"
        /\ buffers' = buffers /\ flushFirst' = flushFirst
      BY <1>7 DEF FlushEnds
  <2>. QED
      BY <1>5, <2>4, <2>5, <2>6, <2>7
<1>8. ASSUME NEW k \in Keys, NEW b \in Messages, b = buffers[k],
             \/ FlushBuffer(k) \/ CancelKey(k)
      PROVE  /\ ArrivedOnce' /\ Order' /\ NewOnesAreUnknown'
             /\ \A l \in Keys : BufferFills(l)'
  <2>0. b # None
      BY <1>8
  <2>1. /\ arrived' = arrived /\ keyChains' = keyChains
        /\ flushFirst' = flushFirst
        /\ buffers' = [buffers EXCEPT ![k] = None]
        /\ \A u \in Messages : /\ task'[u].stage = task[u].stage
                               /\ task'[u].previous = task[u].previous
                               /\ task'[u].inChain = task[u].inChain
        /\ \A u \in Messages \ {b} : task'[u] = task[u]
    <3>1. CASE FlushBuffer(k)
        BY <1>0, <1>8, <3>1 DEF FlushBuffer, TypeOK, Task
    <3>2. CASE CancelKey(k)
        BY <1>0, <1>8, <3>2 DEF CancelKey, TypeOK, Task
    <3>. QED
        BY <1>8, <3>1, <3>2
  <2>2. Order'
    <3>1. CASE FlushBuffer(k)
      <4>1. cancelled' = cancelled
            /\ \A u \in Messages : task'[u].items = task[u].items
          BY <1>0, <1>8, <3>1 DEF FlushBuffer, TypeOK, Task
      <4>. QED
          BY <2>1, <4>1, ReleasingKeepsOrder
    <3>2. CASE CancelKey(k)
      <4>1. /\ cancelled' = cancelled \cup Range(task[b].items)
            /\ task'[b].items = <<>>
          BY <1>0, <1>8, <3>2 DEF CancelKey, TypeOK, Task
      <4>2. \A u \in Messages \ {b} : task'[u].items = task[u].items
          BY <2>1
      <4>. QED
          BY <2>1, <4>1, <4>2, CancellingKeepsOrder
    <3>. QED
        BY <1>8, <3>1, <3>2
  <2>3. b \in Arrived
      BY <1>0, <1>8, <2>0 DEF IInv, BufferFills, NewOnesAreUnknown, NoTask
  <2>4. NewOnesAreUnknown'
      BY <1>0, <1>3, <2>1, <2>3 DEF NewOnesAreUnknown
  <2>5. ASSUME NEW l \in Keys
        PROVE  BufferFills(l)'
    <3>1. CASE l = k
        BY <1>0, <2>1, <3>1 DEF BufferFills, TypeOK
    <3>2. CASE l # k
        BY SMTT(30), <1>0, <1>3, <1>8, <2>0, <2>1, <3>2 DEF IInv, BufferFills, TypeOK
    <3>. QED
        BY <3>1, <3>2
  <2>. QED
      BY <1>3, <2>1, <2>2, <2>4, <2>5
<1>9. CASE UNCHANGED vars
  <2>1. Order'
      BY <1>9, ReleasingKeepsOrder DEF vars
  <2>2. NewOnesAreUnknown'
      BY <1>0, <1>3, <1>9 DEF vars, NewOnesAreUnknown
  <2>3. ASSUME NEW k \in Keys
        PROVE  BufferFills(k)'
      BY <1>3, <1>9 DEF vars, IInv, BufferFills
  <2>. QED
      BY <1>3, <1>9, <2>1, <2>2, <2>3 DEF vars
<1>10. \A k \in Keys : FlushBuffer(k) \/ CancelKey(k) => buffers[k] \in Messages
    BY <1>0 DEF FlushBuffer, CancelKey, TypeOK
<1>. QED
    BY <1>2, <1>4, <1>6, <1>7, <1>8, <1>9, <1>10 DEF Next

LEMMA IInvInit ==
    ASSUME Init
    PROVE  IInv
<1>1. /\ Range(arrived) = {}
      /\ \A t \in Messages : task[t].stage = "none" /\ task[t].items = <<>>
    BY RangeOfOne DEF Init, NoTask
<1>2. ArrivedOnce /\ NewOnesAreUnknown
    BY DEF Init, ArrivedOnce, NewOnesAreUnknown
<1>3. ItemsBelong /\ ItemsInOrder /\ BatchesInOrder
    BY <1>1, RangeOfOne
       DEF Init, ItemsBelong, ItemsInOrder, BatchesInOrder, Arrived, Holds
<1>4. \A t \in Messages : Links(t) /\ OldOnesAreOver(t)
    BY <1>1 DEF Links, OldOnesAreOver
<1>5. \A k \in Keys : ChainEnds(k) /\ BufferFills(k)
    BY <1>1 DEF Init, ChainEnds, BufferFills, InChain
<1>. QED
    BY <1>2, <1>3, <1>4, <1>5, TypeInit DEF IInv

-----------------------------------------------------------------------------
(***************************************************************************)
(* The theorems.                                                           *)
(***************************************************************************)

LEMMA IInvHolds == Spec => []IInv
<1>1. IInv /\ [Next]_vars => IInv'
    BY IInvStep
<1>. QED
    BY <1>1, IInvInit, PTL DEF Spec

\* The batches of a conversation do not overlap, but for messages that found
\* nothing before them and are not serialized.
THEOREM FlushesTakeTurns == Spec => []FlushesDoNotOverlap
<1>1. ASSUME IInv
      PROVE  FlushesDoNotOverlap
  <2>1. SUFFICES ASSUME NEW t \in Messages, NEW u \in Messages, t # u,
                        KeyOf[t] = KeyOf[u],
                        task[t].stage = "running", task[u].stage = "running",
                        task[t].inChain, task[u].inChain
                 PROVE  FALSE
      BY DEF FlushesDoNotOverlap
  <2>2. t \in Arrived /\ u \in Arrived
      BY <1>1, <2>1 DEF IInv, NewOnesAreUnknown, NoTask
  <2>3. Before(t, u) \/ Before(u, t)
      BY <1>1, <2>1, <2>2, ArrivalIsAnOrder DEF IInv
  <2>. QED
      BY <1>1, <2>1, <2>3 DEF IInv, OldOnesAreOver, InChain
<1>. QED
    BY <1>1, IInvHolds, PTL

\* A message that has arrived is in exactly one batch or has been cancelled,
\* and joins no batch that is on its way.
THEOREM MessagesAreHandedOnOnce == Spec => []HandedOnOnce
<1>1. ASSUME IInv
      PROVE  HandedOnOnce
  <2>1. ASSUME NEW m \in Range(arrived)
        PROVE  Cardinality({ t \in Messages : m \in Range(task[t].items) })
               = IF m \in cancelled THEN 0 ELSE 1
    <3>. DEFINE B == { t \in Messages : m \in Range(task[t].items) }
    <3>1. m \in Arrived /\ m \in Messages
        BY <1>1, <2>1, ArrivedAreMessages DEF IInv, Arrived
    <3>2. CASE m \in cancelled
      <4>1. B = {}
          BY <1>1, <3>1, <3>2 DEF IInv, ItemsBelong, Holds
      <4>. QED
          BY <3>2, <4>1, FS_EmptySet
    <3>3. CASE m \notin cancelled
      <4>1. PICK t \in Messages : Holds(t, m)
          BY <1>1, <3>1, <3>3 DEF IInv, ItemsBelong
      <4>2. B = {t}
          BY <1>1, <3>1, <4>1 DEF IInv, ItemsBelong, Holds
      <4>. QED
          BY <3>3, <4>2, FS_Singleton
    <3>. QED
        BY <3>2, <3>3
  <2>2. \A k \in Keys : buffers[k] # None => ~task[buffers[k]].ready
      BY <1>1 DEF IInv, BufferFills
  <2>. QED
      BY <2>1, <2>2 DEF HandedOnOnce
<1>. QED
    BY <1>1, IInvHolds, PTL

\* Messages of one conversation are handed on in the order of their arrival.
THEOREM MessagesStayInOrder == Spec => []HandedOnInOrder
<1>1. ASSUME IInv
      PROVE  HandedOnInOrder
  <2>1. ASSUME NEW m \in Messages, NEW n \in Messages,
               Before(m, n), KeyOf[m] = KeyOf[n], Begun(n), m \notin cancelled
        PROVE  Begun(m)
    <3>1. PICK u \in Messages :
              task[u].stage \in {"running", "over"} /\ Holds(u, n)
        BY <2>1 DEF Begun, Holds
    <3>2. m \in Arrived
        BY <2>1, BeforeIsOfArrived
    <3>3. PICK t \in Messages : Holds(t, m)
        BY <1>1, <2>1, <3>2 DEF IInv, ItemsBelong
    <3>4. KeyOf[t] = KeyOf[u] /\ task[t].stage # "none"
        BY <1>1, <2>1, <3>1, <3>3, HoldersExist DEF IInv, ItemsBelong
    <3>5. CASE t = u
        BY <3>1, <3>3, <3>5 DEF Begun, Holds
    <3>6. CASE t # u
      <4>1. Before(t, u)
          BY <1>1, <2>1, <3>1, <3>3, <3>4, <3>6 DEF IInv, BatchesInOrder
      <4>2. task[t].stage \in {"running", "over"}
        <5>1. CASE task[t].inChain
            BY <1>1, <3>1, <3>4, <4>1, <5>1
               DEF IInv, OldOnesAreOver, InChain
        <5>2. CASE ~task[t].inChain
            BY <1>1, <3>4, <5>2 DEF IInv, Links, TypeOK, Task, Stages
        <5>. QED
            BY <5>1, <5>2
      <4>. QED
          BY <3>3, <4>2 DEF Begun, Holds
    <3>. QED
        BY <3>5, <3>6
  <2>. QED
      BY <1>1, <2>1 DEF HandedOnInOrder, IInv, ItemsInOrder
<1>. QED
    BY <1>1, IInvHolds, PTL
=============================================================================
