-------------------------- MODULE ContainerProofs --------------------------
(* Theorems about the containers that one caller uses at a time.             *)
(*                                                                           *)
(* MutexQueue, for any values, any sizes and any number of operations        *)
(* (MaxTail is any number): the circular array implements the bounded FIFO   *)
(* queue, and its storages are constructed exactly while they hold an        *)
(* element.                                                                  *)
(*                                                                           *)
(* MutexBst, for any keys and any sizes: the sorted list, the pool and the   *)
(* stack of free indexes agree, and together they implement a set of keys.   *)
(*                                                                           *)
(* QueueObjects, for any number of queues of both kinds, any memory          *)
(* resources and any sizes: what a queue was given survives every move,      *)
(* growth and shrinking, and nothing else does.                              *)
EXTENDS MutexQueue, MutexBst, QueueObjects, SequenceTheorems, FiniteSetTheorems, TLAPS

-----------------------------------------------------------------------------
(* Positions: counters that are less than a lap apart share no storage.      *)

LEMMA ModRange ==
  ASSUME NEW c \in Nat \ {0}, NEW k \in Nat
  PROVE  k % c \in 0..(c - 1)
OBVIOUS

LEMMA ModDistinct ==
  ASSUME NEW c \in Nat \ {0}, NEW k \in Nat, NEW l \in Nat,
         k <= l, l - k < c, k % c = l % c
  PROVE  k = l
<1>1. k = c * (k \div c) + (k % c) /\ l = c * (l \div c) + (l % c)
  OBVIOUS
<1>2. k \div c \in Int /\ l \div c \in Int
  OBVIOUS
<1>3. l - k = c * ((l \div c) - (k \div c))
  BY <1>1, <1>2
<1>4. CASE (l \div c) - (k \div c) <= 0
  BY <1>1, <1>2, <1>3, <1>4
<1>5. CASE (l \div c) - (k \div c) >= 1
  BY <1>2, <1>3, <1>5
<1> QED
  BY <1>2, <1>4, <1>5

-----------------------------------------------------------------------------
(* The inductive invariant: types, and which storages hold a value.          *)

QueueInv == queueTypeOK /\ StoragesMatch

\* The size that setCapacity() and the constructor make of their argument.
LEMMA LowestType ==
  ASSUME NEW c \in QueueSizes
  PROVE  Lowest(c) \in Nat \ {0}
BY QueueAssumption DEF Lowest

LEMMA InitInv == queueInit => QueueInv
<1> SUFFICES ASSUME queueInit PROVE QueueInv
  OBVIOUS
<1>1. capacity \in Nat \ {0}
  BY LowestType DEF queueInit
<1> QED
  BY <1>1 DEF queueInit, QueueInv, queueTypeOK, StoragesMatch, Held, Index

\* While there is room the storage of the tail holds nothing.
LEMMA TailIsFree ==
  ASSUME queueTypeOK, tail - head < capacity
  PROVE  Index(tail) \in 0..(capacity - 1) /\ Index(tail) \notin Held
<1>1. Index(tail) \in 0..(capacity - 1)
  BY ModRange DEF queueTypeOK, Index
<1>2. ASSUME NEW k \in head..(tail - 1), Index(k) = Index(tail) PROVE FALSE
  <2>1. k \in Nat /\ k <= tail /\ tail - k < capacity /\ k # tail
    BY <1>2 DEF queueTypeOK
  <2> QED
    BY <1>2, <2>1, ModDistinct DEF queueTypeOK, Index
<1> QED
  BY <1>1, <1>2 DEF Held

LEMMA EnqueueInv ==
  ASSUME QueueInv, NEW v \in Values, Enqueue(v)
  PROVE  QueueInv'
<1> USE DEF QueueInv
<1>1. CASE capacity <= distance
  BY <1>1 DEF Enqueue, queueTypeOK, StoragesMatch, Held, Index
<1>2. CASE ~(capacity <= distance)
  <2>1. /\ tail' = tail + 1 /\ head' = head /\ capacity' = capacity
        /\ elements' = [elements EXCEPT ![Index(tail)] = v]
    BY <1>2 DEF Enqueue
  <2>2. tail - head < capacity
    BY <1>2 DEF distance, queueTypeOK
  <2>3. Index(tail) \in 0..(capacity - 1) /\ v # None
    BY <2>2, TailIsFree, QueueAssumption
  <2>4. queueTypeOK'
    BY <2>1, <2>2, <2>3 DEF queueTypeOK
  <2>5. Held' = Held \cup {Index(tail)}
    <3>1. \A k \in Nat : Index(k)' = Index(k)
      BY <2>1 DEF Index
    <3>2. head'..(tail' - 1) = (head..(tail - 1)) \cup {tail}
      BY <2>1 DEF queueTypeOK
    <3>3. \A k \in head'..(tail' - 1) : k \in Nat
      BY <2>1 DEF queueTypeOK
    <3> QED
      BY <3>1, <3>2, <3>3 DEF Held, queueTypeOK
  <2>6. StoragesMatch'
    BY <2>1, <2>3, <2>5 DEF StoragesMatch, queueTypeOK
  <2> QED
    BY <2>4, <2>6
<1> QED
  BY <1>1, <1>2

\* No other element lies in the storage of the head.
LEMMA HeadIsAlone ==
  ASSUME queueTypeOK, NEW k \in Nat, head < k, k - head < capacity
  PROVE  Index(k) # Index(head)
<1>1. capacity \in Nat \ {0} /\ head \in Nat /\ head <= k /\ k # head
  BY DEF queueTypeOK
<1> QED
  BY <1>1, ModDistinct DEF Index

LEMMA DequeueInv ==
  ASSUME QueueInv, Dequeue
  PROVE  QueueInv'
<1> USE DEF QueueInv
<1>1. CASE ~(head < tail)
  BY <1>1 DEF Dequeue, queueTypeOK, StoragesMatch, Held, Index
<1>2. CASE head < tail
  <2>1. /\ head' = head + 1 /\ tail' = tail /\ capacity' = capacity
        /\ elements' = [elements EXCEPT ![Index(head)] = None]
    BY <1>2 DEF Dequeue
  <2>2. Index(head) \in 0..(capacity - 1)
    BY ModRange DEF queueTypeOK, Index
  <2>3. queueTypeOK'
    BY <1>2, <2>1, <2>2 DEF queueTypeOK
  <2>4. ASSUME NEW k \in (head + 1)..(tail - 1) PROVE Index(k) # Index(head)
    <3>1. head < k /\ k - head < capacity /\ k \in Nat
      BY DEF queueTypeOK
    <3> QED
      BY <3>1, HeadIsAlone
  <2>5. Held' = Held \ {Index(head)}
    <3>1. \A k \in Nat : Index(k)' = Index(k)
      BY <2>1 DEF Index
    <3>2. head..(tail - 1) = ((head + 1)..(tail - 1)) \cup {head}
      BY <1>2 DEF queueTypeOK
    <3>3. \A k \in (head + 1)..(tail - 1) : k \in Nat
      BY DEF queueTypeOK
    <3>4. Held' = {Index(k) : k \in (head + 1)..(tail - 1)}
      BY <2>1, <3>1, <3>3 DEF Held
    <3> QED
      BY <2>4, <3>2, <3>4 DEF Held
  <2>6. StoragesMatch'
    BY <2>1, <2>2, <2>5 DEF StoragesMatch, queueTypeOK
  <2> QED
    BY <2>3, <2>6
<1> QED
  BY <1>1, <1>2

\* clear() destroys exactly what is held, and so leaves nothing.
LEMMA ClearedIsEmpty ==
  ASSUME QueueInv
  PROVE  Cleared = [i \in 0..(capacity - 1) |-> None]
BY DEF QueueInv, queueTypeOK, StoragesMatch, Cleared

LEMMA ClearInv ==
  ASSUME QueueInv, Clear
  PROVE  QueueInv'
<1>1. elements' = [i \in 0..(capacity - 1) |-> None] /\ head' = 0 /\ tail' = 0 /\ capacity' = capacity
  BY ClearedIsEmpty DEF Clear
<1>2. Held' = {}
  BY <1>1 DEF Held
<1> QED
  BY <1>1, <1>2 DEF QueueInv, queueTypeOK, StoragesMatch

LEMMA SetCapacityInv ==
  ASSUME QueueInv, NEW c \in QueueSizes, SetCapacity(c)
  PROVE  QueueInv'
<1>1. Lowest(c) \in Nat \ {0}
  BY LowestType
<1>2. /\ capacity' = Lowest(c) /\ head' = 0 /\ tail' = 0
      /\ elements' = [i \in 0..(Lowest(c) - 1) |-> None]
  BY <1>1, ClearedIsEmpty DEF SetCapacity, QueueInv, queueTypeOK
<1>3. Held' = {}
  BY <1>2 DEF Held
<1> QED
  BY <1>1, <1>2, <1>3 DEF QueueInv, queueTypeOK, StoragesMatch

LEMMA NextInv ==
  ASSUME QueueInv, [queueNext]_queueVars
  PROVE  QueueInv'
<1>1. CASE UNCHANGED queueVars
  BY <1>1 DEF queueVars, QueueInv, queueTypeOK, StoragesMatch, Held, Index
<1> QED
  BY <1>1, EnqueueInv, DequeueInv, ClearInv, SetCapacityInv DEF queueNext

LEMMA AlwaysInv == queueSpec => []QueueInv
BY InitInv, NextInv, PTL DEF queueSpec

\* Every storage of the array is constructed exactly while it holds an element
\* of the queue, whatever the sequence of enqueue, dequeue, clear and
\* setCapacity (mutex_queue-inl.hpp).
THEOREM StoragesAreUsedOnce == queueSpec => []StoragesMatch
<1>1. QueueInv => StoragesMatch
  BY DEF QueueInv
<1> QED
  BY <1>1, AlwaysInv, PTL

-----------------------------------------------------------------------------
(* The refinement: Contents is the queue of BoundedFifo.                     *)

ContentsOK ==
  /\ distance \in Nat /\ distance <= capacity
  /\ Contents \in Seq(Values) /\ Len(Contents) = distance
  /\ DOMAIN Contents = 1..distance
  /\ \A i \in 1..distance : Contents[i] = elements[Index(head + i - 1)]
  /\ head = tail => Contents = <<>>

LEMMA ContentsType ==
  ASSUME QueueInv
  PROVE  ContentsOK
<1>1. distance \in Nat /\ distance <= capacity
  BY DEF QueueInv, queueTypeOK, distance
<1>2. ASSUME NEW i \in 1..distance PROVE elements[Index(head + i - 1)] \in Values
  <2>1. head + i - 1 \in head..(tail - 1) /\ head + i - 1 \in Nat
    BY DEF QueueInv, queueTypeOK, distance
  <2>2. Index(head + i - 1) \in 0..(capacity - 1)
    BY <2>1, ModRange DEF QueueInv, queueTypeOK, Index
  <2>3. Index(head + i - 1) \in Held
    BY <2>1 DEF Held
  <2> QED
    BY <2>2, <2>3 DEF QueueInv, queueTypeOK, StoragesMatch
<1>3. Contents \in [1..distance -> Values]
  BY <1>2 DEF Contents
<1>4. Contents \in Seq(Values)
  BY <1>1, <1>3, SeqDef
<1>5. DOMAIN Contents = 1..distance /\ Len(Contents) = distance
  BY <1>1, <1>3, <1>4, LenProperties
<1>6. head = tail => Contents = <<>>
  BY <1>4, <1>5, EmptySeq DEF QueueInv, queueTypeOK, distance
<1> QED
  BY <1>1, <1>4, <1>5, <1>6 DEF ContentsOK, Contents

\* The same of the next state.
LEMMA ContentsTypeNext == QueueInv' => ContentsOK'
<1>1. QueueInv => ContentsOK
  BY ContentsType
<1> QED
  BY <1>1, PTL

LEMMA InitRefines == queueInit => Fifo!fifoInit
<1> SUFFICES ASSUME queueInit PROVE Fifo!fifoInit
  OBVIOUS
<1>1. Contents = <<>>
  BY InitInv, ContentsType DEF queueInit, ContentsOK
<1> QED
  BY <1>1 DEF queueInit, Fifo!fifoInit, Fifo!AtLeastOne, Fifo!Nothing, Lowest, Reported, Nothing

LEMMA EnqueueRefines ==
  ASSUME QueueInv, NEW v \in Values, Enqueue(v)
  PROVE  Fifo!Put(v)
<1> USE DEF Fifo!Put, Fifo!Stored, Fifo!Refused
<1>1. Len(Contents) = distance /\ distance \in Nat /\ capacity \in Nat
  BY ContentsType DEF QueueInv, queueTypeOK, ContentsOK
<1>2. CASE capacity <= distance
  <2>1. answer' = Refused(v) /\ UNCHANGED <<elements, tail, capacity, head>>
    BY <1>2 DEF Enqueue
  <2>2. Contents' = Contents
    BY <2>1 DEF Contents, distance, Index
  <2>3. Reported' = Refused(v)
    BY <2>1 DEF Reported, Refused
  <2> QED
    BY <1>1, <1>2, <2>1, <2>2, <2>3 DEF Refused
<1>3. CASE ~(capacity <= distance)
  <2>1. /\ tail' = tail + 1 /\ head' = head /\ capacity' = capacity
        /\ elements' = [elements EXCEPT ![Index(tail)] = v]
        /\ answer' = Stored(Index(tail))
    BY <1>3 DEF Enqueue
  <2>2. QueueInv' /\ distance' = distance + 1
    BY <2>1, EnqueueInv DEF distance, QueueInv, queueTypeOK
  <2>3. Index(tail) \in 0..(capacity - 1)
    BY ModRange DEF QueueInv, queueTypeOK, Index
  <2>4. ASSUME NEW i \in 1..distance PROVE Contents'[i] = Contents[i]
    <3>1. head + i - 1 \in head..(tail - 1) /\ head + i - 1 \in Nat
      BY DEF QueueInv, queueTypeOK, distance
    <3>2. Index(head + i - 1) # Index(tail)
      BY <1>1, <1>3, <3>1, TailIsFree DEF QueueInv, Held, distance
    <3>3. Index(head + i - 1) \in 0..(capacity - 1)
      BY <3>1, ModRange DEF QueueInv, queueTypeOK, Index
    <3>4. Contents'[i] = elements'[Index(head + i - 1)]
      BY <1>1, <2>1, <2>2 DEF Contents, Index
    <3> QED
      BY <2>1, <3>2, <3>3, <3>4, ContentsType DEF QueueInv, queueTypeOK, ContentsOK
  <2>5. Contents'[distance + 1] = v
    <3>1. Contents'[distance + 1] = elements'[Index(tail)]
      BY <1>1, <2>1, <2>2 DEF Contents, Index, distance, QueueInv, queueTypeOK
    <3> QED
      BY <2>1, <2>3, <3>1 DEF QueueInv, queueTypeOK
  <2>6. Contents' = Append(Contents, v)
    <3>1. Contents' \in Seq(Values) /\ Len(Contents') = distance + 1
      BY <2>2, ContentsTypeNext DEF ContentsOK
    <3>2. Contents \in Seq(Values)
      BY ContentsType DEF ContentsOK
    <3>3. /\ Append(Contents, v) \in Seq(Values)
          /\ Len(Append(Contents, v)) = distance + 1
          /\ \A i \in 1..distance : Append(Contents, v)[i] = Contents[i]
          /\ Append(Contents, v)[distance + 1] = v
      BY <1>1, <3>2, AppendProperties
    <3>4. \A i \in 1..(distance + 1) : i = distance + 1 \/ i \in 1..distance
      BY <1>1
    <3> HIDE DEF Contents
    <3> QED
      BY <2>4, <2>5, <3>1, <3>3, <3>4, SeqEqual
  <2>7. Reported' = [kind |-> "stored"]
    BY <2>1 DEF Reported, Stored
  <2> QED
    BY <1>1, <1>3, <2>1, <2>6, <2>7
<1> QED
  BY <1>2, <1>3

LEMMA DequeueRefines ==
  ASSUME QueueInv, Dequeue
  PROVE  Fifo!Take
<1> USE DEF Fifo!Take, Fifo!Taken, Fifo!Nothing
<1>1. Len(Contents) = distance /\ distance \in Nat /\ head \in Nat /\ tail \in Nat /\ head <= tail
  BY ContentsType DEF QueueInv, queueTypeOK, ContentsOK
<1>2. CASE ~(head < tail)
  <2>1. answer' = Nothing /\ UNCHANGED <<head, elements, tail, capacity>>
    BY <1>2 DEF Dequeue
  <2>2. Contents = <<>> /\ Contents' = Contents
    BY <1>1, <1>2, <2>1, ContentsType DEF ContentsOK, Contents, distance, Index
  <2> QED
    BY <2>1, <2>2 DEF Reported, Nothing
<1>3. CASE head < tail
  <2>1. /\ head' = head + 1 /\ tail' = tail /\ capacity' = capacity
        /\ elements' = [elements EXCEPT ![Index(head)] = None]
        /\ answer' = Taken(elements[Index(head)])
    BY <1>3 DEF Dequeue
  <2>2. QueueInv' /\ distance' = distance - 1 /\ distance >= 1
    BY <1>1, <1>3, <2>1, DequeueInv DEF distance
  <2>3. Contents # <<>> /\ Contents \in Seq(Values)
    BY <1>1, <2>2, ContentsType, EmptySeq DEF ContentsOK
  <2>4. Head(Contents) = elements[Index(head)]
    BY <1>1, <2>2, <2>3, ContentsType DEF ContentsOK
  <2>5. /\ Tail(Contents) \in Seq(Values) /\ Len(Tail(Contents)) = distance - 1
        /\ \A i \in 1..(distance - 1) : Tail(Contents)[i] = Contents[i + 1]
    BY <1>1, <2>3, HeadTailProperties
  <2>6. ASSUME NEW i \in 1..(distance - 1) PROVE Contents'[i] = Contents[i + 1]
    <3>1. head + i \in Nat /\ (head + i) - head < capacity /\ head < head + i
      BY <1>1, ContentsType DEF QueueInv, queueTypeOK, ContentsOK
    <3>2. Index(head + i) # Index(head)
      BY <3>1, HeadIsAlone DEF QueueInv
    <3>3. Index(head + i) \in 0..(capacity - 1)
      BY <3>1, ModRange DEF QueueInv, queueTypeOK, Index
    <3>4. Contents'[i] = elements'[Index(head + i)]
      BY <1>1, <2>1, <2>2 DEF Contents, Index
    <3>5. Contents[i + 1] = elements[Index(head + i)]
      BY <1>1, ContentsType DEF ContentsOK
    <3> QED
      BY <2>1, <3>2, <3>3, <3>4, <3>5 DEF QueueInv, queueTypeOK
  <2>7. Contents' = Tail(Contents)
    <3>1. Contents' \in Seq(Values) /\ Len(Contents') = distance - 1
      BY <2>2, ContentsTypeNext DEF ContentsOK
    <3> HIDE DEF Contents
    <3> QED
      BY <2>5, <2>6, <3>1, SeqEqual
  <2>8. Reported' = [kind |-> "taken", value |-> elements[Index(head)]]
    BY <2>1 DEF Reported, Taken
  <2> QED
    BY <2>1, <2>3, <2>4, <2>7, <2>8
<1> QED
  BY <1>2, <1>3

LEMMA ClearRefines ==
  ASSUME QueueInv, Clear
  PROVE  Fifo!Drop
<1>1. QueueInv' /\ head' = tail' /\ capacity' = capacity
  BY ClearInv DEF Clear
<1>2. Contents' = <<>>
  BY <1>1, ContentsTypeNext DEF ContentsOK
<1> QED
  BY <1>1, <1>2 DEF Clear, Reported, Nothing, Fifo!Drop, Fifo!Nothing

LEMMA SetCapacityRefines ==
  ASSUME QueueInv, NEW c \in QueueSizes, SetCapacity(c)
  PROVE  Fifo!Resize(c)
<1>1. QueueInv' /\ head' = tail' /\ capacity' = Lowest(c)
  BY SetCapacityInv DEF SetCapacity
<1>2. Contents' = <<>>
  BY <1>1, ContentsTypeNext DEF ContentsOK
<1> QED
  BY <1>1, <1>2 DEF SetCapacity, Reported, Nothing, Lowest, Fifo!Resize, Fifo!Nothing, Fifo!AtLeastOne

LEMMA NextRefines ==
  ASSUME QueueInv, [queueNext]_queueVars
  PROVE  [Fifo!fifoNext]_(Fifo!fifoVars)
<1>1. CASE UNCHANGED queueVars
  BY <1>1 DEF queueVars, Fifo!fifoVars, Contents, Reported, distance, Index
<1> QED
  BY <1>1, EnqueueRefines, DequeueRefines, ClearRefines, SetCapacityRefines DEF queueNext, Fifo!fifoNext

\* The circular array implements the bounded FIFO queue: elements leave in the
\* order they came, and one is refused exactly when capacity() are stored.
THEOREM QueueIsFifo == queueSpec => IsFifo
BY InitRefines, NextRefines, AlwaysInv, PTL DEF queueSpec, IsFifo, Fifo!fifoSpec

-----------------------------------------------------------------------------
(* MutexBst: sequences.                                                      *)

\* Between the elements before a position and those from it on.
Spliced(s, pos, x) == SubSeq(s, 1, pos - 1) \o <<x>> \o SubSeq(s, pos, Len(s))

Inserted(S, s, pos, x, t) ==
  /\ t \in Seq(S) /\ Len(t) = Len(s) + 1
  /\ \A i \in 1..(Len(s) + 1) :
       /\ i < pos => t[i] = s[i]
       /\ i = pos => t[i] = x
       /\ i > pos => t[i] = s[i - 1]

LEMMA EmplacedAt ==
  ASSUME NEW S, NEW s \in Seq(S), NEW pos \in 1..(Len(s) + 1), NEW x \in S,
         NEW t, t = Spliced(s, pos, x)
  PROVE  Inserted(S, s, pos, x, t)
<1>1. PICK n \in Nat : n = Len(s)
  OBVIOUS
<1>2. PICK a : a = SubSeq(s, 1, pos - 1)
  OBVIOUS
<1>3. a \in Seq(S) /\ Len(a) = pos - 1 /\ \A i \in 1..(pos - 1) : a[i] = s[i]
  BY <1>1, <1>2
<1>4. PICK b : b = SubSeq(s, pos, n)
  OBVIOUS
<1>5. b \in Seq(S) /\ Len(b) = n - pos + 1 /\ \A i \in 1..(n - pos + 1) : b[i] = s[pos + i - 1]
  BY <1>1, <1>4
<1>6. PICK c : c = a \o <<x>>
  OBVIOUS
<1>7. c \in Seq(S) /\ Len(c) = pos /\ \A i \in 1..pos : c[i] = IF i < pos THEN s[i] ELSE x
  BY <1>3, <1>6
<1>8. t = c \o b
  BY <1>1, <1>2, <1>4, <1>6 DEF Spliced
<1>9. t \in Seq(S) /\ Len(t) = Len(c) + Len(b) /\ Len(t) = n + 1
  <2>1. t \in Seq(S) /\ Len(t) = Len(c) + Len(b)
    BY <1>5, <1>7, <1>8, ConcatProperties
  <2>2. Len(c) + Len(b) = n + 1
    BY <1>1, <1>5, <1>7
  <2> QED
    BY <2>1, <2>2, Zenon
<1>10. \A i \in 1..(Len(c) + Len(b)) : t[i] = IF i <= Len(c) THEN c[i] ELSE b[i - Len(c)]
  <2>1. \A i \in 1..(Len(c) + Len(b)) : (c \o b)[i] = IF i <= Len(c) THEN c[i] ELSE b[i - Len(c)]
    BY <1>5, <1>7, ConcatProperties, Zenon
  <2> QED
    BY <1>8, <2>1, Zenon
<1>11. ASSUME NEW i \in 1..(n + 1)
       PROVE  /\ i < pos => t[i] = s[i]
              /\ i = pos => t[i] = x
              /\ i > pos => t[i] = s[i - 1]
  <2>0. n \in Nat /\ pos \in 1..(n + 1) /\ i \in Nat
    BY <1>1
  <2>1. t[i] = IF i <= pos THEN c[i] ELSE b[i - pos]
    <3>1. Len(c) = pos /\ i \in 1..(Len(c) + Len(b))
      BY <1>5, <1>7, <2>0
    <3> QED
      BY <1>10, <3>1
  <2>4. /\ i <= pos => i < pos \/ i = pos
        /\ i < pos => i <= pos /\ i # pos /\ ~(i > pos)
        /\ i = pos => i <= pos /\ ~(i < pos) /\ ~(i > pos)
        /\ i > pos => ~(i <= pos) /\ ~(i < pos) /\ i # pos
    BY <2>0
  <2>2. CASE i <= pos
    <3>1. i \in 1..pos
      BY <2>0, <2>2
    <3>2. c[i] = IF i < pos THEN s[i] ELSE x
      BY <1>7, <3>1
    <3> QED
      BY <2>1, <2>2, <2>4, <3>2, Zenon
  <2>3. CASE ~(i <= pos)
    <3>1. PICK k : k = i - pos
      OBVIOUS
    <3>2. k \in 1..(n - pos + 1) /\ pos + k - 1 = i - 1
      BY <2>0, <2>3, <3>1
    <3>3. b[k] = s[i - 1]
      BY <1>5, <3>2
    <3> QED
      BY <2>1, <2>3, <2>4, <3>1, <3>3, Zenon
  <2> QED
    BY <2>2, <2>3
<1> QED
  BY <1>1, <1>9, <1>11 DEF Inserted

\* Without the element of a position.
LEMMA ErasedAt ==
  ASSUME NEW S, NEW s \in Seq(S), NEW pos \in 1..Len(s),
         NEW t, t = SubSeq(s, 1, pos - 1) \o SubSeq(s, pos + 1, Len(s))
  PROVE  /\ t \in Seq(S) /\ Len(t) = Len(s) - 1
         /\ \A i \in 1..(Len(s) - 1) : t[i] = IF i < pos THEN s[i] ELSE s[i + 1]
<1>1. PICK n \in Nat : n = Len(s)
  OBVIOUS
<1>2. PICK a : a = SubSeq(s, 1, pos - 1)
  OBVIOUS
<1>3. a \in Seq(S) /\ Len(a) = pos - 1 /\ \A i \in 1..(pos - 1) : a[i] = s[i]
  BY <1>1, <1>2
<1>4. PICK b : b = SubSeq(s, pos + 1, n)
  OBVIOUS
<1>5. b \in Seq(S) /\ Len(b) = n - pos /\ \A i \in 1..(n - pos) : b[i] = s[pos + i]
  BY <1>1, <1>4
<1>6. t = a \o b
  BY <1>1, <1>2, <1>4
<1>7. t \in Seq(S) /\ Len(t) = n - 1
  <2>1. t \in Seq(S) /\ Len(t) = Len(a) + Len(b)
    BY <1>3, <1>5, <1>6, ConcatProperties
  <2>2. Len(a) + Len(b) = n - 1
    BY <1>1, <1>3, <1>5
  <2> QED
    BY <2>1, <2>2, Zenon
<1>8. \A i \in 1..(Len(a) + Len(b)) : t[i] = IF i <= Len(a) THEN a[i] ELSE b[i - Len(a)]
  <2>1. \A i \in 1..(Len(a) + Len(b)) : (a \o b)[i] = IF i <= Len(a) THEN a[i] ELSE b[i - Len(a)]
    BY <1>3, <1>5, ConcatProperties, Zenon
  <2> QED
    BY <1>6, <2>1, Zenon
<1>9. ASSUME NEW i \in 1..(n - 1)
      PROVE  t[i] = IF i < pos THEN s[i] ELSE s[i + 1]
  <2>0. n \in Nat /\ pos \in 1..n /\ i \in Nat
    BY <1>1
  <2>00. t[i] = IF i <= pos - 1 THEN a[i] ELSE b[i - (pos - 1)]
    <3>1. Len(a) = pos - 1 /\ i \in 1..(Len(a) + Len(b))
      BY <1>3, <1>5, <2>0
    <3> QED
      BY <1>8, <3>1
  <2>1. CASE i < pos
    <3>1. i \in 1..(pos - 1) /\ i <= pos - 1
      BY <2>0, <2>1
    <3>2. t[i] = a[i] /\ a[i] = s[i]
      BY <1>3, <2>00, <3>1
    <3> QED
      BY <2>1, <3>2
  <2>2. CASE ~(i < pos)
    <3>1. PICK k : k = i - (pos - 1)
      OBVIOUS
    <3>2. k \in 1..(n - pos) /\ pos + k = i + 1 /\ ~(i <= pos - 1)
      BY <2>0, <2>2, <3>1
    <3>3. t[i] = b[k]
      BY <2>00, <3>1, <3>2
    <3>4. b[k] = s[i + 1]
      BY <1>5, <3>2
    <3> QED
      BY <2>2, <3>3, <3>4
  <2> QED
    BY <2>1, <2>2
<1> QED
  BY <1>1, <1>7, <1>9

\* A set of positions that holds what is before each of them is a prefix.
LEMMA Prefix ==
  ASSUME NEW n \in Nat, NEW P \in SUBSET (1..n),
         \A i \in P : \A j \in 1..n : j < i => j \in P
  PROVE  Cardinality(P) \in 0..n /\ P = 1..Cardinality(P)
<1>1. IsFiniteSet(1..n) /\ Cardinality(1..n) = n
  BY FS_Interval
<1>2. IsFiniteSet(P) /\ Cardinality(P) <= n /\ Cardinality(P) \in Nat
  BY <1>1, FS_Subset, FS_CardinalityType
<1>3. PICK m \in Nat : m = Cardinality(P)
  BY <1>2
<1>4. ASSUME NEW i \in P PROVE i <= m
  <2>1. 1..i \subseteq P
    OBVIOUS
  <2>2. Cardinality(1..i) = i
    <3>1. i \in Nat /\ i >= 1
      OBVIOUS
    <3> QED
      BY <3>1, FS_Interval
  <2> QED
    BY <1>2, <1>3, <2>1, <2>2, FS_Subset
<1>5. P \subseteq 1..m
  BY <1>3, <1>4
<1>6. IsFiniteSet(1..m) /\ Cardinality(1..m) = m
  BY <1>3, FS_Interval
<1>7. P = 1..m
  BY <1>3, <1>5, <1>6, FS_Subset
<1> QED
  BY <1>2, <1>3, <1>7

-----------------------------------------------------------------------------
(* The inductive invariant: the parts of NodesAccounted, and that the free   *)
(* indexes and the nodes fit into the pool (clear() makes them fewer).       *)

PoolInv == \E c \in MapSizes : nodePool \in [0..(Largest(c) - 1) -> Keys \cup {NoKey}]
ListInv ==
  /\ nodeList \in Seq(DOMAIN nodePool)
  /\ \A i, j \in 1..Len(nodeList) : i < j => KeyAt(i) < KeyAt(j)
  /\ \A i \in 1..Len(nodeList) : KeyAt(i) # NoKey
  /\ \A x \in DOMAIN nodePool : nodePool[x] # NoKey => \E i \in 1..Len(nodeList) : nodeList[i] = x
StackInv ==
  /\ indexStack \in Seq(DOMAIN nodePool)
  /\ \A i, j \in 1..Len(indexStack) : i # j => indexStack[i] # indexStack[j]
  /\ \A i \in 1..Len(indexStack) : nodePool[indexStack[i]] = NoKey
  /\ Len(indexStack) + Len(nodeList) <= capacityOf
BstInv == PoolInv /\ ListInv /\ StackInv

\* The size that setCapacity() and the constructor make of their argument.
LEMMA LargestType ==
  ASSUME NEW c \in MapSizes
  PROVE  Largest(c) \in Nat \ {0}
BY BstAssumption DEF Largest

LEMMA CapacityIs ==
  ASSUME NEW n \in Nat, DOMAIN nodePool = 0..(n - 1)
  PROVE  capacityOf = n
<1>1. n - 1 \in Int /\ 0 \in Int
  OBVIOUS
<1>2. Cardinality(0..(n - 1)) = IF 0 > n - 1 THEN 0 ELSE (n - 1) - 0 + 1
  BY <1>1, FS_Interval
<1> QED
  BY <1>2 DEF capacityOf

LEMMA CapacityNext ==
  ASSUME NEW n \in Nat, DOMAIN nodePool' = 0..(n - 1)
  PROVE  capacityOf' = n
<1>1. n - 1 \in Int /\ 0 \in Int
  OBVIOUS
<1>2. Cardinality(0..(n - 1)) = IF 0 > n - 1 THEN 0 ELSE (n - 1) - 0 + 1
  BY <1>1, FS_Interval
<1> QED
  BY <1>2 DEF capacityOf

LEMMA IotaIs ==
  ASSUME NEW n \in Nat, NEW m \in Nat, n <= m
  PROVE  /\ Iota(n) \in Seq(0..(m - 1)) /\ Len(Iota(n)) = n
         /\ \A i, j \in 1..n : i # j => Iota(n)[i] # Iota(n)[j]
<1>1. PICK s : s = Iota(n)
  OBVIOUS
<1>2. s = [i \in 1..n |-> n - i]
  BY <1>1 DEF Iota
<1>3. s \in [1..n -> 0..(m - 1)]
  BY <1>2
<1>4. s \in Seq(0..(m - 1)) /\ Len(s) = n
  BY <1>3
<1>5. \A i, j \in 1..n : i # j => s[i] # s[j]
  BY <1>2
<1> QED
  BY <1>1, <1>4, <1>5

\* The sizes of the sequences.
LEMMA Lengths ==
  ASSUME BstInv
  PROVE  /\ Len(nodeList) \in Nat /\ DOMAIN nodeList = 1..Len(nodeList)
         /\ Len(indexStack) \in Nat /\ DOMAIN indexStack = 1..Len(indexStack)
         /\ \E n \in Nat \ {0} : DOMAIN nodePool = 0..(n - 1) /\ capacityOf = n
         /\ nodePool \in [DOMAIN nodePool -> Keys \cup {NoKey}]
<1>1. PICK c \in MapSizes : nodePool \in [0..(Largest(c) - 1) -> Keys \cup {NoKey}]
  BY DEF BstInv, PoolInv
<1>2. PICK n \in Nat \ {0} : n = Largest(c)
  BY LargestType
<1>3. DOMAIN nodePool = 0..(n - 1) /\ nodePool \in [DOMAIN nodePool -> Keys \cup {NoKey}]
  BY <1>1, <1>2
<1>4. capacityOf = n
  BY <1>3, CapacityIs
<1>5. Len(nodeList) \in Nat /\ DOMAIN nodeList = 1..Len(nodeList)
  BY DEF BstInv, ListInv
<1>6. Len(indexStack) \in Nat /\ DOMAIN indexStack = 1..Len(indexStack)
  BY DEF BstInv, StackInv
<1> QED
  BY <1>3, <1>4, <1>5, <1>6

\* The keys of the list are keys.
LEMMA ListKeys ==
  ASSUME BstInv, NEW i \in 1..Len(nodeList)
  PROVE  nodeList[i] \in DOMAIN nodePool /\ KeyAt(i) \in Keys /\ KeyAt(i) \in Nat /\ KeyAt(i) # NoKey
<1>1. nodeList[i] \in DOMAIN nodePool
  BY DEF BstInv, ListInv
<1>2. KeyAt(i) \in Keys \cup {NoKey} /\ KeyAt(i) # NoKey
  BY <1>1, Lengths DEF BstInv, ListInv, KeyAt
<1> QED
  BY <1>1, <1>2, BstAssumption

\* lower_bound: before the position the keys are less, from it on they are not.
LEMMA LowerBoundIs ==
  ASSUME BstInv, NEW key \in Keys
  PROVE  /\ LowerBound(key) \in 1..(Len(nodeList) + 1)
         /\ \A i \in 1..Len(nodeList) : i < LowerBound(key) <=> KeyAt(i) < key
<1>1. PICK n \in Nat : n = Len(nodeList) /\ DOMAIN nodeList = 1..n
  BY Lengths
<1>2. PICK P : P = {i \in 1..n : KeyAt(i) < key}
  OBVIOUS
<1>3. \A i \in 1..n : KeyAt(i) \in Nat
  BY <1>1, ListKeys
<1>4. key \in Nat
  BY BstAssumption
<1>5. \A i, j \in 1..n : i < j => KeyAt(i) < KeyAt(j)
  BY <1>1 DEF BstInv, ListInv
<1>6. ASSUME NEW i \in P, NEW j \in 1..n, j < i PROVE j \in P
  <2>1. i \in 1..n /\ KeyAt(i) < key
    BY <1>2
  <2>2. KeyAt(j) < KeyAt(i)
    BY <1>5, <1>6, <2>1
  <2>3. KeyAt(j) < key
    BY <1>3, <1>4, <2>1, <2>2
  <2> QED
    BY <1>2, <2>3
<1>7. P \in SUBSET (1..n)
  BY <1>2
<1>8. Cardinality(P) \in 0..n /\ P = 1..Cardinality(P)
  BY <1>6, <1>7, Prefix
<1>9. PICK m \in 0..n : m = Cardinality(P) /\ P = 1..m
  BY <1>8
<1>10. LowerBound(key) = m + 1
  BY <1>1, <1>2, <1>9 DEF LowerBound
<1>11. ASSUME NEW i \in 1..n PROVE i < m + 1 <=> i \in P
  <2>1. i \in 1..m <=> i < m + 1
    BY <1>9, i \in Nat, m \in Nat
  <2> QED
    BY <1>9, <2>1
<1> QED
  BY <1>1, <1>2, <1>9, <1>10, <1>11

\* The test behind lower_bound finds the key if it is in the list.
LEMMA IsAtIs ==
  ASSUME BstInv, NEW key \in Keys
  PROVE  /\ IsAt(LowerBound(key), key) <=> \E i \in 1..Len(nodeList) : KeyAt(i) = key
         /\ IsAt(LowerBound(key), key) => LowerBound(key) \in 1..Len(nodeList)
         /\ ~IsAt(LowerBound(key), key) =>
              \A i \in 1..Len(nodeList) : i >= LowerBound(key) => key < KeyAt(i)
<1>1. PICK n \in Nat : n = Len(nodeList)
  BY Lengths
<1>2. PICK p \in 1..(n + 1) : p = LowerBound(key)
  BY <1>1, LowerBoundIs
<1>3. \A i \in 1..n : i < p <=> KeyAt(i) < key
  BY <1>1, <1>2, LowerBoundIs
<1>4. \A i \in 1..n : KeyAt(i) \in Nat
  BY <1>1, ListKeys
<1>5. key \in Nat
  BY BstAssumption
<1>6. \A i, j \in 1..n : i < j => KeyAt(i) < KeyAt(j)
  BY <1>1 DEF BstInv, ListInv
<1>7. IsAt(p, key) <=> p <= n /\ KeyAt(p) = key
  BY <1>1 DEF IsAt
<1>8. ASSUME NEW i \in 1..n, KeyAt(i) = key PROVE p <= n /\ KeyAt(p) = key
  <2>1. p <= i
    BY <1>3, <1>5, <1>8
  <2>2. p \in 1..n
    BY <2>1, <1>2
  <2>3. ~(KeyAt(p) < key)
    BY <1>3, <2>2
  <2>4. ~(p < i)
    BY <1>6, <1>8, <2>2, <2>3
  <2> QED
    BY <1>8, <2>1, <2>2, <2>4
<1>9. ASSUME ~IsAt(p, key), NEW i \in 1..n, i >= p PROVE key < KeyAt(i)
  <2>1. p \in 1..n
    BY <1>2, <1>9
  <2>2. ~(KeyAt(p) < key) /\ KeyAt(p) # key
    BY <1>3, <1>7, <1>9, <2>1
  <2>3. key < KeyAt(p)
    BY <1>4, <1>5, <2>1, <2>2
  <2>4. i = p \/ KeyAt(p) < KeyAt(i)
    BY <1>6, <1>9, <2>1
  <2> QED
    BY <1>4, <1>5, <2>1, <2>3, <2>4
<1>10. IsAt(p, key) => p \in 1..n
  BY <1>2, <1>7
<1>11. IsAt(p, key) <=> \E i \in 1..n : KeyAt(i) = key
  BY <1>7, <1>8, <1>10
<1> QED
  BY <1>1, <1>2, <1>9, <1>10, <1>11

LEMMA InitBst == bstInit => BstInv
<1> SUFFICES ASSUME bstInit PROVE BstInv
  OBVIOUS
<1>1. PICK c \in MapSizes :
        /\ indexStack = Iota(Largest(c))
        /\ nodePool = [i \in 0..(Largest(c) - 1) |-> NoKey]
        /\ nodeList = <<>>
  BY DEF bstInit
<1>2. PICK n \in Nat \ {0} : n = Largest(c)
  BY LargestType
<1>3. nodePool \in [0..(n - 1) -> Keys \cup {NoKey}] /\ DOMAIN nodePool = 0..(n - 1)
  BY <1>1, <1>2
<1>4. PoolInv
  BY <1>2, <1>3 DEF PoolInv
<1>5. Len(nodeList) = 0 /\ nodeList \in Seq(DOMAIN nodePool)
  BY <1>1
<1>6. \A x \in DOMAIN nodePool : nodePool[x] = NoKey
  BY <1>1, <1>3
<1>7. ListInv
  BY <1>5, <1>6 DEF ListInv
<1>8. indexStack = Iota(n) /\ n <= n
  BY <1>1, <1>2
<1>9. /\ indexStack \in Seq(0..(n - 1)) /\ Len(indexStack) = n
      /\ \A i, j \in 1..n : i # j => indexStack[i] # indexStack[j]
  BY <1>8, IotaIs
<1>10. capacityOf = n
  BY <1>3, CapacityIs
<1>11. \A i \in 1..n : indexStack[i] \in DOMAIN nodePool
  BY <1>3, <1>9
<1>12. StackInv
  BY <1>3, <1>5, <1>6, <1>9, <1>10, <1>11 DEF StackInv
<1> QED
  BY <1>4, <1>7, <1>12 DEF BstInv

LEMMA SameBst ==
  ASSUME BstInv, UNCHANGED <<indexStack, nodePool, nodeList>>
  PROVE  BstInv'
BY DEF BstInv, PoolInv, ListInv, StackInv, KeyAt, capacityOf

\* What a call that adds a node leaves.
LEMMA Added ==
  ASSUME BstInv, NEW key \in Keys, indexStack # <<>>,
         ~IsAt(LowerBound(key), key),
         NEW node, node = indexStack[Len(indexStack)],
         indexStack' = SubSeq(indexStack, 1, Len(indexStack) - 1),
         nodePool' = [nodePool EXCEPT ![node] = key],
         nodeList' = Emplaced(LowerBound(key), node)
  PROVE  BstInv' /\ Len(indexStack') + Len(nodeList') = Len(indexStack) + Len(nodeList)
<1>1. PICK n \in Nat : n = Len(nodeList)
  BY Lengths
<1>2. PICK m \in Nat \ {0} : m = Len(indexStack)
  BY Lengths DEF BstInv, StackInv
<1>3. PICK p \in 1..(n + 1) : p = LowerBound(key)
  BY <1>1, LowerBoundIs
<1>4. PICK N : N = DOMAIN nodePool
  OBVIOUS
<1>5. nodePool \in [N -> Keys \cup {NoKey}] /\ nodeList \in Seq(N) /\ indexStack \in Seq(N)
  BY <1>4, Lengths DEF BstInv, ListInv, StackInv
<1>6. node \in N /\ nodePool[node] = NoKey
  BY <1>2, <1>4 DEF BstInv, StackInv
<1>7. key \in Nat /\ key # NoKey
  BY BstAssumption
<1>8. /\ nodePool' \in [N -> Keys \cup {NoKey}] /\ nodePool'[node] = key
      /\ \A x \in N : x # node => nodePool'[x] = nodePool[x]
  BY <1>4, <1>5, <1>6
<1>9. DOMAIN nodePool' = N
  BY <1>8
<1>10. PoolInv'
  BY <1>4, <1>8 DEF BstInv, PoolInv
<1>11. nodeList' = Spliced(nodeList, p, node)
  BY <1>3 DEF Emplaced, Spliced
<1>12. /\ nodeList' \in Seq(N) /\ Len(nodeList') = n + 1
       /\ \A i \in 1..(n + 1) : i < p => nodeList'[i] = nodeList[i]
       /\ \A i \in 1..(n + 1) : i = p => nodeList'[i] = node
       /\ \A i \in 1..(n + 1) : i > p => nodeList'[i] = nodeList[i - 1]
  <2>1. p \in 1..(Len(nodeList) + 1)
    BY <1>1
  <2>2. Inserted(N, nodeList, p, node, nodeList')
    BY <1>5, <1>6, <1>11, <2>1, EmplacedAt, Zenon
  <2> QED
    BY <1>1, <2>2 DEF Inserted
<1>13. \A i \in 1..n : nodeList[i] \in N /\ KeyAt(i) \in Nat /\ KeyAt(i) # NoKey
  BY <1>1, <1>4, ListKeys
<1>14. \A i \in 1..n : nodePool'[nodeList[i]] = KeyAt(i)
  BY <1>6, <1>8, <1>13 DEF KeyAt
<1>15. \A i \in 1..n : (i < p => KeyAt(i) < key) /\ (i >= p => key < KeyAt(i))
  BY <1>1, <1>3, LowerBoundIs, IsAtIs
<1>16. \A i, j \in 1..n : i < j => KeyAt(i) < KeyAt(j)
  BY <1>1 DEF BstInv, ListInv
<1>17. ASSUME NEW i \in 1..(n + 1)
       PROVE  /\ i < p => i \in 1..n /\ nodePool'[nodeList'[i]] = KeyAt(i)
              /\ i = p => nodePool'[nodeList'[i]] = key
              /\ i > p => i - 1 \in 1..n /\ i - 1 >= p /\ nodePool'[nodeList'[i]] = KeyAt(i - 1)
  <2>1. CASE i < p
    <3>1. i \in 1..n /\ ~(i = p) /\ ~(i > p)
      BY <1>3, <2>1
    <3>2. nodeList'[i] = nodeList[i]
      BY <1>12, <2>1
    <3>3. nodePool'[nodeList'[i]] = KeyAt(i)
      BY <1>14, <3>1, <3>2
    <3> QED
      BY <3>1, <3>3
  <2>2. CASE i = p
    BY <1>8, <1>12, <2>2
  <2>3. CASE i > p
    <3>1. i - 1 \in 1..n /\ i - 1 >= p /\ ~(i < p) /\ i # p
      BY <1>3, <2>3
    <3> QED
      BY <1>12, <1>14, <2>3, <3>1
  <2> QED
    BY <2>1, <2>2, <2>3
<1>18. ASSUME NEW i \in 1..(n + 1), NEW j \in 1..(n + 1), i < j
       PROVE  nodePool'[nodeList'[i]] < nodePool'[nodeList'[j]]
  <2>1. CASE j < p
    <3>1. i < p
      BY <1>3, <1>18, <2>1
    <3> QED
      BY <1>16, <1>17, <1>18, <2>1, <3>1
  <2>2. CASE j = p
    <3>1. i < p
      BY <1>18, <2>2
    <3> QED
      BY <1>15, <1>17, <2>2, <3>1
  <2>3. CASE j > p
    <3>1. CASE i < p
      <4>1. KeyAt(i) < key /\ key < KeyAt(j - 1) /\ i \in 1..n /\ j - 1 \in 1..n
        BY <1>15, <1>17, <2>3, <3>1
      <4>2. KeyAt(i) \in Nat /\ KeyAt(j - 1) \in Nat
        BY <1>13, <4>1
      <4>3. KeyAt(i) < KeyAt(j - 1)
        BY <1>7, <4>1, <4>2
      <4> QED
        BY <1>17, <2>3, <3>1, <4>3
    <3>2. CASE i = p
      BY <1>15, <1>17, <2>3, <3>2
    <3>3. CASE i > p
      <4>1. i - 1 \in 1..n /\ j - 1 \in 1..n /\ i - 1 < j - 1
        BY <1>17, <1>18, <2>3, <3>3
      <4>2. KeyAt(i - 1) < KeyAt(j - 1)
        BY <1>16, <4>1
      <4> QED
        BY <1>17, <2>3, <3>3, <4>2
    <3> QED
      BY <1>3, <3>1, <3>2, <3>3
  <2> QED
    BY <1>3, <2>1, <2>2, <2>3
<1>19. ASSUME NEW i \in 1..(n + 1) PROVE nodePool'[nodeList'[i]] # NoKey
  <2>1. i < p \/ i = p \/ i > p
    BY <1>3
  <2> QED
    BY <1>7, <1>13, <1>17, <2>1
<1>20. ASSUME NEW x \in N, nodePool'[x] # NoKey PROVE \E i \in 1..(n + 1) : nodeList'[i] = x
  <2>1. CASE x = node
    BY <1>3, <1>12, <2>1
  <2>2. CASE x # node
    <3>1. PICK i \in 1..n : nodeList[i] = x
      BY <1>1, <1>4, <1>8, <1>20, <2>2 DEF BstInv, ListInv
    <3>2. CASE i < p
      <4>1. i \in 1..(n + 1)
        OBVIOUS
      <4> QED
        BY <1>12, <3>1, <3>2, <4>1
    <3>3. CASE i >= p
      <4>1. i + 1 \in 1..(n + 1) /\ ~(i + 1 < p) /\ i + 1 # p /\ (i + 1) - 1 = i
        BY <1>3, <3>3
      <4>2. nodeList'[i + 1] = nodeList[i]
        BY <1>12, <4>1
      <4> QED
        BY <3>1, <4>1, <4>2
    <3> QED
      BY <1>3, <3>2, <3>3
  <2> QED
    BY <2>1, <2>2
<1>21. ListInv'
  BY <1>9, <1>12, <1>18, <1>19, <1>20 DEF ListInv, KeyAt
<1>22. /\ indexStack' \in Seq(N) /\ Len(indexStack') = m - 1
       /\ \A i \in 1..(m - 1) : indexStack'[i] = indexStack[i]
  BY <1>2, <1>5
<1>23. \A i, j \in 1..m : i # j => indexStack[i] # indexStack[j]
  BY <1>2 DEF BstInv, StackInv
<1>24. \A i, j \in 1..(m - 1) : i # j => indexStack'[i] # indexStack'[j]
  BY <1>22, <1>23
<1>25. ASSUME NEW i \in 1..(m - 1) PROVE nodePool'[indexStack'[i]] = NoKey
  <2>1. i \in 1..m /\ m \in 1..m /\ i # m
    OBVIOUS
  <2>2. indexStack[i] # node /\ indexStack[i] \in N /\ nodePool[indexStack[i]] = NoKey
    BY <1>2, <1>4, <1>23, <2>1 DEF BstInv, StackInv
  <2> QED
    BY <1>8, <1>22, <2>2
<1>26. PICK c \in Nat : capacityOf = c /\ N = 0..(c - 1)
  BY <1>4, Lengths
<1>27. capacityOf' = c
  BY <1>9, <1>26, CapacityNext
<1>28. m + n <= c
  BY <1>1, <1>2, <1>26 DEF BstInv, StackInv
<1>29. Len(indexStack') + Len(nodeList') = m + n
  <2>1. (m - 1) + (n + 1) = m + n
    BY <1>1, <1>2
  <2> QED
    BY <1>12, <1>22, <2>1, Zenon
<1>30. StackInv'
  BY <1>9, <1>22, <1>24, <1>25, <1>27, <1>28, <1>29 DEF StackInv
<1> QED
  BY <1>1, <1>2, <1>10, <1>21, <1>29, <1>30 DEF BstInv

\* What a call that removes a node leaves.
LEMMA Removed ==
  ASSUME BstInv, NEW key \in Keys,
         IsAt(LowerBound(key), key),
         NEW node, node = nodeList[LowerBound(key)],
         nodePool' = [nodePool EXCEPT ![node] = NoKey],
         nodeList' = Erased(LowerBound(key)),
         indexStack' = Append(indexStack, node)
  PROVE  /\ BstInv' /\ Len(indexStack') + Len(nodeList') = Len(indexStack) + Len(nodeList)
         /\ node \in DOMAIN nodePool /\ nodePool[node] = key
<1>1. PICK n \in Nat : n = Len(nodeList)
  BY Lengths
<1>2. PICK m \in Nat : m = Len(indexStack)
  BY Lengths
<1>3. PICK p \in 1..n : p = LowerBound(key)
  BY <1>1, IsAtIs
<1>4. PICK N : N = DOMAIN nodePool
  OBVIOUS
<1>5. nodePool \in [N -> Keys \cup {NoKey}] /\ nodeList \in Seq(N) /\ indexStack \in Seq(N)
  BY <1>4, Lengths DEF BstInv, ListInv, StackInv
<1>6. node \in N /\ nodePool[node] = key /\ node = nodeList[p]
  BY <1>1, <1>3, <1>4, ListKeys DEF IsAt, KeyAt
<1>7. key \in Nat /\ key # NoKey
  BY BstAssumption
<1>8. /\ nodePool' \in [N -> Keys \cup {NoKey}] /\ nodePool'[node] = NoKey
      /\ \A x \in N : x # node => nodePool'[x] = nodePool[x]
  BY <1>4, <1>5, <1>6
<1>9. DOMAIN nodePool' = N
  BY <1>8
<1>10. PoolInv'
  BY <1>4, <1>8 DEF BstInv, PoolInv
<1>11. nodeList' = SubSeq(nodeList, 1, p - 1) \o SubSeq(nodeList, p + 1, Len(nodeList))
  BY <1>3 DEF Erased
<1>12. /\ nodeList' \in Seq(N) /\ Len(nodeList') = n - 1
       /\ \A i \in 1..(n - 1) : nodeList'[i] = IF i < p THEN nodeList[i] ELSE nodeList[i + 1]
  <2>1. p \in 1..Len(nodeList)
    BY <1>1
  <2>2. /\ nodeList' \in Seq(N) /\ Len(nodeList') = Len(nodeList) - 1
        /\ \A i \in 1..(Len(nodeList) - 1) :
             nodeList'[i] = IF i < p THEN nodeList[i] ELSE nodeList[i + 1]
    <3>1. PICK s : s = nodeList
      OBVIOUS
    <3>2. PICK t : t = nodeList'
      OBVIOUS
    <3>3. t = SubSeq(s, 1, p - 1) \o SubSeq(s, p + 1, Len(s))
      BY <1>11, <3>1, <3>2, Zenon
    <3>4. s \in Seq(N) /\ p \in 1..Len(s)
      BY <1>5, <2>1, <3>1, Zenon
    <3>5. /\ t \in Seq(N) /\ Len(t) = Len(s) - 1
          /\ \A i \in 1..(Len(s) - 1) : t[i] = IF i < p THEN s[i] ELSE s[i + 1]
      BY <3>3, <3>4, ErasedAt, Zenon
    <3> QED
      BY <3>1, <3>2, <3>5, Zenon
  <2> QED
    BY <1>1, <2>2, Zenon
<1>13. \A i \in 1..n : nodeList[i] \in N /\ KeyAt(i) \in Nat /\ KeyAt(i) # NoKey
  BY <1>1, <1>4, ListKeys
<1>14. \A i, j \in 1..n : i < j => KeyAt(i) < KeyAt(j)
  BY <1>1 DEF BstInv, ListInv
<1>15. KeyAt(p) = key
  BY <1>6 DEF KeyAt
<1>16. ASSUME NEW i \in 1..n, i # p
       PROVE  nodeList[i] # node /\ nodePool'[nodeList[i]] = KeyAt(i)
  <2>1. KeyAt(i) # key
    <3>1. i < p \/ p < i
      BY <1>16
    <3> QED
      BY <1>13, <1>14, <1>15, <3>1
  <2>2. nodeList[i] # node
    BY <1>6, <2>1 DEF KeyAt
  <2> QED
    BY <1>8, <1>13, <2>2 DEF KeyAt
<1>17. ASSUME NEW i \in 1..(n - 1)
       PROVE  /\ i < p => i \in 1..n /\ i # p /\ nodePool'[nodeList'[i]] = KeyAt(i)
              /\ ~(i < p) => i + 1 \in 1..n /\ i + 1 # p /\ nodePool'[nodeList'[i]] = KeyAt(i + 1)
  <2>1. (i < p => i \in 1..n /\ i # p) /\ (~(i < p) => i + 1 \in 1..n /\ i + 1 # p)
    BY <1>3
  <2> QED
    BY <1>12, <1>16, <2>1
<1>18. ASSUME NEW i \in 1..(n - 1), NEW j \in 1..(n - 1), i < j
       PROVE  nodePool'[nodeList'[i]] < nodePool'[nodeList'[j]]
  <2>1. CASE j < p
    <3>1. i < p
      BY <1>3, <1>18, <2>1
    <3> QED
      BY <1>14, <1>17, <1>18, <2>1, <3>1
  <2>2. CASE ~(j < p) /\ i < p
    <3>1. i < j + 1
      BY <1>18
    <3> QED
      BY <1>14, <1>17, <2>2, <3>1
  <2>3. CASE ~(j < p) /\ ~(i < p)
    <3>1. i + 1 < j + 1
      BY <1>18
    <3> QED
      BY <1>14, <1>17, <2>3, <3>1
  <2> QED
    BY <2>1, <2>2, <2>3
<1>19. ASSUME NEW i \in 1..(n - 1) PROVE nodePool'[nodeList'[i]] # NoKey
  BY <1>13, <1>17
<1>20. ASSUME NEW x \in N, nodePool'[x] # NoKey PROVE \E i \in 1..(n - 1) : nodeList'[i] = x
  <2>1. x # node
    BY <1>8, <1>20
  <2>2. PICK i \in 1..n : nodeList[i] = x
    BY <1>1, <1>4, <1>8, <1>20, <2>1 DEF BstInv, ListInv
  <2>3. i # p
    BY <1>6, <2>1, <2>2
  <2>4. CASE i < p
    <3>1. i \in 1..(n - 1)
      BY <1>3, <2>4
    <3> QED
      BY <1>12, <2>2, <2>4, <3>1
  <2>5. CASE i > p
    <3>1. i - 1 \in 1..(n - 1) /\ ~(i - 1 < p) /\ (i - 1) + 1 = i
      BY <1>3, <2>5
    <3>2. nodeList'[i - 1] = nodeList[i]
      BY <1>12, <3>1
    <3> QED
      BY <2>2, <3>1, <3>2
  <2> QED
    BY <1>3, <2>3, <2>4, <2>5
<1>21. ListInv'
  BY <1>9, <1>12, <1>18, <1>19, <1>20 DEF ListInv, KeyAt
<1>22. /\ indexStack' \in Seq(N) /\ Len(indexStack') = m + 1
       /\ indexStack'[m + 1] = node /\ \A i \in 1..m : indexStack'[i] = indexStack[i]
  BY <1>2, <1>5, <1>6
<1>23. \A i \in 1..m : indexStack[i] \in N /\ nodePool[indexStack[i]] = NoKey /\ indexStack[i] # node
  BY <1>2, <1>4, <1>6, <1>7 DEF BstInv, StackInv
<1>24. \A i, j \in 1..m : i # j => indexStack[i] # indexStack[j]
  BY <1>2 DEF BstInv, StackInv
<1>25. \A i \in 1..(m + 1) : i \in 1..m \/ i = m + 1
  BY <1>2
<1>26. \A i, j \in 1..(m + 1) : i # j => indexStack'[i] # indexStack'[j]
  BY <1>22, <1>23, <1>24, <1>25
<1>27. \A i \in 1..(m + 1) : nodePool'[indexStack'[i]] = NoKey
  BY <1>8, <1>22, <1>23, <1>25
<1>28. PICK c \in Nat : capacityOf = c /\ N = 0..(c - 1)
  BY <1>4, Lengths
<1>29. capacityOf' = c
  BY <1>9, <1>28, CapacityNext
<1>30. m + n <= c
  BY <1>1, <1>2, <1>28 DEF BstInv, StackInv
<1>31. Len(indexStack') + Len(nodeList') = m + n
  <2>1. (m + 1) + (n - 1) = m + n
    BY <1>1, <1>2
  <2> QED
    BY <1>12, <1>22, <2>1, Zenon
<1>32. StackInv'
  BY <1>9, <1>22, <1>26, <1>27, <1>29, <1>30, <1>31 DEF StackInv
<1> QED
  BY <1>1, <1>2, <1>4, <1>6, <1>10, <1>21, <1>31, <1>32 DEF BstInv

\* Without nodes all storages of the pool are free.
LEMMA DestroyedIs ==
  ASSUME BstInv
  PROVE  DOMAIN Destroyed = DOMAIN nodePool /\ \A x \in DOMAIN nodePool : Destroyed[x] = NoKey
<1>1. ASSUME NEW x \in DOMAIN nodePool
      PROVE  (IF \E n \in DOMAIN nodeList : nodeList[n] = x THEN NoKey ELSE nodePool[x]) = NoKey
  BY Lengths DEF BstInv, ListInv
<1> QED
  BY <1>1 DEF Destroyed

\* The pool has a size that was asked for, every storage is free and the stack
\* holds the first of them.
LEMMA Emptied ==
  ASSUME NEW n \in Nat \ {0}, NEW m \in Nat, m <= n,
         \E c \in MapSizes : n = Largest(c),
         nodePool' = [x \in 0..(n - 1) |-> NoKey],
         nodeList' = <<>>, indexStack' = Iota(m)
  PROVE  BstInv' /\ Len(indexStack') = m /\ Len(nodeList') = 0
<1>1. nodePool' \in [0..(n - 1) -> Keys \cup {NoKey}] /\ DOMAIN nodePool' = 0..(n - 1)
  OBVIOUS
<1>2. PoolInv'
  BY <1>1 DEF PoolInv
<1>3. Len(nodeList') = 0 /\ nodeList' \in Seq(DOMAIN nodePool')
  OBVIOUS
<1>4. \A x \in DOMAIN nodePool' : nodePool'[x] = NoKey
  BY <1>1
<1>5. ListInv'
  BY <1>3, <1>4 DEF ListInv
<1>6. /\ indexStack' \in Seq(0..(n - 1)) /\ Len(indexStack') = m
      /\ \A i, j \in 1..m : i # j => indexStack'[i] # indexStack'[j]
  BY IotaIs
<1>7. capacityOf' = n
  BY <1>1, CapacityNext
<1>8. \A i \in 1..m : indexStack'[i] \in DOMAIN nodePool'
  BY <1>1, <1>6
<1>9. StackInv'
  BY <1>1, <1>3, <1>4, <1>6, <1>7, <1>8 DEF StackInv
<1> QED
  BY <1>2, <1>3, <1>5, <1>6, <1>9 DEF BstInv

LEMMA ClearMapLeaves ==
  ASSUME BstInv, ClearMap
  PROVE  BstInv' /\ Len(indexStack') = Len(indexStack) /\ Len(nodeList') = 0
<1>1. PICK c \in MapSizes : nodePool \in [0..(Largest(c) - 1) -> Keys \cup {NoKey}]
  BY DEF BstInv, PoolInv
<1>2. PICK n \in Nat \ {0} : n = Largest(c)
  BY LargestType
<1>3. DOMAIN nodePool = 0..(n - 1) /\ capacityOf = n
  BY <1>1, <1>2, CapacityIs
<1>4. nodePool' = [x \in 0..(n - 1) |-> NoKey]
  <2>1. nodePool' = Destroyed
    BY DEF ClearMap
  <2> QED
    BY <1>3, <2>1, DestroyedIs DEF Destroyed
<1>5. PICK m \in Nat : m = Len(indexStack)
  BY Lengths
<1>6. m <= n
  BY <1>3, <1>5, Lengths DEF BstInv, StackInv
<1>7. nodeList' = <<>> /\ indexStack' = Iota(m)
  BY <1>5 DEF ClearMap
<1> QED
  BY <1>2, <1>4, <1>5, <1>6, <1>7, Emptied

LEMMA ResizeMapLeaves ==
  ASSUME BstInv, NEW c \in MapSizes, ResizeMap(c)
  PROVE  BstInv' /\ Len(indexStack') = Largest(c) /\ Len(nodeList') = 0
<1>1. PICK n \in Nat \ {0} : n = Largest(c)
  BY LargestType
<1>2. PICK k \in Nat \ {0} : DOMAIN nodePool = 0..(k - 1) /\ capacityOf = k
  BY Lengths
<1>3. \A x \in 0..(n - 1) : x < k => Destroyed[x] = NoKey
  BY <1>2, DestroyedIs
<1>4. nodePool' = [x \in 0..(n - 1) |-> IF x < k THEN Destroyed[x] ELSE NoKey]
  BY <1>1, <1>2 DEF ResizeMap
<1>5. nodePool' = [x \in 0..(n - 1) |-> NoKey]
  BY <1>3, <1>4
<1>6. nodeList' = <<>> /\ indexStack' = Iota(n)
  BY <1>1 DEF ResizeMap
<1> QED
  BY <1>1, <1>5, <1>6, Emptied

-----------------------------------------------------------------------------
(* The steps and the first theorem.                                          *)

LEMMA BstStep == BstInv /\ [bstNext]_bstVars => BstInv'
<1> SUFFICES ASSUME BstInv, [bstNext]_bstVars PROVE BstInv'
  OBVIOUS
<1>1. CASE UNCHANGED <<indexStack, nodePool, nodeList>>
  BY <1>1, SameBst
<1>2. ASSUME NEW key \in Keys, Add(key) PROVE BstInv'
  <2>1. CASE IsAt(LowerBound(key), key) \/ indexStack = <<>>
    <3>1. UNCHANGED <<indexStack, nodePool, nodeList>>
      BY <1>2, <2>1 DEF Add
    <3> QED
      BY <3>1, SameBst
  <2>2. CASE ~IsAt(LowerBound(key), key) /\ indexStack # <<>>
    <3>1. PICK node : node = indexStack[Len(indexStack)]
      OBVIOUS
    <3>2. /\ indexStack' = SubSeq(indexStack, 1, Len(indexStack) - 1)
          /\ nodePool' = [nodePool EXCEPT ![node] = key]
          /\ nodeList' = Emplaced(LowerBound(key), node)
      BY <1>2, <2>2, <3>1 DEF Add
    <3> QED
      BY <2>2, <3>1, <3>2, Added
  <2> QED
    BY <2>1, <2>2
<1>3. ASSUME NEW key \in Keys, Remove(key) PROVE BstInv'
  <2>1. CASE ~IsAt(LowerBound(key), key)
    <3>1. UNCHANGED <<indexStack, nodePool, nodeList>>
      BY <1>3, <2>1 DEF Remove
    <3> QED
      BY <3>1, SameBst
  <2>2. CASE IsAt(LowerBound(key), key)
    <3>1. PICK node : node = nodeList[LowerBound(key)]
      OBVIOUS
    <3>2. /\ nodePool' = [nodePool EXCEPT ![node] = NoKey]
          /\ nodeList' = Erased(LowerBound(key))
          /\ indexStack' = Append(indexStack, node)
      BY <1>3, <2>2, <3>1 DEF Remove
    <3> QED
      BY <2>2, <3>1, <3>2, Removed
  <2> QED
    BY <2>1, <2>2
<1>4. ASSUME NEW key \in Keys, Contain(key) PROVE BstInv'
  BY <1>4, SameBst DEF Contain
<1>5. CASE FindMinKey
  BY <1>5, SameBst DEF FindMinKey
<1>6. CASE ClearMap
  BY <1>6, ClearMapLeaves
<1>7. ASSUME NEW c \in MapSizes, ResizeMap(c) PROVE BstInv'
  BY <1>7, ResizeMapLeaves
<1> QED
  BY <1>1, <1>2, <1>3, <1>4, <1>5, <1>6, <1>7 DEF bstNext, bstVars

LEMMA BstInvariant == bstSpec => []BstInv
BY InitBst, BstStep, PTL DEF bstSpec

\* The map and its pool agree: the list is sorted without duplicates, a storage
\* holds a value exactly while the list points to it, and no index is free
\* twice or while a node is there.
THEOREM MapIsSound == bstSpec => []NodesAccounted
<1>1. BstInv => NodesAccounted
  <2> SUFFICES ASSUME BstInv PROVE NodesAccounted
    OBVIOUS
  <2>1. DOMAIN nodeList = 1..Len(nodeList) /\ DOMAIN indexStack = 1..Len(indexStack)
    BY Lengths
  <2>2. \A i, j \in DOMAIN nodeList : i < j => KeyAt(i) < KeyAt(j)
    BY <2>1 DEF BstInv, ListInv
  <2>3. {x \in DOMAIN nodePool : nodePool[x] # NoKey} = {nodeList[i] : i \in DOMAIN nodeList}
    <3>1. ASSUME NEW x \in DOMAIN nodePool, nodePool[x] # NoKey
          PROVE  x \in {nodeList[i] : i \in DOMAIN nodeList}
      BY <2>1, <3>1 DEF BstInv, ListInv
    <3>2. ASSUME NEW i \in DOMAIN nodeList
          PROVE  nodeList[i] \in DOMAIN nodePool /\ nodePool[nodeList[i]] # NoKey
      BY <2>1, ListKeys DEF KeyAt
    <3> QED
      BY <3>1, <3>2
  <2>4. \A i, j \in DOMAIN indexStack : i # j => indexStack[i] # indexStack[j]
    BY <2>1 DEF BstInv, StackInv
  <2>5. \A i \in DOMAIN indexStack :
          indexStack[i] \in DOMAIN nodePool /\ nodePool[indexStack[i]] = NoKey
    BY <2>1 DEF BstInv, StackInv
  <2> QED
    BY <2>2, <2>3, <2>4, <2>5 DEF NodesAccounted
<1> QED
  BY <1>1, BstInvariant, PTL

-----------------------------------------------------------------------------
(* The refinement: the keys of the list and the places of their nodes.       *)

\* PlaceOf, of a list and a pool.
PlaceIn(l, p) ==
  [key \in {p[l[i]] : i \in DOMAIN l} |-> l[CHOOSE i \in DOMAIN l : p[l[i]] = key]]

\* A list and a pool that agree.
Agree(l, p, n) ==
  /\ n \in Nat /\ DOMAIN l = 1..n
  /\ \A i \in 1..n : l[i] \in DOMAIN p /\ p[l[i]] # NoKey /\ p[l[i]] \in Nat
  /\ \A i, j \in 1..n : i < j => p[l[i]] < p[l[j]]
  /\ \A x \in DOMAIN p : p[x] # NoKey => \E i \in 1..n : l[i] = x

\* The storage of a key is the one that holds it.
LEMMA PlaceIs ==
  ASSUME NEW l, NEW p, NEW n, Agree(l, p, n)
  PROVE  /\ DOMAIN PlaceIn(l, p) = {p[x] : x \in DOMAIN p} \ {NoKey}
         /\ \A x \in DOMAIN p : p[x] # NoKey => PlaceIn(l, p)[p[x]] = x
         /\ IsFiniteSet(DOMAIN PlaceIn(l, p)) /\ Cardinality(DOMAIN PlaceIn(l, p)) = n
<1>1. PICK f : f = PlaceIn(l, p)
  OBVIOUS
<1>2. DOMAIN l = 1..n /\ n \in Nat
  BY DEF Agree
<1>3. PICK K : K = {p[l[i]] : i \in 1..n}
  OBVIOUS
<1>4. f = [key \in K |-> l[CHOOSE i \in 1..n : p[l[i]] = key]]
  BY <1>1, <1>2, <1>3 DEF PlaceIn
<1>5. ASSUME NEW i \in 1..n, NEW j \in 1..n, p[l[i]] = p[l[j]] PROVE i = j
  <2>1. i < j \/ j < i \/ i = j
    BY <1>2
  <2>2. p[l[i]] \in Nat /\ p[l[j]] \in Nat
    BY DEF Agree
  <2> QED
    BY <1>5, <2>1, <2>2 DEF Agree
<1>6. ASSUME NEW i \in 1..n PROVE p[l[i]] \in K /\ f[p[l[i]]] = l[i]
  <2>1. PICK k : k = p[l[i]]
    OBVIOUS
  <2>2. k \in K
    BY <1>3, <2>1
  <2>3. PICK j : j = CHOOSE m \in 1..n : p[l[m]] = k
    OBVIOUS
  <2>4. j \in 1..n /\ p[l[j]] = k
    BY <2>1, <2>3
  <2>5. j = i
    BY <1>5, <2>1, <2>4
  <2>6. f[k] = l[j]
    BY <1>4, <2>2, <2>3
  <2> QED
    BY <2>1, <2>2, <2>5, <2>6
<1>7. K = {p[x] : x \in DOMAIN p} \ {NoKey}
  BY <1>3 DEF Agree
<1>8. DOMAIN f = K
  BY <1>4
<1>9. \A x \in DOMAIN p : p[x] # NoKey => f[p[x]] = x
  BY <1>6 DEF Agree
<1>10. IsFiniteSet(K) /\ Cardinality(K) = n
  <2>1. PICK g : g = [i \in 1..n |-> p[l[i]]]
    OBVIOUS
  <2>2. g \in Bijection(1..n, K)
    <3>1. g \in [1..n -> K] /\ \A i, j \in 1..n : g[i] = g[j] => i = j
      BY <1>5, <1>6, <2>1
    <3>2. \A k \in K : \E i \in 1..n : g[i] = k
      BY <1>3, <2>1
    <3> QED
      BY <3>1, <3>2 DEF Bijection, Injection, IsInjective, Surjection
  <2>3. IsFiniteSet(1..n) /\ Cardinality(1..n) = n
    BY <1>2, FS_Interval
  <2> QED
    BY <2>2, <2>3, FS_Bijection DEF ExistsBijection
<1> QED
  BY <1>1, <1>7, <1>8, <1>9, <1>10

\* So the places are a function of the pool alone.
KeysHeld(p) == {p[x] : x \in DOMAIN p} \ {NoKey}

LEMMA PlacesNow ==
  ASSUME BstInv
  PROVE  /\ DOMAIN PlaceOf = KeysHeld(nodePool)
         /\ \A x \in DOMAIN nodePool : nodePool[x] # NoKey => PlaceOf[nodePool[x]] = x
         /\ Cardinality(DOMAIN PlaceOf) = Len(nodeList)
<1>1. PICK n \in Nat : n = Len(nodeList) /\ DOMAIN nodeList = 1..n
  BY Lengths
<1>2. \A i \in 1..n : nodeList[i] \in DOMAIN nodePool
  BY <1>1, ListKeys
<1>3. \A i \in 1..n : nodePool[nodeList[i]] # NoKey /\ nodePool[nodeList[i]] \in Nat
  BY <1>1, ListKeys DEF KeyAt
<1>4. Agree(nodeList, nodePool, n)
  BY <1>1, <1>2, <1>3 DEF BstInv, ListInv, Agree, KeyAt
<1>5. PlaceOf = PlaceIn(nodeList, nodePool)
  BY DEF PlaceOf, PlaceIn, KeysIn, KeyAt
<1>6. /\ DOMAIN PlaceIn(nodeList, nodePool) = {nodePool[x] : x \in DOMAIN nodePool} \ {NoKey}
      /\ \A x \in DOMAIN nodePool :
           nodePool[x] # NoKey => PlaceIn(nodeList, nodePool)[nodePool[x]] = x
      /\ Cardinality(DOMAIN PlaceIn(nodeList, nodePool)) = n
  BY <1>4, PlaceIs, Zenon
<1> QED
  BY <1>1, <1>5, <1>6, Zenon DEF KeysHeld

LEMMA PlacesNext ==
  ASSUME BstInv'
  PROVE  /\ DOMAIN PlaceOf' = KeysHeld(nodePool')
         /\ \A x \in DOMAIN nodePool' : nodePool'[x] # NoKey => PlaceOf'[nodePool'[x]] = x
<1>1. PICK n \in Nat : n = Len(nodeList') /\ DOMAIN nodeList' = 1..n
  BY DEF BstInv, ListInv
<1>2. \A i \in 1..n : nodeList'[i] \in DOMAIN nodePool'
  BY <1>1 DEF BstInv, ListInv
<1>3. \A x \in DOMAIN nodePool' : nodePool'[x] \in Keys \cup {NoKey}
  BY DEF BstInv, PoolInv
<1>4. \A i \in 1..n : nodePool'[nodeList'[i]] # NoKey
  BY <1>1 DEF BstInv, ListInv, KeyAt
<1>5. \A i \in 1..n : nodePool'[nodeList'[i]] \in Nat
  BY <1>2, <1>3, <1>4, BstAssumption
<1>6. Agree(nodeList', nodePool', n)
  BY <1>1, <1>2, <1>4, <1>5 DEF BstInv, ListInv, Agree, KeyAt
<1>7. PlaceOf' = PlaceIn(nodeList', nodePool')
  BY DEF PlaceOf, PlaceIn, KeysIn, KeyAt
<1>8. /\ DOMAIN PlaceIn(nodeList', nodePool') = {nodePool'[x] : x \in DOMAIN nodePool'} \ {NoKey}
      /\ \A x \in DOMAIN nodePool' :
           nodePool'[x] # NoKey => PlaceIn(nodeList', nodePool')[nodePool'[x]] = x
  BY <1>6, PlaceIs, Zenon
<1> QED
  BY <1>7, <1>8, Zenon DEF KeysHeld

\* The places are a function.
LEMMA PlaceOfFunction ==
  /\ PlaceOf = [k \in DOMAIN PlaceOf |-> PlaceOf[k]]
  /\ PlaceOf' = [k \in DOMAIN PlaceOf' |-> PlaceOf'[k]]
BY DEF PlaceOf

\* What lower_bound finds is the place of the key.
LEMMA FoundAt ==
  ASSUME BstInv, NEW key \in Keys
  PROVE  /\ IsAt(LowerBound(key), key) <=> key \in DOMAIN PlaceOf
         /\ IsAt(LowerBound(key), key) => nodeList[LowerBound(key)] = PlaceOf[key]
<1>1. DOMAIN PlaceOf = {KeyAt(i) : i \in 1..Len(nodeList)}
  BY Lengths DEF PlaceOf, KeysIn
<1>2. IsAt(LowerBound(key), key) <=> key \in DOMAIN PlaceOf
  BY <1>1, IsAtIs
<1>3. ASSUME IsAt(LowerBound(key), key) PROVE nodeList[LowerBound(key)] = PlaceOf[key]
  <2>1. PICK p \in 1..Len(nodeList) : p = LowerBound(key)
    BY <1>3, IsAtIs
  <2>2. nodePool[nodeList[p]] = key
    BY <1>3, <2>1 DEF IsAt, KeyAt
  <2>3. nodeList[p] \in DOMAIN nodePool /\ key # NoKey
    BY ListKeys, BstAssumption
  <2> QED
    BY <2>1, <2>2, <2>3, PlacesNow
<1> QED
  BY <1>2, <1>3

\* The abstract module counts as this one does.
LEMMA SameCardinality ==
  ASSUME NEW S
  PROVE  Set!Cardinality(S) = Cardinality(S)
BY DEF Set!Cardinality, Cardinality

LEMMA Unmoved ==
  ASSUME UNCHANGED <<indexStack, nodePool, nodeList>>
  PROVE  PlaceOf' = PlaceOf /\ (Len(indexStack) + Len(nodeList))' = Len(indexStack) + Len(nodeList)
BY DEF PlaceOf, KeysIn, KeyAt

\* An added key has the place of its node, the other places are as they were.
LEMMA PlaceAdded ==
  ASSUME BstInv, BstInv', NEW key \in Keys, key \notin DOMAIN PlaceOf,
         NEW node \in DOMAIN nodePool, nodePool[node] = NoKey,
         nodePool' = [nodePool EXCEPT ![node] = key]
  PROVE  /\ PlaceOf' = [k \in DOMAIN PlaceOf \cup {key} |-> IF k = key THEN node ELSE PlaceOf[k]]
         /\ \A k \in DOMAIN PlaceOf : PlaceOf[k] # node
<1>1. PICK N : N = DOMAIN nodePool
  OBVIOUS
<1>2. DOMAIN nodePool' = N /\ nodePool'[node] = key /\ \A x \in N : x # node => nodePool'[x] = nodePool[x]
  BY <1>1
<1>3. key # NoKey
  BY BstAssumption
<1>4. PICK H : H = DOMAIN PlaceOf
  OBVIOUS
<1>5. H = {nodePool[x] : x \in N} \ {NoKey}
  BY <1>1, <1>4, PlacesNow DEF KeysHeld
<1>6. DOMAIN PlaceOf' = H \cup {key}
  <2>1. DOMAIN PlaceOf' = {nodePool'[x] : x \in N} \ {NoKey}
    BY <1>2, PlacesNext DEF KeysHeld
  <2>2. {nodePool'[x] : x \in N} \ {NoKey} = H \cup {key}
    BY <1>1, <1>2, <1>3, <1>5
  <2> QED
    BY <2>1, <2>2
<1>7. PlaceOf'[key] = node
  BY <1>1, <1>2, <1>3, PlacesNext
<1>8. ASSUME NEW k \in H PROVE PlaceOf'[k] = PlaceOf[k] /\ PlaceOf[k] # node /\ k # key
  <2>1. PICK x \in N : nodePool[x] = k /\ k # NoKey
    BY <1>5
  <2>2. x # node /\ nodePool'[x] = k
    BY <1>2, <2>1
  <2>3. PlaceOf[k] = x
    BY <1>1, <2>1, PlacesNow
  <2>4. PlaceOf'[k] = x
    BY <1>2, <2>1, <2>2, PlacesNext
  <2> QED
    BY <1>4, <2>2, <2>3, <2>4
<1>9. PICK f : f = PlaceOf'
  OBVIOUS
<1>10. f = [k \in H \cup {key} |-> f[k]]
  BY <1>6, <1>9, PlaceOfFunction
<1>11. f = [k \in H \cup {key} |-> IF k = key THEN node ELSE PlaceOf[k]]
  BY <1>7, <1>8, <1>9, <1>10
<1> QED
  BY <1>4, <1>8, <1>9, <1>11

LEMMA PlaceRemoved ==
  ASSUME BstInv, BstInv', NEW key \in Keys,
         NEW node \in DOMAIN nodePool, nodePool[node] = key,
         nodePool' = [nodePool EXCEPT ![node] = NoKey]
  PROVE  PlaceOf' = [k \in DOMAIN PlaceOf \ {key} |-> PlaceOf[k]]
<1>1. PICK N : N = DOMAIN nodePool
  OBVIOUS
<1>2. DOMAIN nodePool' = N /\ nodePool'[node] = NoKey /\ \A x \in N : x # node => nodePool'[x] = nodePool[x]
  BY <1>1
<1>3. key # NoKey
  BY BstAssumption
<1>4. PICK H : H = DOMAIN PlaceOf
  OBVIOUS
<1>5. H = {nodePool[x] : x \in N} \ {NoKey}
  BY <1>1, <1>4, PlacesNow DEF KeysHeld
<1>6. ASSUME NEW x \in N, nodePool[x] = key PROVE x = node
  <2>1. PlaceOf[key] = x /\ PlaceOf[key] = node
    BY <1>1, <1>3, <1>6, PlacesNow
  <2> QED
    BY <2>1
<1>7. DOMAIN PlaceOf' = H \ {key}
  <2>1. DOMAIN PlaceOf' = {nodePool'[x] : x \in N} \ {NoKey}
    BY <1>2, PlacesNext DEF KeysHeld
  <2>2. {nodePool'[x] : x \in N} \ {NoKey} = H \ {key}
    BY <1>1, <1>2, <1>3, <1>5, <1>6
  <2> QED
    BY <2>1, <2>2
<1>8. ASSUME NEW k \in H \ {key} PROVE PlaceOf'[k] = PlaceOf[k]
  <2>1. PICK x \in N : nodePool[x] = k /\ k # NoKey
    BY <1>5
  <2>2. x # node /\ nodePool'[x] = k
    BY <1>2, <2>1
  <2>3. PlaceOf[k] = x
    BY <1>1, <2>1, PlacesNow
  <2>4. PlaceOf'[k] = x
    BY <1>2, <2>1, <2>2, PlacesNext
  <2> QED
    BY <2>3, <2>4
<1>9. PICK f : f = PlaceOf'
  OBVIOUS
<1>10. f = [k \in H \ {key} |-> f[k]]
  BY <1>7, <1>9, PlaceOfFunction
<1>11. f = [k \in H \ {key} |-> PlaceOf[k]]
  BY <1>8, <1>9, <1>10
<1> QED
  BY <1>4, <1>9, <1>11

LEMMA NoPlaces ==
  /\ nodeList = <<>> => PlaceOf = Set!Nobody
  /\ nodeList' = <<>> => PlaceOf' = Set!Nobody
<1>1. ASSUME nodeList = <<>> PROVE PlaceOf = Set!Nobody
  <2>1. KeysIn = {}
    BY <1>1 DEF KeysIn
  <2> QED
    BY <2>1 DEF PlaceOf, Set!Nobody
<1>2. ASSUME nodeList' = <<>> PROVE PlaceOf' = Set!Nobody
  <2>1. KeysIn' = {}
    BY <1>2 DEF KeysIn
  <2> QED
    BY <2>1 DEF PlaceOf, Set!Nobody
<1> QED
  BY <1>1, <1>2


LEMMA AddRefines ==
  ASSUME BstInv, NEW key \in Keys, Add(key)
  PROVE  Set!Insert(key)
<1>1. IsAt(LowerBound(key), key) <=> key \in DOMAIN PlaceOf
  BY FoundAt
<1>2. CASE IsAt(LowerBound(key), key)
  <2>1. UNCHANGED <<indexStack, nodePool, nodeList>> /\ reply' = Reply("present")
    BY <1>2 DEF Add
  <2>2. PlaceOf' = PlaceOf /\ (Len(indexStack) + Len(nodeList))' = Len(indexStack) + Len(nodeList)
    BY <2>1, Unmoved
  <2> QED
    BY <1>1, <1>2, <2>1, <2>2, Zenon DEF Set!Insert, Set!KeysOf, Set!Answer, Reply
<1>3. CASE ~IsAt(LowerBound(key), key) /\ indexStack = <<>>
  <2>1. UNCHANGED <<indexStack, nodePool, nodeList>> /\ reply' = ReplyKey("overflow", key)
    BY <1>3 DEF Add
  <2>2. PlaceOf' = PlaceOf /\ (Len(indexStack) + Len(nodeList))' = Len(indexStack) + Len(nodeList)
    BY <2>1, Unmoved
  <2>3. Cardinality(DOMAIN PlaceOf) = Len(indexStack) + Len(nodeList)
    <3>1. Len(indexStack) = 0
      BY <1>3
    <3>2. Len(nodeList) \in Nat
      BY Lengths
    <3>3. 0 + Len(nodeList) = Len(nodeList)
      BY <3>2
    <3> QED
      BY <3>1, <3>3, PlacesNow
  <2> QED
    BY <1>1, <1>3, <2>1, <2>2, <2>3, SameCardinality, Zenon
    DEF Set!Insert, Set!KeysOf, Set!AnswerKey, ReplyKey
<1>4. CASE ~IsAt(LowerBound(key), key) /\ indexStack # <<>>
  <2>1. PICK node : node = indexStack[Len(indexStack)]
    OBVIOUS
  <2>2. /\ indexStack' = SubSeq(indexStack, 1, Len(indexStack) - 1)
        /\ nodePool' = [nodePool EXCEPT ![node] = key]
        /\ nodeList' = Emplaced(LowerBound(key), node)
        /\ reply' = ReplyAt("added", node)
    BY <1>4, <2>1 DEF Add
  <2>3. BstInv' /\ Len(indexStack') + Len(nodeList') = Len(indexStack) + Len(nodeList)
    BY <1>4, <2>1, <2>2, Added
  <2>4. PICK m \in Nat \ {0} : m = Len(indexStack)
    BY <1>4, Lengths DEF BstInv, StackInv
  <2>5. node \in DOMAIN nodePool /\ nodePool[node] = NoKey
    BY <2>1, <2>4 DEF BstInv, StackInv
  <2>6. /\ PlaceOf' = [k \in DOMAIN PlaceOf \cup {key} |-> IF k = key THEN node ELSE PlaceOf[k]]
        /\ \A k \in DOMAIN PlaceOf : PlaceOf[k] # node
    BY <1>1, <1>4, <2>2, <2>3, <2>5, PlaceAdded
  <2>7. Cardinality(DOMAIN PlaceOf) < Len(indexStack) + Len(nodeList)
    <3>1. Len(nodeList) \in Nat
      BY Lengths
    <3>2. Len(nodeList) < m + Len(nodeList)
      BY <2>4, <3>1
    <3> QED
      BY <2>4, <3>2, PlacesNow
  <2>8. node \in Set!Indexes
    <3>1. PICK c \in MapSizes : DOMAIN nodePool = 0..(Largest(c) - 1)
      BY DEF BstInv, PoolInv
    <3>2. Set!AtLeastOne(c) = Largest(c)
      BY DEF Set!AtLeastOne, Largest
    <3>3. node \in 0..(Set!AtLeastOne(c) - 1)
      BY <2>5, <3>1, <3>2
    <3> QED
      BY <3>3 DEF Set!Indexes
  <2>9. node \notin Set!Taken
    BY <2>6 DEF Set!Taken, Set!KeysOf
  <2> QED
    BY <1>1, <1>4, <2>2, <2>3, <2>6, <2>7, <2>8, <2>9, SameCardinality, Zenon
    DEF Set!Insert, Set!KeysOf, Set!AnswerAt, ReplyAt
<1> QED
  BY <1>2, <1>3, <1>4

LEMMA RemoveRefines ==
  ASSUME BstInv, NEW key \in Keys, Remove(key)
  PROVE  Set!Erase(key)
<1>1. /\ IsAt(LowerBound(key), key) <=> key \in DOMAIN PlaceOf
      /\ IsAt(LowerBound(key), key) => nodeList[LowerBound(key)] = PlaceOf[key]
  BY FoundAt
<1>2. CASE ~IsAt(LowerBound(key), key)
  <2>1. UNCHANGED <<indexStack, nodePool, nodeList>> /\ reply' = Reply("absent")
    BY <1>2 DEF Remove
  <2>2. PlaceOf' = PlaceOf /\ (Len(indexStack) + Len(nodeList))' = Len(indexStack) + Len(nodeList)
    BY <2>1, Unmoved
  <2> QED
    BY <1>1, <1>2, <2>1, <2>2, Zenon DEF Set!Erase, Set!KeysOf, Set!Answer, Reply
<1>3. CASE IsAt(LowerBound(key), key)
  <2>1. PICK node : node = nodeList[LowerBound(key)]
    OBVIOUS
  <2>2. /\ nodePool' = [nodePool EXCEPT ![node] = NoKey]
        /\ nodeList' = Erased(LowerBound(key))
        /\ indexStack' = Append(indexStack, node)
        /\ reply' = ReplyAt("removed", node)
    BY <1>3, <2>1 DEF Remove
  <2>3. /\ BstInv' /\ Len(indexStack') + Len(nodeList') = Len(indexStack) + Len(nodeList)
        /\ node \in DOMAIN nodePool /\ nodePool[node] = key
    BY <1>3, <2>1, <2>2, Removed
  <2>4. PlaceOf' = [k \in DOMAIN PlaceOf \ {key} |-> PlaceOf[k]]
    BY <2>2, <2>3, PlaceRemoved
  <2>5. node = PlaceOf[key]
    BY <1>1, <1>3, <2>1
  <2> QED
    BY <1>1, <1>3, <2>2, <2>3, <2>4, <2>5, Zenon DEF Set!Erase, Set!KeysOf, Set!AnswerAt, ReplyAt
<1> QED
  BY <1>2, <1>3

LEMMA ContainRefines ==
  ASSUME BstInv, NEW key \in Keys, Contain(key)
  PROVE  Set!Find(key)
<1>1. /\ IsAt(LowerBound(key), key) <=> key \in DOMAIN PlaceOf
      /\ IsAt(LowerBound(key), key) => nodeList[LowerBound(key)] = PlaceOf[key]
  BY FoundAt
<1>2. UNCHANGED <<indexStack, nodePool, nodeList>>
  BY DEF Contain
<1>3. PlaceOf' = PlaceOf /\ (Len(indexStack) + Len(nodeList))' = Len(indexStack) + Len(nodeList)
  BY <1>2, Unmoved
<1>4. reply' = IF IsAt(LowerBound(key), key) THEN ReplyAt("present", nodeList[LowerBound(key)])
                                             ELSE Reply("absent")
  BY DEF Contain
<1>5. reply' = IF key \in DOMAIN PlaceOf THEN ReplyAt("present", PlaceOf[key]) ELSE Reply("absent")
  BY <1>1, <1>4, Zenon
<1> QED
  BY <1>3, <1>5, Zenon DEF Set!Find, Set!KeysOf, Set!AnswerAt, Set!Answer, ReplyAt, Reply

LEMMA FindMinRefines ==
  ASSUME BstInv, FindMinKey
  PROVE  Set!FindLeast
<1>1. UNCHANGED <<indexStack, nodePool, nodeList>>
  BY DEF FindMinKey
<1>2. PlaceOf' = PlaceOf /\ (Len(indexStack) + Len(nodeList))' = Len(indexStack) + Len(nodeList)
  BY <1>1, Unmoved
<1>3. PICK n \in Nat : n = Len(nodeList) /\ DOMAIN nodeList = 1..n
  BY Lengths
<1>4. DOMAIN PlaceOf = {KeyAt(i) : i \in 1..n}
  BY <1>3 DEF PlaceOf, KeysIn
<1>5. CASE nodeList = <<>>
  <2>1. reply' = Reply("none")
    BY <1>5 DEF FindMinKey
  <2>2. DOMAIN PlaceOf = {}
    BY <1>3, <1>4, <1>5
  <2> QED
    BY <1>2, <2>1, <2>2, Zenon DEF Set!FindLeast, Set!KeysOf, Set!Answer, Reply
<1>6. CASE nodeList # <<>>
  <2>1. reply' = ReplyKey("min", KeyAt(1))
    BY <1>6 DEF FindMinKey
  <2>2. n # 0
    BY <1>3, <1>6 DEF BstInv, ListInv
  <2>3. 1 \in 1..n
    BY <2>2
  <2>4. \A i, j \in 1..n : i < j => KeyAt(i) < KeyAt(j)
    BY <1>3 DEF BstInv, ListInv
  <2>5. \A i \in 1..n : KeyAt(i) \in Nat /\ KeyAt(i) \in Keys
    BY <1>3, ListKeys
  <2>6. \A i \in 1..n : KeyAt(1) <= KeyAt(i)
    <3> SUFFICES ASSUME NEW i \in 1..n PROVE KeyAt(1) <= KeyAt(i)
      OBVIOUS
    <3>1. i = 1 \/ 1 < i
      OBVIOUS
    <3> QED
      BY <2>3, <2>4, <2>5, <3>1
  <2>7. KeyAt(1) \in DOMAIN PlaceOf /\ \A k \in DOMAIN PlaceOf : KeyAt(1) <= k
    BY <1>4, <2>3, <2>6
  <2> QED
    BY <1>2, <2>1, <2>7, Zenon DEF Set!FindLeast, Set!KeysOf, Set!AnswerKey, ReplyKey
<1> QED
  BY <1>5, <1>6

LEMMA ClearMapRefines ==
  ASSUME BstInv, ClearMap
  PROVE  Set!Empty
<1>1. Len(indexStack') = Len(indexStack) /\ Len(nodeList') = 0
  BY ClearMapLeaves
<1>2. nodeList' = <<>> /\ reply' = Reply("none")
  BY DEF ClearMap
<1>3. PICK m \in Nat : m = Len(indexStack)
  BY Lengths
<1>4. PICK n \in Nat : n = Len(nodeList)
  BY Lengths
<1>5. Cardinality(DOMAIN PlaceOf) = n
  BY <1>4, PlacesNow
<1>6. m + 0 = (m + n) - n
  BY <1>3, <1>4
<1>7. Len(indexStack') + Len(nodeList') = (Len(indexStack) + Len(nodeList)) - Cardinality(DOMAIN PlaceOf)
  BY <1>1, <1>3, <1>4, <1>5, <1>6, Zenon
<1> QED
  BY <1>2, <1>7, NoPlaces, SameCardinality, Zenon
  DEF Set!Empty, Set!KeysOf, Set!Answer, Reply

LEMMA ResizeRefines ==
  ASSUME BstInv, NEW c \in MapSizes, ResizeMap(c)
  PROVE  Set!Resize(c)
<1>1. Len(indexStack') = Largest(c) /\ Len(nodeList') = 0
  BY ResizeMapLeaves
<1>2. nodeList' = <<>> /\ reply' = Reply("none")
  BY DEF ResizeMap
<1>3. Largest(c) + 0 = Largest(c)
  BY LargestType
<1>4. Len(indexStack') + Len(nodeList') = Set!AtLeastOne(c)
  BY <1>1, <1>3 DEF Set!AtLeastOne, Largest
<1> QED
  BY <1>2, <1>4, NoPlaces, Zenon DEF Set!Resize, Set!Answer, Reply

\* The sorted list, the pool and the stack implement the set of keys: what is
\* answered is what the set would answer, the index of a key never changes
\* while the key stays, and a new key is refused only if the free indexes are
\* used up (clear() loses some).
THEOREM MapIsKeySet == bstSpec => IsKeySet
<1>1. bstInit => Set!keySetInit
  <2> SUFFICES ASSUME bstInit PROVE Set!keySetInit
    OBVIOUS
  <2>1. PICK c \in MapSizes : indexStack = Iota(Largest(c)) /\ nodeList = <<>> /\ reply = Reply("none")
    BY DEF bstInit
  <2>2. PICK n \in Nat \ {0} : n = Largest(c)
    BY LargestType
  <2>3. Len(Iota(n)) = n
    BY <2>2, IotaIs
  <2>4. n + 0 = n /\ Len(<<>>) = 0
    BY <2>2
  <2>5. Len(indexStack) + Len(nodeList) = n
    BY <2>1, <2>2, <2>3, <2>4, Zenon
  <2>6. n = Set!AtLeastOne(c)
    BY <2>2 DEF Largest, Set!AtLeastOne
  <2> QED
    BY <2>1, <2>5, <2>6, NoPlaces, Zenon DEF Set!keySetInit, Set!Answer, Reply
<1>2. BstInv /\ [bstNext]_bstVars => [Set!keySetNext]_(Set!keySetVars)
  <2> SUFFICES ASSUME BstInv, [bstNext]_bstVars
               PROVE  [Set!keySetNext]_(Set!keySetVars)
    OBVIOUS
  <2>1. CASE UNCHANGED bstVars
    <3>1. PlaceOf' = PlaceOf /\ (Len(indexStack) + Len(nodeList))' = Len(indexStack) + Len(nodeList)
      BY <2>1, Unmoved DEF bstVars
    <3>2. reply' = reply
      BY <2>1 DEF bstVars
    <3> QED
      BY <3>1, <3>2 DEF Set!keySetVars
  <2>2. ASSUME NEW key \in Keys, Add(key) PROVE Set!keySetNext
    BY <2>2, AddRefines DEF Set!keySetNext
  <2>3. ASSUME NEW key \in Keys, Remove(key) PROVE Set!keySetNext
    BY <2>3, RemoveRefines DEF Set!keySetNext
  <2>4. ASSUME NEW key \in Keys, Contain(key) PROVE Set!keySetNext
    BY <2>4, ContainRefines DEF Set!keySetNext
  <2>5. CASE FindMinKey
    BY <2>5, FindMinRefines DEF Set!keySetNext
  <2>6. CASE ClearMap
    BY <2>6, ClearMapRefines DEF Set!keySetNext
  <2>7. ASSUME NEW c \in MapSizes, ResizeMap(c) PROVE Set!keySetNext
    BY <2>7, ResizeRefines DEF Set!keySetNext
  <2> QED
    BY <2>1, <2>2, <2>3, <2>4, <2>5, <2>6, <2>7 DEF bstNext
<1> QED
  BY <1>1, <1>2, BstInvariant, PTL DEF bstSpec, IsKeySet, Set!keySetSpec

-----------------------------------------------------------------------------
(* Queue objects: what the storages of a queue hold.                         *)

Stores == Items \cup {Raw, Stray}
QueueType == [elements : Seq(Stores), alive : BOOLEAN, room : Nat, resource : Resources,
              head : Nat, tail : Nat, free : Seq(Nat), allocated : Seq(Nat), moved : BOOLEAN]

\* The rings of a LockFreeQueue share out the storages, and those of the
\* allocated indexes hold what was asked to be kept.
RingsSound(o, a) ==
  /\ Len(o.free) + Len(o.allocated) = Len(o.elements)
  /\ \A k \in 1..Len(o.free) : o.free[k] \in 0..(Len(o.elements) - 1)
  /\ \A k \in 1..Len(o.allocated) : o.allocated[k] \in 0..(Len(o.elements) - 1)
  /\ \A k, l \in 1..Len(o.free) : o.free[k] = o.free[l] => k = l
  /\ \A k, l \in 1..Len(o.allocated) : o.allocated[k] = o.allocated[l] => k = l
  /\ \A k \in 1..Len(o.free), l \in 1..Len(o.allocated) : o.free[k] # o.allocated[l]
  /\ Len(a) = Len(o.allocated)
  /\ \A k \in 1..Len(a) : o.elements[o.allocated[k] + 1] = a[k]
  /\ \A i \in 1..Len(o.elements) :
       o.elements[i] \in Items => \E k \in 1..Len(a) : o.allocated[k] + 1 = i

\* The circle of a MutexQueue, unless it has been moved from.
Place(o, k) == (o.head + k - 1) % Len(o.elements)
CircleSound(o, a) == ~o.moved =>
  /\ o.elements # <<>> /\ o.head <= o.tail /\ o.tail - o.head <= Len(o.elements)
  /\ Len(a) = o.tail - o.head
  /\ \A k \in 1..Len(a) : o.elements[Place(o, k) + 1] = a[k]
  /\ \A i \in 1..Len(o.elements) :
       o.elements[i] \in Items => \E k \in 1..Len(a) : Place(o, k) + 1 = i

Sound(kind, o, a) ==
  /\ o \in QueueType /\ o.alive /\ a \in Seq(Items)
  /\ o.moved => o.elements = <<>> /\ a = <<>>
  /\ IF kind = "lock_free" THEN RingsSound(o, a) ELSE CircleSound(o, a)

\* What the two kinds have in common: the storages of the indexes hold what was
\* asked, the others nothing.
Holds(o, s, a) ==
  /\ s \in Seq(Nat) /\ Len(s) = Len(a)
  /\ \A k \in 1..Len(a) : s[k] + 1 \in 1..Len(o.elements) /\ o.elements[s[k] + 1] = a[k]
  /\ \A i \in 1..Len(o.elements) :
       o.elements[i] \in Items => \E k \in 1..Len(a) : s[k] + 1 = i

LEMMA TypedElements ==
  ASSUME NEW o \in QueueType
  PROVE  /\ o.elements \in Seq(Stores) /\ Len(o.elements) \in Nat
         /\ DOMAIN o.elements = 1..Len(o.elements)
         /\ o.elements \in [1..Len(o.elements) -> Stores]
         /\ o.free \in Seq(Nat) /\ o.allocated \in Seq(Nat) /\ o.head \in Nat /\ o.tail \in Nat
         /\ o.moved \in BOOLEAN /\ o.alive \in BOOLEAN /\ o.room \in Nat /\ o.resource \in Resources
         /\ Len(o.elements) = 0 <=> o.elements = <<>>
<1>1. o.elements \in Seq(Stores) /\ Len(o.elements) \in Nat
  BY LenProperties DEF QueueType
<1>2. DOMAIN o.elements = 1..Len(o.elements) /\ o.elements \in [1..Len(o.elements) -> Stores]
  BY <1>1, LenProperties
<1>3. Len(o.elements) = 0 <=> o.elements = <<>>
  BY <1>1, EmptySeq
<1> QED
  BY <1>1, <1>2, <1>3 DEF QueueType

\* A function on 1..n is a sequence of length n.
LEMMA Listed ==
  ASSUME NEW S, NEW n \in Nat, NEW f \in [1..n -> S]
  PROVE  f \in Seq(S) /\ Len(f) = n /\ DOMAIN f = 1..n
<1>1. f \in Seq(S)
  BY SeqDef
<1> QED
  BY <1>1, LenProperties

LEMMA SoundHolds ==
  ASSUME queueKind \in {"lock_free", "mutex"}, NEW o, NEW a, Sound(queueKind, o, a),
         o.moved => queueKind = "lock_free"
  PROVE  Holds(o, QueueIndexes(o), a) /\ sizeOf(o) = Len(a) /\ Len(a) \in Nat
<1>1. o \in QueueType /\ a \in Seq(Items) /\ Len(a) \in Nat
  BY LenProperties DEF Sound
<1>2. CASE queueKind = "lock_free"
  <2>1. RingsSound(o, a)
    BY <1>2 DEF Sound
  <2>2. QueueIndexes(o) = o.allocated /\ sizeOf(o) = Len(o.allocated)
    BY <1>2 DEF QueueIndexes, sizeOf
  <2>3. \A k \in 1..Len(a) : o.allocated[k] + 1 \in 1..Len(o.elements)
    BY <1>1, <2>1, TypedElements DEF RingsSound
  <2> QED
    BY <1>1, <2>1, <2>2, <2>3, TypedElements DEF RingsSound, Holds
<1>3. CASE queueKind = "mutex"
  <2>1. CircleSound(o, a) /\ ~o.moved
    BY <1>3 DEF Sound
  <2>2. /\ o.elements # <<>> /\ Len(a) = o.tail - o.head
        /\ o.head \in Nat /\ o.tail \in Nat /\ Len(o.elements) \in Nat \ {0}
    BY <1>1, <2>1, TypedElements DEF CircleSound
  <2>3. PICK s : s = [k \in 1..Len(a) |-> Place(o, k)]
    OBVIOUS
  <2>4. QueueIndexes(o) = s /\ sizeOf(o) = Len(a)
    BY <1>3, <2>2, <2>3 DEF QueueIndexes, sizeOf, Place
  <2>5. \A k \in 1..Len(a) : Place(o, k) \in 0..(Len(o.elements) - 1)
    <3> SUFFICES ASSUME NEW k \in 1..Len(a) PROVE Place(o, k) \in 0..(Len(o.elements) - 1)
      OBVIOUS
    <3>1. o.head + k - 1 \in Nat
      BY <1>1, <2>2
    <3> QED
      BY <2>2, <3>1, ModRange DEF Place
  <2>6. s \in [1..Len(a) -> Nat]
    BY <2>2, <2>3, <2>5
  <2>7. s \in Seq(Nat) /\ Len(s) = Len(a)
    BY <1>1, <2>6, Listed
  <2>8. \A k \in 1..Len(a) : s[k] = Place(o, k) /\ s[k] + 1 \in 1..Len(o.elements)
    BY <2>2, <2>3, <2>5
  <2> QED
    BY <1>1, <2>1, <2>4, <2>7, <2>8 DEF Holds, CircleSound
<1> QED
  BY <1>2, <1>3

\* What becomes of a record whose elements and indexes are set anew.
SetTo(o, e, h, t, l, f) ==
  [o EXCEPT !.elements = e, !.head = h, !.tail = t, !.allocated = l, !.free = f]

LEMMA Rewritten ==
  ASSUME NEW o \in QueueType, NEW e \in Seq(Stores), NEW h \in Nat, NEW t \in Nat,
         NEW l \in Seq(Nat), NEW f \in Seq(Nat), NEW c,
         c = SetTo(o, e, h, t, l, f)
  PROVE  /\ c \in QueueType /\ c.elements = e /\ c.head = h /\ c.tail = t
         /\ c.allocated = l /\ c.free = f /\ c.alive = o.alive /\ c.moved = o.moved
         /\ c.resource = o.resource /\ c.room = o.room
<1>1. c \in QueueType
  BY DEF QueueType, SetTo
<1> QED
  BY <1>1 DEF QueueType, SetTo

\* A queue without elements.
Bare(kind, o) == /\ o \in QueueType /\ o.alive
                 /\ \A i \in 1..Len(o.elements) : o.elements[i] \notin Items
                 /\ o.allocated = <<>>
                 /\ kind = "mutex" => o.head = 0 /\ o.tail = 0

\* clear() destroys what is there, and nothing else.
LEMMA ClearedIs ==
  ASSUME queueKind \in {"lock_free", "mutex"}, NEW o, NEW a, Sound(queueKind, o, a),
         o.moved => queueKind = "lock_free", NEW c, c = cleared(o)
  PROVE  /\ Bare(queueKind, c) /\ c.moved = o.moved /\ c.resource = o.resource
         /\ Len(c.elements) = Len(o.elements)
<1> USE DEF Bare
<1> DEFINE n == Len(o.elements)
<1>1. PICK s : s = QueueIndexes(o)
  OBVIOUS
<1>2. Holds(o, s, a) /\ o \in QueueType /\ o.alive /\ a \in Seq(Items) /\ Len(a) \in Nat
  BY <1>1, SoundHolds DEF Sound
<1>3. DOMAIN s = 1..Len(a)
  BY <1>2, LenProperties DEF Holds
<1>4. /\ n \in Nat /\ DOMAIN o.elements = 1..n /\ o.elements \in [1..n -> Stores]
      /\ n = 0 <=> o.elements = <<>>
  BY <1>2, TypedElements
<1>5. CASE o.elements = <<>>
  <2>1. c = o
    BY <1>5 DEF cleared
  <2>2. queueKind = "lock_free"
    BY <1>5 DEF Sound, CircleSound
  <2>3. Len(o.allocated) = 0
    <3>1. Len(o.free) \in Nat /\ Len(o.allocated) \in Nat
      BY <1>2, TypedElements, LenProperties
    <3> QED
      BY <1>4, <1>5, <2>2, <3>1 DEF Sound, RingsSound
  <2>4. o.allocated = <<>>
    BY <1>2, <2>3, TypedElements, EmptySeq
  <2> QED
    BY <1>2, <1>4, <1>5, <2>1, <2>2, <2>4
<1>6. CASE o.elements # <<>>
  <2>1. \A i \in 1..n : o.elements[i] \in Items => i - 1 \in Range(s)
    <3> SUFFICES ASSUME NEW i \in 1..n, o.elements[i] \in Items PROVE i - 1 \in Range(s)
      OBVIOUS
    <3>1. PICK k \in 1..Len(a) : s[k] + 1 = i
      BY <1>2 DEF Holds
    <3>2. s[k] \in Nat
      BY <1>2, <1>3, ElementOfSeq DEF Holds
    <3>3. s[k] = i - 1
      BY <1>4, <3>1, <3>2
    <3>4. k \in DOMAIN s
      BY <1>3, <3>1
    <3> QED
      BY <3>3, <3>4 DEF Range
  <2>2. PICK e : e = [i \in 1..n |-> IF i - 1 \in Range(s) THEN Raw ELSE o.elements[i]]
    OBVIOUS
  <2>3. \A i \in 1..n : e[i] \notin Items
    BY <2>1, <2>2, ObjectAssumption
  <2>5. PICK f : f = IF queueKind = "lock_free" THEN [i \in 1..n |-> i - 1] ELSE o.free
    OBVIOUS
  <2>6. PICK l \in Seq(Nat) : l = <<>>
    BY EmptySeq
  <2>7. e \in [1..n -> Stores] /\ e \in Seq(Stores) /\ Len(e) = n
    <3>1. e \in [1..n -> Stores]
      BY <1>4, <2>2 DEF Stores
    <3> QED
      BY <1>4, <3>1, Listed
  <2>8. f \in Seq(Nat)
    <3>1. [i \in 1..n |-> i - 1] \in [1..n -> Nat]
      BY <1>4
    <3>2. [i \in 1..n |-> i - 1] \in Seq(Nat)
      BY <1>4, <3>1, Listed
    <3> QED
      BY <1>2, <2>5, <3>2, TypedElements
  <2>9. /\ c \in QueueType /\ c.elements = e /\ c.head = 0 /\ c.tail = 0 /\ c.allocated = l
        /\ c.alive = o.alive /\ c.moved = o.moved /\ c.resource = o.resource
    <3>1. c = SetTo(o, e, 0, 0, l, f)
      BY <1>1, <1>6, <2>2, <2>5, <2>6 DEF cleared, SetTo
    <3>2. o \in QueueType /\ e \in Seq(Stores) /\ 0 \in Nat /\ l \in Seq(Nat) /\ f \in Seq(Nat)
      BY <1>2, <2>7, <2>8
    <3> HIDE DEF n
    <3> QED
      BY <3>1, <3>2, Rewritten
  <2> QED
    BY <1>2, <1>4, <2>3, <2>6, <2>7, <2>9
<1> QED
  BY <1>5, <1>6

\* resize() of a vector whose storages hold no elements: moving them makes none.
LEMMA ResizedIs ==
  ASSUME NEW kind, NEW c, Bare(kind, c), NEW n \in Nat, NEW r, r = resize(c, n)
  PROVE  Bare(kind, r) /\ Len(r.elements) = n /\ r.moved = c.moved
<1>1. PICK e : e = [i \in 1..n |-> IF i > Len(c.elements) THEN Raw
                                  ELSE IF n > c.room THEN movedOver(c.elements[i])
                                  ELSE c.elements[i]]
  OBVIOUS
<1>2. /\ c \in QueueType /\ Len(c.elements) \in Nat /\ c.elements \in [1..Len(c.elements) -> Stores]
      /\ \A i \in 1..Len(c.elements) : c.elements[i] \notin Items
  BY TypedElements DEF Bare
<1>3. ASSUME NEW i \in 1..n PROVE e[i] \in Stores \ Items
  <2>1. i > Len(c.elements) \/ i \in 1..Len(c.elements)
    BY <1>2
  <2>2. \A x \in Stores \ Items : x \in Stores \ Items /\ movedOver(x) \in Stores \ Items
    BY ObjectAssumption DEF movedOver, Stores
  <2>3. Raw \in Stores \ Items
    BY ObjectAssumption DEF Stores
  <2> QED
    BY <1>1, <1>2, <2>1, <2>2, <2>3
<1>4. e \in [1..n -> Stores] /\ e \in Seq(Stores) /\ Len(e) = n
  <2>1. e \in [1..n -> Stores]
    BY <1>1, <1>3
  <2> QED
    BY <2>1, Listed
<1>5. PICK m : m = IF n <= c.room THEN c.room ELSE Longer(2 * Len(c.elements), n)
  OBVIOUS
<1>6. m \in Nat
  BY <1>2, <1>5, TypedElements DEF Longer
<1>7. r = [c EXCEPT !.elements = e, !.room = m]
  <2>1. r = [c EXCEPT !.elements = [i \in 1..n |->
                        IF i > Len(c.elements) THEN Raw
                        ELSE IF n > c.room THEN movedOver(c.elements[i]) ELSE c.elements[i]],
                      !.room = IF n <= c.room THEN c.room ELSE Longer(2 * Len(c.elements), n)]
    BY <1>2 DEF resize, QueueType
  <2> QED
    BY <1>1, <1>5, <2>1
<1>8. r \in QueueType
  BY <1>2, <1>4, <1>6, <1>7 DEF QueueType
<1>9. /\ r.elements = e /\ r.head = c.head /\ r.tail = c.tail /\ r.allocated = c.allocated
      /\ r.alive = c.alive /\ r.moved = c.moved
  BY <1>2, <1>7 DEF QueueType
<1> QED
  BY <1>3, <1>4, <1>8, <1>9 DEF Bare

\* A queue that holds nothing and has storages is sound.
LEMMA BareCircle ==
  ASSUME NEW o, Bare("mutex", o), o.elements # <<>>, ~o.moved
  PROVE  Sound("mutex", o, <<>>)
<1>1. <<>> \in Seq(Items) /\ Len(<<>>) = 0
  BY EmptySeq
<1>2. CircleSound(o, <<>>)
  BY <1>1, TypedElements DEF CircleSound, Bare
<1> QED
  BY <1>1, <1>2 DEF Sound, Bare

\* The second clear() of a LockFreeQueue sets up the rings.
LEMMA RingsSetUp ==
  ASSUME queueKind = "lock_free", NEW o, Bare("lock_free", o), o.elements # <<>>,
         NEW d, d = cleared(o)
  PROVE  /\ Bare("lock_free", d) /\ Len(d.elements) = Len(o.elements)
         /\ Len(d.free) = Len(d.elements) /\ \A k \in 1..Len(d.free) : d.free[k] = k - 1
<1> DEFINE n == Len(o.elements)
<1>1. n \in Nat /\ o \in QueueType /\ DOMAIN o.elements = 1..n /\ o.elements \in [1..n -> Stores]
  BY TypedElements DEF Bare
<1>2. PICK e : e = [i \in 1..n |-> IF i - 1 \in Range(QueueIndexes(o)) THEN Raw ELSE o.elements[i]]
  OBVIOUS
<1>3. \A i \in 1..n : e[i] \notin Items
  BY <1>2, ObjectAssumption DEF Bare
<1>4. e \in [1..n -> Stores]
  BY <1>1, <1>2 DEF Stores
<1>5. e \in Seq(Stores) /\ Len(e) = n
  BY <1>1, <1>4, Listed
<1>6. PICK f : f = [i \in 1..n |-> i - 1]
  OBVIOUS
<1>7. f \in Seq(Nat) /\ Len(f) = n
  <2>1. f \in [1..n -> Nat]
    BY <1>1, <1>6
  <2> QED
    BY <1>1, <2>1, Listed
<1>8. PICK l \in Seq(Nat) : l = <<>>
  BY EmptySeq
<1>9. d = SetTo(o, e, 0, 0, l, f)
  BY <1>2, <1>6, <1>8 DEF cleared, SetTo
<1>10. /\ d \in QueueType /\ d.elements = e /\ d.head = 0 /\ d.tail = 0 /\ d.allocated = l
       /\ d.free = f /\ d.alive = o.alive
  <2>1. o \in QueueType /\ e \in Seq(Stores) /\ 0 \in Nat /\ f \in Seq(Nat)
    BY <1>1, <1>5, <1>7
  <2> HIDE DEF n
  <2> QED
    BY <1>9, <2>1, Rewritten
<1> QED
  BY <1>3, <1>5, <1>6, <1>7, <1>8, <1>10 DEF Bare

LEMMA RingsBare ==
  ASSUME NEW o, Bare("lock_free", o), Len(o.free) = Len(o.elements),
         \A k \in 1..Len(o.free) : o.free[k] = k - 1, ~o.moved
  PROVE  Sound("lock_free", o, <<>>)
<1>1. <<>> \in Seq(Items) /\ Len(<<>>) = 0 /\ Len(o.allocated) = 0
  BY EmptySeq DEF Bare
<1>2. o \in QueueType /\ Len(o.elements) \in Nat
  BY TypedElements DEF Bare
<1>3. PICK n \in Nat : n = Len(o.elements)
  BY <1>2
<1>4. PICK f : f = o.free
  OBVIOUS
<1>5. /\ Len(f) = n /\ \A k \in 1..n : f[k] \in 0..(n - 1) /\ f[k] = k - 1
      /\ n + 0 = n /\ 1..0 = {}
  BY <1>3, <1>4
<1>6. \A k, l \in 1..n : f[k] = f[l] => k = l
  BY <1>5
<1>7. \A i \in 1..n : o.elements[i] \notin Items
  BY <1>3 DEF Bare
<1>8. RingsSound(o, <<>>)
  BY <1>1, <1>3, <1>4, <1>5, <1>6, <1>7 DEF RingsSound
<1> QED
  BY <1>1, <1>2, <1>8 DEF Sound, Bare

LEMMA StoragesAreSome ==
  ASSUME NEW cap \in ObjectCapacities, NEW o \in QueueType
  PROVE  storages(o, cap) \in Nat \ {0}
<1>1. Longer(1, cap) \in Nat \ {0}
  BY CapacitiesAreSizes DEF Longer
<1>2. Longer(Len(o.elements), bit_ceil(Longer(1, cap))) \in Nat \ {0}
  BY CapacitiesAreSizes, TypedElements DEF Longer
<1> QED
  BY <1>1, <1>2 DEF storages

\* setCapacity() leaves an empty queue that has storages, whatever was in it.
LEMMA WithCapacityIs ==
  ASSUME queueKind \in {"lock_free", "mutex"},
         NEW cap \in ObjectCapacities, NEW o \in QueueType, Bare(queueKind, cleared(o)),
         NEW w, w = withCapacity(o, cap)
  PROVE  Sound(queueKind, w, <<>>) /\ ~w.moved
<1>1. PICK m \in Nat \ {0} : m = storages(o, cap)
  BY StoragesAreSome
<1>2. PICK r : r = resize(cleared(o), m)
  OBVIOUS
<1>3. Bare(queueKind, r) /\ Len(r.elements) = m
  BY <1>2, ResizedIs
<1>4. r.elements # <<>>
  BY <1>1, <1>3, EmptySeq
<1>5. PICK d : d = IF queueKind = "lock_free" THEN cleared(r) ELSE r
  OBVIOUS
<1>6. w = [d EXCEPT !.moved = FALSE]
  BY <1>1, <1>2, <1>5 DEF withCapacity
<1>7. Bare(queueKind, d) /\ Len(d.elements) = m
  BY <1>3, <1>4, <1>5, RingsSetUp
<1>8. /\ w \in QueueType /\ w.elements = d.elements /\ w.head = d.head /\ w.tail = d.tail
      /\ w.free = d.free /\ w.allocated = d.allocated /\ w.alive = d.alive /\ w.moved = FALSE
  BY <1>6, <1>7 DEF Bare, QueueType
<1>9. Bare(queueKind, w) /\ w.elements # <<>>
  BY <1>7, <1>8, EmptySeq DEF Bare
<1>10. CASE queueKind = "mutex"
  BY <1>8, <1>9, <1>10, BareCircle
<1>11. CASE queueKind = "lock_free"
  <2>1. Len(w.free) = Len(w.elements) /\ \A k \in 1..Len(w.free) : w.free[k] = k - 1
    BY <1>3, <1>4, <1>5, <1>8, <1>11, RingsSetUp
  <2> QED
    BY <1>8, <1>9, <1>11, <2>1, RingsBare
<1> QED
  BY <1>10, <1>11

\* The next index goes from the free ones to the allocated ones.
LEMMA EnqueuedRings ==
  ASSUME NEW o \in QueueType, NEW a \in Seq(Items), RingsSound(o, a), Len(o.allocated) < Len(o.elements),
         NEW x \in Items, NEW d \in QueueType,
         d.elements = [o.elements EXCEPT ![Head(o.free) + 1] = x],
         d.free = Tail(o.free), d.allocated = Append(o.allocated, Head(o.free))
  PROVE  RingsSound(d, Append(a, x))
<1>1. /\ o.free \in Seq(Nat) /\ o.allocated \in Seq(Nat) /\ o.elements \in Seq(Stores)
      /\ Len(o.free) \in Nat /\ Len(o.allocated) \in Nat /\ Len(o.elements) \in Nat
  BY TypedElements, LenProperties
<1>2. PICK n \in Nat : n = Len(o.elements)
  BY <1>1
<1>3. PICK F \in Nat : F = Len(o.free)
  BY <1>1
<1>4. PICK L \in Nat : L = Len(o.allocated)
  BY <1>1
<1>5. PICK b : b = Append(a, x)
  OBVIOUS
<1>6. /\ F + L = n /\ Len(a) = L
      /\ \A k \in 1..F : o.free[k] \in 0..(n - 1)
      /\ \A k \in 1..L : o.allocated[k] \in 0..(n - 1)
      /\ \A k, l \in 1..F : o.free[k] = o.free[l] => k = l
      /\ \A k, l \in 1..L : o.allocated[k] = o.allocated[l] => k = l
      /\ \A k \in 1..F, l \in 1..L : o.free[k] # o.allocated[l]
      /\ \A k \in 1..L : o.elements[o.allocated[k] + 1] = a[k]
      /\ \A j \in 1..n : o.elements[j] \in Items => \E k \in 1..L : o.allocated[k] + 1 = j
  <2>1. Len(a) = L
    BY <1>4 DEF RingsSound
  <2> QED
    BY <1>2, <1>3, <1>4, <2>1, Zenon DEF RingsSound
<1>7. F \in Nat \ {0} /\ o.elements \in [1..n -> Stores] /\ DOMAIN o.elements = 1..n
  BY <1>1, <1>2, <1>4, <1>6, LenProperties
<1>8. PICK i \in 0..(n - 1) : i = o.free[1] /\ i = Head(o.free) /\ i \in Nat
  <2>1. Head(o.free) = o.free[1] /\ 1 \in 1..F
    BY <1>1, <1>3, <1>7, EmptySeq
  <2> QED
    BY <1>6, <2>1
<1>9. /\ Len(d.elements) = n /\ d.elements[i + 1] = x
      /\ \A j \in 1..n : j # i + 1 => d.elements[j] = o.elements[j]
  <2>1. d.elements \in [1..n -> Stores]
    BY <1>7, <1>8 DEF Stores
  <2>2. Len(d.elements) = n
    BY <1>7, <2>1, Listed
  <2> QED
    BY <1>7, <1>8, <2>2
<1>10. /\ Len(d.free) = F - 1 /\ \A k \in 1..(F - 1) : d.free[k] = o.free[k + 1]
  <2>1. o.free # <<>>
    BY <1>1, <1>3, <1>7, EmptySeq
  <2>2. /\ Len(Tail(o.free)) = Len(o.free) - 1
        /\ \A k \in 1..Len(Tail(o.free)) : Tail(o.free)[k] = o.free[k + 1]
    BY <1>1, <2>1, HeadTailProperties
  <2> QED
    BY <1>3, <2>2
<1>11. /\ Len(d.allocated) = L + 1 /\ \A k \in 1..L : d.allocated[k] = o.allocated[k]
      /\ d.allocated[L + 1] = i
  BY <1>1, <1>4, <1>8, AppendProperties
<1>12. Len(b) = L + 1 /\ b[L + 1] = x /\ \A k \in 1..L : b[k] = a[k]
  BY <1>6, <1>5, AppendProperties
<1>13. \A k \in 1..F : k # 1 => o.free[k] # i
  <2>1. 1 \in 1..F
    BY <1>7
  <2> QED
    BY <1>8, <1>6, <2>1
<1>14. \A k \in 1..L : o.allocated[k] # i /\ o.allocated[k] \in 0..(n - 1)
  <2>1. 1 \in 1..F
    BY <1>7
  <2> QED
    BY <1>8, <1>6, <2>1
<1>15. \A k \in 1..F : o.free[k] \in 0..(n - 1)
  BY <1>6
<1>16. \A k \in 1..(L + 1) : k \in 1..L \/ k = L + 1
  BY <1>7
<1>17. \A k \in 1..(F - 1) : k + 1 \in 1..F /\ k + 1 # 1
  BY <1>7
<1>18. \A k \in 1..(F - 1) : d.free[k] \in 0..(n - 1)
  BY <1>10, <1>15, <1>17
<1>19. \A k \in 1..(L + 1) : d.allocated[k] \in 0..(n - 1)
  BY <1>8, <1>11, <1>14, <1>16
<1>20. \A k, l \in 1..(F - 1) : d.free[k] = d.free[l] => k = l
  <2> SUFFICES ASSUME NEW k \in 1..(F - 1), NEW l \in 1..(F - 1), d.free[k] = d.free[l] PROVE k = l
    OBVIOUS
  <2>1. k + 1 = l + 1
    BY <1>10, <1>17, <1>6
  <2> QED
    BY <1>7, <2>1
<1>21. \A k, l \in 1..(L + 1) : d.allocated[k] = d.allocated[l] => k = l
  <2> SUFFICES ASSUME NEW k \in 1..(L + 1), NEW l \in 1..(L + 1), d.allocated[k] = d.allocated[l]
               PROVE  k = l
    OBVIOUS
  <2>1. CASE k \in 1..L /\ l \in 1..L
    BY <1>6, <1>11, <2>1
  <2>2. CASE k = L + 1 /\ l \in 1..L
    BY <1>11, <1>14, <2>2
  <2>3. CASE k \in 1..L /\ l = L + 1
    BY <1>11, <1>14, <2>3
  <2> QED
    BY <1>16, <2>1, <2>2, <2>3
<1>22. \A k \in 1..(F - 1), l \in 1..(L + 1) : d.free[k] # d.allocated[l]
  BY <1>10, <1>11, <1>13, <1>16, <1>17, <1>6
<1>23. \A k \in 1..(L + 1) : d.elements[d.allocated[k] + 1] = b[k]
  <2> SUFFICES ASSUME NEW k \in 1..(L + 1) PROVE d.elements[d.allocated[k] + 1] = b[k]
    OBVIOUS
  <2>1. CASE k = L + 1
    BY <1>9, <1>11, <1>12, <2>1
  <2>2. CASE k \in 1..L
    <3>1. o.elements[o.allocated[k] + 1] = a[k]
      BY <1>6, <2>2
    <3>2. o.allocated[k] + 1 \in 1..n /\ o.allocated[k] + 1 # i + 1
      <4>1. PICK j \in 0..(n - 1) : j = o.allocated[k] /\ j # i
        BY <1>14, <2>2
      <4>2. j \in Nat /\ i \in Nat /\ j < n /\ j # i
        BY <4>1
      <4>3. j + 1 \in 1..n
        BY <4>2
      <4>4. j + 1 # i + 1
        BY <4>2
      <4> QED
        BY <4>1, <4>3, <4>4
    <3> QED
      BY <1>9, <1>11, <1>12, <2>2, <3>1, <3>2
  <2> QED
    BY <1>16, <2>1, <2>2
<1>24. ASSUME NEW j \in 1..n, d.elements[j] \in Items PROVE \E k \in 1..(L + 1) : d.allocated[k] + 1 = j
  <2>1. L + 1 \in 1..(L + 1) /\ 1..L \subseteq 1..(L + 1)
    BY <1>7
  <2>2. CASE j = i + 1
    BY <1>11, <2>1, <2>2
  <2>3. CASE j # i + 1
    <3>1. o.elements[j] \in Items
      BY <1>9, <1>24, <2>3
    <3>2. PICK k \in 1..L : o.allocated[k] + 1 = j
      BY <1>6, <3>1
    <3> QED
      BY <1>11, <2>1, <3>2
  <2> QED
    BY <2>2, <2>3
<1>25. /\ Len(d.free) + Len(d.allocated) = Len(d.elements) /\ Len(b) = Len(d.allocated)
       /\ Len(d.free) = F - 1 /\ Len(d.allocated) = L + 1 /\ Len(d.elements) = n /\ Len(b) = L + 1
  <2>1. /\ Len(d.free) = F - 1 /\ Len(d.allocated) = L + 1 /\ Len(d.elements) = n /\ Len(b) = L + 1
    BY <1>9, <1>10, <1>11, <1>12
  <2>2. (F - 1) + (L + 1) = n
    <3>1. F + L = n
      BY <1>6
    <3> QED
      BY <3>1
  <2> QED
    BY <2>1, <2>2
<1> QED
  BY <1>18, <1>19, <1>20, <1>21, <1>22, <1>23, <1>24, <1>25, <1>5, Zenon DEF RingsSound

\* And back: the first of the allocated indexes gives its element.
LEMMA DequeuedRings ==
  ASSUME NEW o \in QueueType, NEW a \in Seq(Items), RingsSound(o, a), Len(o.allocated) > 0,
         NEW d \in QueueType,
         d.elements = [o.elements EXCEPT ![Head(o.allocated) + 1] = Raw],
         d.allocated = Tail(o.allocated), d.free = Append(o.free, Head(o.allocated))
  PROVE  RingsSound(d, Tail(a)) /\ Tail(a) \in Seq(Items) /\ a # <<>>
<1>1. /\ o.free \in Seq(Nat) /\ o.allocated \in Seq(Nat) /\ o.elements \in Seq(Stores)
      /\ Len(o.free) \in Nat /\ Len(o.allocated) \in Nat /\ Len(o.elements) \in Nat
  BY TypedElements, LenProperties
<1>2. PICK n \in Nat : n = Len(o.elements)
  BY <1>1
<1>3. PICK F \in Nat : F = Len(o.free)
  BY <1>1
<1>4. PICK L \in Nat : L = Len(o.allocated)
  BY <1>1
<1>5. PICK b : b = Tail(a)
  OBVIOUS
<1>6. /\ F + L = n /\ Len(a) = L
      /\ \A k \in 1..F : o.free[k] \in 0..(n - 1)
      /\ \A k \in 1..L : o.allocated[k] \in 0..(n - 1)
      /\ \A k, l \in 1..F : o.free[k] = o.free[l] => k = l
      /\ \A k, l \in 1..L : o.allocated[k] = o.allocated[l] => k = l
      /\ \A k \in 1..F, l \in 1..L : o.free[k] # o.allocated[l]
      /\ \A k \in 1..L : o.elements[o.allocated[k] + 1] = a[k]
      /\ \A j \in 1..n : o.elements[j] \in Items => \E k \in 1..L : o.allocated[k] + 1 = j
  <2>1. Len(a) = L
    BY <1>4 DEF RingsSound
  <2> QED
    BY <1>2, <1>3, <1>4, <2>1, Zenon DEF RingsSound
<1>7. /\ L \in Nat \ {0} /\ 1 \in 1..L
      /\ o.elements \in [1..n -> Stores] /\ DOMAIN o.elements = 1..n
  BY <1>1, <1>2, <1>4, LenProperties
<1>8. PICK i \in 0..(n - 1) : i = o.allocated[1] /\ i = Head(o.allocated) /\ i \in Nat
  <2>1. Head(o.allocated) = o.allocated[1]
    BY <1>1, <1>4, <1>7, EmptySeq
  <2> QED
    BY <1>6, <1>7, <2>1
<1>9. /\ Len(d.elements) = n /\ d.elements[i + 1] = Raw
      /\ \A j \in 1..n : j # i + 1 => d.elements[j] = o.elements[j]
  <2>1. d.elements \in [1..n -> Stores]
    BY <1>7, <1>8 DEF Stores
  <2>2. Len(d.elements) = n
    BY <1>2, <2>1, Listed
  <2> QED
    BY <1>7, <1>8, <2>2
<1>10. /\ Len(d.allocated) = L - 1 /\ \A k \in 1..(L - 1) : d.allocated[k] = o.allocated[k + 1]
  <2>1. o.allocated # <<>>
    BY <1>1, <1>4, <1>7, EmptySeq
  <2>2. /\ Len(Tail(o.allocated)) = Len(o.allocated) - 1
        /\ \A k \in 1..Len(Tail(o.allocated)) : Tail(o.allocated)[k] = o.allocated[k + 1]
    BY <1>1, <2>1, HeadTailProperties
  <2> QED
    BY <1>4, <2>2
<1>11. /\ Len(d.free) = F + 1 /\ \A k \in 1..F : d.free[k] = o.free[k]
       /\ d.free[F + 1] = i
  BY <1>1, <1>3, <1>8, AppendProperties
<1>12. /\ a # <<>> /\ b \in Seq(Items) /\ Len(b) = L - 1 /\ \A k \in 1..(L - 1) : b[k] = a[k + 1]
  <2>1. a # <<>>
    BY <1>6, <1>7, EmptySeq
  <2> QED
    BY <1>5, <1>6, <2>1, HeadTailProperties
<1>13. \A k \in 1..L : k # 1 => o.allocated[k] # i
  BY <1>6, <1>7, <1>8
<1>14. \A k \in 1..F : o.free[k] # i /\ o.free[k] \in 0..(n - 1)
  BY <1>6, <1>7, <1>8
<1>15. \A k \in 1..L : o.allocated[k] \in 0..(n - 1)
  BY <1>6
<1>16. \A k \in 1..(F + 1) : k \in 1..F \/ k = F + 1
  OBVIOUS
<1>17. \A k \in 1..(L - 1) : k + 1 \in 1..L /\ k + 1 # 1
  OBVIOUS
<1>18. \A k \in 1..(L - 1) : d.allocated[k] \in 0..(n - 1)
  BY <1>10, <1>15, <1>17
<1>19. \A k \in 1..(F + 1) : d.free[k] \in 0..(n - 1)
  BY <1>8, <1>11, <1>14, <1>16
<1>20. \A k, l \in 1..(L - 1) : d.allocated[k] = d.allocated[l] => k = l
  <2> SUFFICES ASSUME NEW k \in 1..(L - 1), NEW l \in 1..(L - 1), d.allocated[k] = d.allocated[l]
               PROVE  k = l
    OBVIOUS
  <2>1. k + 1 = l + 1
    BY <1>6, <1>10, <1>17
  <2> QED
    BY <2>1
<1>21. \A k, l \in 1..(F + 1) : d.free[k] = d.free[l] => k = l
  BY <1>6, <1>11, <1>14, <1>16
<1>22. \A k \in 1..(F + 1), l \in 1..(L - 1) : d.free[k] # d.allocated[l]
  <2> SUFFICES ASSUME NEW k \in 1..(F + 1), NEW l \in 1..(L - 1) PROVE d.free[k] # d.allocated[l]
    OBVIOUS
  <2>1. PICK m \in 1..L : d.allocated[l] = o.allocated[m] /\ m # 1
    BY <1>10, <1>17
  <2>2. CASE k = F + 1
    BY <1>11, <1>13, <2>1, <2>2
  <2>3. CASE k \in 1..F
    <3>1. \A x \in 1..F, y \in 1..L : o.free[x] # o.allocated[y]
      BY <1>6, Zenon
    <3> QED
      BY <1>11, <2>1, <2>3, <3>1
  <2> QED
    BY <1>16, <2>2, <2>3, Zenon
<1>23. \A k \in 1..(L - 1) : d.elements[d.allocated[k] + 1] = b[k]
  <2> SUFFICES ASSUME NEW k \in 1..(L - 1) PROVE d.elements[d.allocated[k] + 1] = b[k]
    OBVIOUS
  <2>1. o.elements[o.allocated[k + 1] + 1] = a[k + 1]
    BY <1>6, <1>17
  <2>2. PICK j \in 0..(n - 1) : j = o.allocated[k + 1] /\ j # i
    BY <1>13, <1>15, <1>17
  <2>3. j \in Nat /\ i \in Nat /\ j < n /\ j # i
    BY <2>2
  <2>4. j + 1 \in 1..n
    BY <2>3
  <2>5. j + 1 # i + 1
    BY <2>3
  <2> QED
    BY <1>9, <1>10, <1>12, <2>1, <2>2, <2>4, <2>5
<1>24. ASSUME NEW j \in 1..n, d.elements[j] \in Items PROVE \E k \in 1..(L - 1) : d.allocated[k] + 1 = j
  <2>1. j # i + 1
    BY <1>9, <1>24, ObjectAssumption
  <2>2. o.elements[j] \in Items
    BY <1>9, <1>24, <2>1
  <2>3. PICK k \in 1..L : o.allocated[k] + 1 = j
    BY <1>6, <2>2
  <2>4. k # 1
    BY <1>8, <2>1, <2>3
  <2>5. PICK m \in 1..(L - 1) : m + 1 = k
    <3>1. k - 1 \in 1..(L - 1) /\ (k - 1) + 1 = k
      BY <2>4
    <3> QED
      BY <3>1
  <2> QED
    BY <1>10, <2>3, <2>5
<1>25. /\ Len(d.free) + Len(d.allocated) = Len(d.elements) /\ Len(b) = Len(d.allocated)
       /\ Len(d.free) = F + 1 /\ Len(d.allocated) = L - 1 /\ Len(d.elements) = n /\ Len(b) = L - 1
  <2>1. /\ Len(d.free) = F + 1 /\ Len(d.allocated) = L - 1 /\ Len(d.elements) = n /\ Len(b) = L - 1
    BY <1>9, <1>10, <1>11, <1>12
  <2>2. (F + 1) + (L - 1) = n
    <3>1. F + L = n
      BY <1>6
    <3> QED
      BY <3>1
  <2> QED
    BY <2>1, <2>2
<1>26. RingsSound(d, b)
  BY <1>18, <1>19, <1>20, <1>21, <1>22, <1>23, <1>24, <1>25, Zenon DEF RingsSound
<1> QED
  BY <1>5, <1>12, <1>26

\* The places of a circle, as numbers of storages: a lap of them are different.
AtPlace(h, k, n) == ((h + k - 1) % n) + 1

LEMMA Places ==
  ASSUME NEW h \in Nat, NEW n \in Nat \ {0}
  PROVE  /\ \A k \in Nat \ {0} : AtPlace(h, k, n) \in 1..n
         /\ \A k, l \in 1..n : AtPlace(h, k, n) = AtPlace(h, l, n) => k = l
<1>1. ASSUME NEW k \in Nat \ {0} PROVE AtPlace(h, k, n) \in 1..n
  <2> USE DEF AtPlace
  <2>1. PICK p \in Nat : p = h + k - 1
    OBVIOUS
  <2>2. PICK r \in 0..(n - 1) : r = p % n
    BY ModRange
  <2>3. r + 1 \in 1..n
    OBVIOUS
  <2> QED
    BY <2>1, <2>2, <2>3
<1>2. ASSUME NEW k \in 1..n, NEW l \in 1..n, AtPlace(h, k, n) = AtPlace(h, l, n)
      PROVE  k = l
  <2> USE DEF AtPlace
  <2>1. PICK p \in Nat : p = h + k - 1
    OBVIOUS
  <2>2. PICK q \in Nat : q = h + l - 1
    OBVIOUS
  <2>3. PICK r \in 0..(n - 1) : r = p % n
    BY ModRange
  <2>4. PICK s \in 0..(n - 1) : s = q % n
    BY ModRange
  <2>5. r = s
    BY <1>2, <2>1, <2>2, <2>3, <2>4
  <2>6. CASE p <= q
    <3>1. q - p < n
      BY <2>1, <2>2
    <3>2. p = q
      BY <2>3, <2>4, <2>5, <2>6, <3>1, ModDistinct
    <3> QED
      BY <2>1, <2>2, <3>2
  <2>7. CASE q <= p
    <3>1. p - q < n
      BY <2>1, <2>2
    <3>2. p = q
      BY <2>3, <2>4, <2>5, <2>7, <3>1, ModDistinct
    <3> QED
      BY <2>1, <2>2, <3>2
  <2> QED
    BY <2>6, <2>7
<1> QED
  BY <1>1, <1>2

\* What a circle of n storages holds: m elements from its place h on, the storages
\* of its places being P.
InCircle(o, a, n, h, m, P) ==
  /\ n = Len(o.elements) /\ h = o.head /\ o.tail = h + m /\ m <= n /\ Len(a) = m
  /\ P \in [Nat \ {0} -> 1..n] /\ \A k \in Nat \ {0} : P[k] = AtPlace(h, k, n)
  /\ \A k, l \in 1..n : P[k] = P[l] => k = l
  /\ \A k \in 1..m : o.elements[P[k]] = a[k]
  /\ \A j \in 1..n : o.elements[j] \in Items => \E k \in 1..m : P[k] = j

LEMMA CircleIs ==
  ASSUME NEW o \in QueueType, NEW a \in Seq(Items), CircleSound(o, a), ~o.moved
  PROVE  \E n \in Nat \ {0}, h \in Nat, m \in Nat : \E P : InCircle(o, a, n, h, m, P)
<1>1. PICK n \in Nat \ {0} : n = Len(o.elements)
  BY TypedElements DEF CircleSound
<1>2. PICK h \in Nat : h = o.head
  BY TypedElements
<1>3. PICK m \in Nat : o.tail = h + m /\ m <= n /\ Len(a) = m
  <2>1. o.tail \in Nat /\ h <= o.tail /\ o.tail - h <= n /\ Len(a) = o.tail - h
    BY <1>1, <1>2, TypedElements DEF CircleSound
  <2>2. o.tail - h \in Nat /\ o.tail = h + (o.tail - h)
    BY <2>1
  <2> QED
    BY <2>1, <2>2
<1>4. PICK P : P = [k \in Nat \ {0} |-> AtPlace(h, k, n)]
  OBVIOUS
<1>5. P \in [Nat \ {0} -> 1..n] /\ \A k \in Nat \ {0} : P[k] = AtPlace(h, k, n)
  BY <1>4, Places
<1>6. \A k, l \in 1..n : P[k] = P[l] => k = l
  <2>1. \A k \in 1..n : P[k] = AtPlace(h, k, n)
    BY <1>5
  <2> QED
    BY <2>1, Places
<1>7. \A k \in 1..m : Place(o, k) + 1 = P[k]
  <2>1. \A k \in 1..m : P[k] = AtPlace(h, k, n)
    BY <1>5
  <2> QED
    BY <1>1, <1>2, <2>1 DEF Place, AtPlace
<1>8. \A k \in 1..m : o.elements[P[k]] = a[k]
  BY <1>3, <1>7 DEF CircleSound
<1>9. \A j \in 1..n : o.elements[j] \in Items => \E k \in 1..m : P[k] = j
  BY <1>1, <1>3, <1>7 DEF CircleSound
<1>10. InCircle(o, a, n, h, m, P)
  BY <1>1, <1>2, <1>3, <1>5, <1>6, <1>8, <1>9, Zenon DEF InCircle
<1> QED
  BY <1>10

\* The converse.
CircleOf(o, a, n, h, m) ==
  /\ n = Len(o.elements) /\ h = o.head /\ o.tail = h + m
  /\ m <= n /\ Len(a) = m
  /\ \A k \in 1..m : o.elements[AtPlace(h, k, n)] = a[k]
  /\ \A j \in 1..n : o.elements[j] \in Items => \E k \in 1..m : AtPlace(h, k, n) = j

LEMMA IsCircle ==
  ASSUME NEW o \in QueueType, NEW a, NEW n \in Nat \ {0}, NEW h \in Nat, NEW m \in Nat,
         CircleOf(o, a, n, h, m)
  PROVE  CircleSound(o, a)
<1> USE DEF CircleOf
<1>1. o.elements # <<>> /\ o.tail - o.head = m /\ o.head <= o.tail
  BY TypedElements
<1>2. \A k \in 1..m : Place(o, k) + 1 = AtPlace(h, k, n)
  BY DEF Place, AtPlace
<1>3. \A k \in 1..Len(a) : o.elements[Place(o, k) + 1] = a[k]
  BY <1>2
<1>4. \A i \in 1..Len(o.elements) :
        o.elements[i] \in Items => \E k \in 1..Len(a) : Place(o, k) + 1 = i
  BY <1>2
<1> QED
  BY <1>1, <1>3, <1>4 DEF CircleSound

\* The storage at the tail takes the element.
LEMMA EnqueuedCircle ==
  ASSUME NEW o \in QueueType, NEW a \in Seq(Items), CircleSound(o, a), ~o.moved,
         o.tail - o.head < Len(o.elements), NEW x \in Items, NEW d \in QueueType,
         d.elements = [o.elements EXCEPT ![AtPlace(o.tail, 1, Len(o.elements))] = x],
         d.head = o.head, d.tail = o.tail + 1
  PROVE  CircleSound(d, Append(a, x))
<1>1. PICK n \in Nat \ {0}, h \in Nat, m \in Nat : \E P : InCircle(o, a, n, h, m, P)
  BY CircleIs, Zenon
<1>2. PICK P : InCircle(o, a, n, h, m, P)
  BY <1>1
<1>3. n = Len(o.elements) /\ h = o.head /\ o.tail = h + m /\ Len(a) = m /\ m < n
  BY <1>2 DEF InCircle
<1>4. o.elements \in [1..n -> Stores] /\ DOMAIN o.elements = 1..n
  BY <1>3, TypedElements
<1>5. P \in [Nat \ {0} -> 1..n] /\ \A k \in Nat \ {0} : P[k] = AtPlace(h, k, n)
  BY <1>2 DEF InCircle
<1>6. \A k, l \in 1..n : P[k] = P[l] => k = l
  BY <1>2 DEF InCircle
<1>7. \A k \in 1..m : o.elements[P[k]] = a[k]
  BY <1>2 DEF InCircle
<1>8. \A j \in 1..n : o.elements[j] \in Items => \E k \in 1..m : P[k] = j
  BY <1>2 DEF InCircle
<1>9. PICK i \in 1..n : i = P[m + 1] /\ i = AtPlace(h + m, 1, n)
  <2>1. h + (m + 1) - 1 = (h + m) + 1 - 1 /\ m + 1 \in Nat \ {0}
    OBVIOUS
  <2>2. P[m + 1] = AtPlace(h + m, 1, n)
    BY <1>5, <2>1 DEF AtPlace
  <2>3. P[m + 1] \in 1..n
    BY <1>5, <2>1
  <2> QED
    BY <2>2, <2>3
<1>10. d.elements = [o.elements EXCEPT ![i] = x]
  BY <1>3, <1>9
<1>11. d.elements \in [1..n -> Stores] /\ Len(d.elements) = n
  <2>1. x \in Stores
    BY DEF Stores
  <2>2. d.elements \in [1..n -> Stores]
    BY <1>4, <1>10, <2>1
  <2> QED
    BY <2>2, Listed
<1>12. d.elements[i] = x /\ \A j \in 1..n : j # i => d.elements[j] = o.elements[j]
  BY <1>4, <1>10
<1>13. PICK b : b = Append(a, x)
  OBVIOUS
<1>14. Len(b) = m + 1 /\ b[m + 1] = x /\ \A k \in 1..m : b[k] = a[k]
  <2>1. /\ Len(b) = Len(a) + 1 /\ b[Len(a) + 1] = x
        /\ \A k \in 1..Len(a) : b[k] = a[k]
    BY <1>13, AppendProperties
  <2> QED
    BY <1>3, <2>1
<1>15. PICK l \in Nat \ {0} : l = m + 1 /\ l \in 1..n /\ l <= n /\ l \in 1..l
  <2>1. m + 1 \in Nat \ {0} /\ m + 1 \in 1..n /\ m + 1 <= n /\ m + 1 \in 1..(m + 1)
    BY <1>3
  <2> QED
    BY <2>1
<1>16. \A k \in 1..m : k \in 1..n /\ k \in 1..l /\ k # l /\ k \in Nat \ {0}
  BY <1>3, <1>15
<1>17. \A k \in 1..m : P[k] # i /\ P[k] \in 1..n
  BY <1>5, <1>6, <1>9, <1>15, <1>16
<1>18. \A k \in 1..l : k \in 1..m \/ k = l
  BY <1>15
<1>19. \A k \in 1..l : d.elements[P[k]] = b[k]
  <2> SUFFICES ASSUME NEW k \in 1..l PROVE d.elements[P[k]] = b[k]
    OBVIOUS
  <2>1. CASE k = l
    BY <1>9, <1>12, <1>14, <1>15, <2>1
  <2>2. CASE k \in 1..m
    BY <1>7, <1>12, <1>14, <1>17, <2>2
  <2> QED
    BY <1>18, <2>1, <2>2
<1>20. \A j \in 1..n : d.elements[j] \in Items => \E k \in 1..l : P[k] = j
  <2> SUFFICES ASSUME NEW j \in 1..n, d.elements[j] \in Items
               PROVE  \E k \in 1..l : P[k] = j
    OBVIOUS
  <2>1. CASE j = i
    BY <1>9, <1>15, <2>1
  <2>2. CASE j # i
    <3>1. PICK k \in 1..m : P[k] = j
      BY <1>8, <1>12, <2>2
    <3> QED
      BY <1>16, <3>1
  <2> QED
    BY <2>1, <2>2
<1>21. \A k \in 1..l : P[k] = AtPlace(h, k, n)
  <2>1. \A k \in 1..l : k \in Nat \ {0}
    OBVIOUS
  <2> QED
    BY <1>5, <2>1
<1>22. n = Len(d.elements) /\ h = d.head /\ d.tail = h + l
  <2>1. d.tail = h + m + 1
    BY <1>3
  <2>2. h + m + 1 = h + l
    BY <1>15
  <2> QED
    BY <1>3, <1>11, <2>1, <2>2
<1>23. \A k \in 1..l : d.elements[AtPlace(h, k, n)] = b[k]
  BY <1>19, <1>21
<1>24. \A j \in 1..n : d.elements[j] \in Items => \E k \in 1..l : AtPlace(h, k, n) = j
  BY <1>20, <1>21
<1>25. Len(b) = l
  BY <1>14, <1>15
<1>26. CircleSound(d, b)
  <2>1. l \in Nat /\ l <= n
    BY <1>15
  <2>2. CircleOf(d, b, n, h, l)
    BY <1>22, <1>23, <1>24, <1>25, <2>1, Zenon DEF CircleOf
  <2> QED
    BY <2>1, <2>2, IsCircle
<1> QED
  BY <1>13, <1>26

\* The storage at the head gives its element.
LEMMA DequeuedCircle ==
  ASSUME NEW o \in QueueType, NEW a \in Seq(Items), CircleSound(o, a), ~o.moved,
         o.tail - o.head > 0, NEW d \in QueueType,
         d.elements = [o.elements EXCEPT ![AtPlace(o.head, 1, Len(o.elements))] = Raw],
         d.head = o.head + 1, d.tail = o.tail
  PROVE  CircleSound(d, Tail(a)) /\ Tail(a) \in Seq(Items) /\ a # <<>>
<1>1. PICK n \in Nat \ {0}, h \in Nat, m \in Nat : \E P : InCircle(o, a, n, h, m, P)
  BY CircleIs, Zenon
<1>2. PICK P : InCircle(o, a, n, h, m, P)
  BY <1>1
<1>3. n = Len(o.elements) /\ h = o.head /\ o.tail = h + m /\ Len(a) = m /\ m <= n /\ m > 0
  BY <1>2 DEF InCircle
<1>4. o.elements \in [1..n -> Stores] /\ DOMAIN o.elements = 1..n
  BY <1>3, TypedElements
<1>5. P \in [Nat \ {0} -> 1..n] /\ \A k \in Nat \ {0} : P[k] = AtPlace(h, k, n)
  BY <1>2 DEF InCircle
<1>6. \A k, l \in 1..n : P[k] = P[l] => k = l
  BY <1>2 DEF InCircle
<1>7. \A k \in 1..m : o.elements[P[k]] = a[k]
  BY <1>2 DEF InCircle
<1>8. \A j \in 1..n : o.elements[j] \in Items => \E k \in 1..m : P[k] = j
  BY <1>2 DEF InCircle
<1>9. PICK i \in 1..n : i = P[1] /\ i = AtPlace(h, 1, n)
  <2>1. 1 \in Nat \ {0}
    OBVIOUS
  <2>2. P[1] = AtPlace(h, 1, n) /\ P[1] \in 1..n
    BY <1>5, <2>1
  <2> QED
    BY <2>2
<1>10. d.elements = [o.elements EXCEPT ![i] = Raw]
  BY <1>3, <1>9
<1>11. d.elements \in [1..n -> Stores] /\ Len(d.elements) = n
  <2>1. Raw \in Stores
    BY DEF Stores
  <2>2. d.elements \in [1..n -> Stores]
    BY <1>4, <1>10, <2>1
  <2> QED
    BY <2>2, Listed
<1>12. d.elements[i] = Raw /\ \A j \in 1..n : j # i => d.elements[j] = o.elements[j]
  BY <1>4, <1>10
<1>13. PICK l \in Nat : m = l + 1 /\ l <= n
  <2>1. m - 1 \in Nat /\ m = (m - 1) + 1 /\ m - 1 <= n
    BY <1>3
  <2> QED
    BY <2>1
<1>14. PICK b : b = Tail(a)
  OBVIOUS
<1>15. a # <<>> /\ b \in Seq(Items) /\ Len(b) = l /\ \A k \in 1..l : b[k] = a[k + 1]
  <2>1. a # <<>>
    BY <1>3, EmptySeq
  <2>2. /\ b \in Seq(Items) /\ Len(b) = Len(a) - 1
        /\ \A k \in 1..Len(b) : b[k] = a[k + 1]
    BY <1>14, <2>1, HeadTailProperties
  <2>3. Len(a) - 1 = l
    BY <1>3, <1>13
  <2> QED
    BY <2>1, <2>2, <2>3
<1>16. \A k \in 1..l : k + 1 \in 1..m /\ k + 1 \in 1..n /\ k + 1 # 1 /\ k + 1 \in Nat \ {0}
  BY <1>3, <1>13
<1>17. 1 \in 1..n
  OBVIOUS
<1>18. \A k \in 1..l : P[k + 1] # i /\ P[k + 1] \in 1..n
  BY <1>5, <1>6, <1>9, <1>16, <1>17
<1>19. \A k \in 1..l : d.elements[P[k + 1]] = b[k]
  BY <1>7, <1>12, <1>15, <1>16, <1>18
<1>20. \A j \in 1..n : d.elements[j] \in Items => \E k \in 1..l : P[k + 1] = j
  <2> SUFFICES ASSUME NEW j \in 1..n, d.elements[j] \in Items
               PROVE  \E k \in 1..l : P[k + 1] = j
    OBVIOUS
  <2>1. j # i
    BY <1>12, ObjectAssumption
  <2>2. PICK k \in 1..m : P[k] = j
    BY <1>8, <1>12, <2>1
  <2>3. k # 1
    BY <1>9, <2>1, <2>2
  <2>4. PICK q \in 1..l : q + 1 = k
    <3>1. k - 1 \in 1..l /\ (k - 1) + 1 = k
      BY <1>13, <2>3
    <3> QED
      BY <3>1
  <2> QED
    BY <2>2, <2>4
<1>21. \A k \in 1..l : P[k + 1] = AtPlace(h + 1, k, n)
  <2> SUFFICES ASSUME NEW k \in 1..l PROVE P[k + 1] = AtPlace(h + 1, k, n)
    OBVIOUS
  <2>1. h + (k + 1) - 1 = (h + 1) + k - 1 /\ k + 1 \in Nat \ {0}
    OBVIOUS
  <2> QED
    BY <1>5, <2>1 DEF AtPlace
<1>22. PICK g \in Nat : g = h + 1
  OBVIOUS
<1>23. n = Len(d.elements) /\ g = d.head /\ d.tail = g + l
  <2>1. d.tail = h + m /\ d.head = h + 1
    BY <1>3
  <2>2. h + m = g + l
    BY <1>13, <1>22
  <2> QED
    BY <1>11, <1>22, <2>1, <2>2
<1>24. \A k \in 1..l : d.elements[AtPlace(g, k, n)] = b[k]
  BY <1>19, <1>21, <1>22
<1>25. \A j \in 1..n : d.elements[j] \in Items => \E k \in 1..l : AtPlace(g, k, n) = j
  <2> SUFFICES ASSUME NEW j \in 1..n, d.elements[j] \in Items
               PROVE  \E k \in 1..l : AtPlace(g, k, n) = j
    OBVIOUS
  <2>1. PICK k \in 1..l : P[k + 1] = j
    BY <1>20
  <2>2. AtPlace(g, k, n) = j
    BY <1>21, <1>22, <2>1
  <2> QED
    BY <2>2
<1>26. CircleSound(d, b)
  <2>1. CircleOf(d, b, n, g, l)
    BY <1>13, <1>15, <1>23, <1>24, <1>25, Zenon DEF CircleOf
  <2> QED
    BY <2>1, IsCircle
<1> QED
  BY <1>14, <1>15, <1>26

-----------------------------------------------------------------------------
(* Queue objects: the operations.                                            *)

\* What an inductive invariant says of the objects: those that are alive are
\* sound.
ObjectInv ==
  /\ queueKind \in {"lock_free", "mutex"}
  /\ ~abandoned
  /\ objects = [q \in QueueNames |-> objects[q]]
  /\ asked = [q \in QueueNames |-> asked[q]]
  /\ \A q \in QueueNames : Alive(q) => Sound(queueKind, objects[q], asked[q])

\* RingsSound of what the fields of a queue hold.
SharedOut(e, f, l, a) ==
  /\ Len(f) + Len(l) = Len(e)
  /\ \A k \in 1..Len(f) : f[k] \in 0..(Len(e) - 1)
  /\ \A k \in 1..Len(l) : l[k] \in 0..(Len(e) - 1)
  /\ \A k, j \in 1..Len(f) : f[k] = f[j] => k = j
  /\ \A k, j \in 1..Len(l) : l[k] = l[j] => k = j
  /\ \A k \in 1..Len(f), j \in 1..Len(l) : f[k] # l[j]
  /\ Len(a) = Len(l)
  /\ \A k \in 1..Len(a) : e[l[k] + 1] = a[k]
  /\ \A i \in 1..Len(e) : e[i] \in Items => \E k \in 1..Len(a) : l[k] + 1 = i

LEMMA RingsShared ==
  ASSUME NEW e, NEW f, NEW l, NEW a, NEW d, d.elements = e, d.free = f, d.allocated = l
  PROVE  RingsSound(d, a) <=> SharedOut(e, f, l, a)
BY Zenon DEF RingsSound, SharedOut

LEMMA SameRings ==
  ASSUME NEW o, NEW a, RingsSound(o, a), NEW d,
         d.elements = o.elements, d.free = o.free, d.allocated = o.allocated
  PROVE  RingsSound(d, a)
BY RingsShared

LEMMA NoRings ==
  ASSUME NEW d, d.elements = <<>>, d.free = <<>>, d.allocated = <<>>
  PROVE  RingsSound(d, <<>>)
<1>1. Len(<<>>) = 0 /\ 0 + 0 = 0 /\ 1..0 = {}
  OBVIOUS
<1> QED
  BY <1>1 DEF RingsSound

\* Room and resource say nothing of what a queue holds.
LEMMA SameContents ==
  ASSUME NEW kind, NEW o, NEW a, Sound(kind, o, a), NEW d \in QueueType,
         d.elements = o.elements, d.alive = o.alive, d.head = o.head, d.tail = o.tail,
         d.free = o.free, d.allocated = o.allocated, d.moved = o.moved
  PROVE  Sound(kind, d, a)
<1>1. /\ o \in QueueType /\ o.alive /\ a \in Seq(Items)
      /\ o.moved => o.elements = <<>> /\ a = <<>>
  BY DEF Sound
<1>2. RingsSound(o, a) => RingsSound(d, a)
  BY SameRings
<1>3. CircleSound(o, a) => CircleSound(d, a)
  <2>1. \A k : Place(d, k) = Place(o, k)
    BY DEF Place
  <2> QED
    BY <2>1 DEF CircleSound
<1> QED
  BY <1>1, <1>2, <1>3 DEF Sound

\* Moving the storages of a sound queue one by one moves its elements.
LEMMA MovedOverIs ==
  ASSUME NEW kind, NEW p, NEW a, Sound(kind, p, a), NEW d \in QueueType,
         d.elements = [i \in DOMAIN p.elements |-> movedOver(p.elements[i])], d.alive = p.alive,
         d.head = p.head, d.tail = p.tail, d.free = p.free, d.allocated = p.allocated,
         d.moved = p.moved
  PROVE  Sound(kind, d, a)
<1> DEFINE n == Len(p.elements)
<1>1. PICK v, e : v = p.elements /\ e = d.elements
  OBVIOUS
<1>2. /\ p \in QueueType /\ p.alive /\ a \in Seq(Items)
      /\ p.moved => v = <<>> /\ a = <<>>
  BY <1>1 DEF Sound
<1>3. n \in Nat /\ DOMAIN v = 1..n /\ (n = 0 <=> v = <<>>)
  BY <1>1, <1>2, TypedElements
<1>4. /\ DOMAIN e = 1..n
      /\ \A i \in 1..n : e[i] = movedOver(v[i])
  BY <1>1, <1>3
<1>5. Len(e) = n /\ (e = <<>> <=> v = <<>>)
  <2>1. DOMAIN e = 1..Len(e) /\ Len(e) \in Nat /\ (Len(e) = 0 <=> e = <<>>)
    BY <1>1, TypedElements
  <2>2. Len(e) = n
    BY <1>3, <1>4, <2>1
  <2> QED
    BY <1>3, <2>1, <2>2
<1>6. ASSUME NEW i \in 1..n
      PROVE  (v[i] \in Items => e[i] = v[i]) /\ (e[i] \in Items => v[i] \in Items)
  BY <1>4, ObjectAssumption DEF movedOver
<1>7. Len(a) \in Nat /\ \A k \in 1..Len(a) : a[k] \in Items
  BY <1>2, ElementOfSeq, LenProperties
<1> HIDE DEF n
<1>8. ASSUME RingsSound(p, a) PROVE RingsSound(d, a)
  <2>1. PICK f, l : f = p.free /\ l = p.allocated
    OBVIOUS
  <2>2. SharedOut(v, f, l, a) /\ Len(v) = n /\ Len(e) = n
    BY <1>1, <1>5, <1>8, <2>1, RingsShared DEF n
  <2>3. /\ \A k \in 1..Len(a) : v[l[k] + 1] = a[k]
        /\ \A i \in 1..n : v[i] \in Items => \E k \in 1..Len(a) : l[k] + 1 = i
    BY <2>2, Zenon DEF SharedOut
  <2>4. \A k \in 1..Len(a) : l[k] + 1 \in 1..n
    BY <1>3, <2>2 DEF SharedOut
  <2>5. /\ \A k \in 1..Len(a) : e[l[k] + 1] = a[k]
        /\ \A i \in 1..n : e[i] \in Items => \E k \in 1..Len(a) : l[k] + 1 = i
    <3>1. ASSUME NEW k \in 1..Len(a) PROVE e[l[k] + 1] = a[k]
      <4>1. PICK i \in 1..n : i = l[k] + 1
        BY <2>4
      <4>2. v[i] = a[k] /\ a[k] \in Items
        BY <1>7, <2>3, <4>1
      <4> QED
        BY <1>6, <4>1, <4>2
    <3>2. ASSUME NEW i \in 1..n, e[i] \in Items PROVE \E k \in 1..Len(a) : l[k] + 1 = i
      BY <1>6, <2>3, <3>2
    <3> QED
      BY <3>1, <3>2
  <2>6. d.elements = e /\ d.free = f /\ d.allocated = l
    BY <1>1, <2>1
  <2> QED
    <3>1. /\ \A k \in 1..Len(a) : e[l[k] + 1] = a[k]
          /\ \A i \in 1..Len(e) : e[i] \in Items => \E k \in 1..Len(a) : l[k] + 1 = i
      BY <2>2, <2>5
    <3>2. SharedOut(e, f, l, a)
      BY <2>2, <3>1 DEF SharedOut
    <3> QED
      BY <2>6, <3>2, RingsShared
<1>9. ASSUME CircleSound(p, a) PROVE CircleSound(d, a)
  <2> SUFFICES ASSUME ~p.moved PROVE CircleSound(d, a)
    BY DEF CircleSound
  <2>1. /\ v # <<>> /\ p.head <= p.tail /\ p.tail - p.head <= n /\ Len(a) = p.tail - p.head
        /\ \A k \in 1..Len(a) : v[Place(p, k) + 1] = a[k]
        /\ \A i \in 1..n : v[i] \in Items => \E k \in 1..Len(a) : Place(p, k) + 1 = i
    BY <1>1, <1>9 DEF CircleSound, n
  <2>2. ASSUME NEW k \in 1..Len(a) PROVE Place(p, k) + 1 \in 1..n /\ Place(d, k) = Place(p, k)
    <3>1. Place(d, k) = Place(p, k)
      BY <1>1, <1>5 DEF Place, n
    <3>2. k \in Nat \ {0} /\ n \in Nat \ {0} /\ p.head \in Nat
      BY <1>2, <1>3, <1>7, <2>1, TypedElements
    <3>3. PICK x \in Nat : x = p.head + k - 1
      BY <3>2
    <3>4. PICK y \in 0..(n - 1) : y = x % n
      BY <3>2, ModRange
    <3>5. Place(p, k) = y
      BY <3>3, <3>4 DEF Place, n
    <3> QED
      BY <3>1, <3>2, <3>4, <3>5
  <2>3. /\ \A k \in 1..Len(a) : e[Place(d, k) + 1] = a[k]
        /\ \A i \in 1..n : e[i] \in Items => \E k \in 1..Len(a) : Place(d, k) + 1 = i
    <3>1. ASSUME NEW k \in 1..Len(a) PROVE e[Place(d, k) + 1] = a[k]
      <4>1. PICK i \in 1..n : i = Place(p, k) + 1
        BY <2>2
      <4>2. v[i] = a[k] /\ a[k] \in Items
        BY <1>7, <2>1, <4>1
      <4> QED
        BY <1>6, <2>2, <4>1, <4>2
    <3>2. ASSUME NEW i \in 1..n, e[i] \in Items PROVE \E k \in 1..Len(a) : Place(d, k) + 1 = i
      BY <1>6, <2>1, <2>2, <3>2
    <3> QED
      BY <3>1, <3>2
  <2> QED
    BY <1>1, <1>5, <2>1, <2>3 DEF CircleSound
<1> QED
  BY <1>1, <1>2, <1>5, <1>8, <1>9 DEF Sound

LEMMA AssignedIs ==
  ASSUME NEW kind, NEW o \in QueueType, NEW p, NEW a, Sound(kind, p, a), NEW d, d = assigned(o, p)
  PROVE  Sound(kind, d, a) /\ d.alive
<1>1. p \in QueueType /\ p.alive
  BY DEF Sound
<1>2. /\ Len(p.elements) \in Nat /\ p.room \in Nat /\ o.room \in Nat /\ o.resource \in Resources
      /\ DOMAIN p.elements = 1..Len(p.elements)
      /\ p.elements \in [1..Len(p.elements) -> Stores] /\ p.elements \in Seq(Stores)
  BY <1>1, TypedElements
<1>3. PICK r \in Resources : r = o.resource
  BY <1>2
<1>4. PICK n \in Nat : n = IF r = p.resource THEN p.room ELSE Longer(o.room, Len(p.elements))
  BY <1>2 DEF Longer
<1>5. PICK e : e = [i \in DOMAIN p.elements |-> movedOver(p.elements[i])]
  OBVIOUS
<1>6. e \in Seq(Stores)
  <2>1. \A x \in Stores : movedOver(x) \in Stores
    BY DEF movedOver, Stores
  <2>2. e \in [1..Len(p.elements) -> Stores]
    BY <1>2, <1>5, <2>1
  <2> QED
    BY <1>2, <2>2, Listed
<1>7. CASE r = p.resource
  <2>1. d = [p EXCEPT !.resource = r, !.room = n]
    BY <1>1, <1>3, <1>4, <1>7 DEF assigned, QueueType
  <2>2. d \in QueueType
    BY <1>1, <2>1 DEF QueueType
  <2>3. /\ d.elements = p.elements /\ d.alive = p.alive /\ d.head = p.head /\ d.tail = p.tail
        /\ d.free = p.free /\ d.allocated = p.allocated /\ d.moved = p.moved
    BY <1>1, <2>1 DEF QueueType
  <2> QED
    BY <1>1, <2>2, <2>3, SameContents
<1>8. CASE r # p.resource
  <2>1. d = [p EXCEPT !.resource = r, !.elements = e, !.room = n]
    BY <1>1, <1>3, <1>4, <1>5, <1>8 DEF assigned, QueueType
  <2>2. d \in QueueType
    BY <1>1, <1>6, <2>1 DEF QueueType
  <2>3. /\ d.elements = e /\ d.alive = p.alive /\ d.head = p.head /\ d.tail = p.tail
        /\ d.free = p.free /\ d.allocated = p.allocated /\ d.moved = p.moved
    BY <1>1, <2>1 DEF QueueType
  <2> QED
    BY <1>1, <1>5, <2>2, <2>3, MovedOverIs
<1> QED
  BY <1>7, <1>8

\* The source of a move is empty, whatever room its vectors keep.
LEMMA LeftIs ==
  ASSUME NEW kind, NEW p, NEW a, Sound(kind, p, a), NEW n \in Nat,
         NEW d, d = [movedFrom(p) EXCEPT !.room = n]
  PROVE  Sound(kind, d, <<>>) /\ d.alive
<1>1. p \in QueueType /\ p.alive
  BY DEF Sound
<1>2. PICK e \in Seq(Stores) : e = <<>>
  BY EmptySeq
<1>3. PICK f \in Seq(Nat) : f = <<>>
  BY EmptySeq
<1>4. d = [p EXCEPT !.elements = e, !.room = n, !.free = f, !.allocated = f, !.moved = TRUE]
  BY <1>1, <1>2, <1>3 DEF movedFrom, QueueType
<1>5. d \in QueueType
  BY <1>1, <1>4 DEF QueueType
<1>6. d.elements = e /\ d.free = f /\ d.allocated = f /\ d.moved = TRUE /\ d.alive = p.alive
  BY <1>1, <1>4 DEF QueueType
<1>7. <<>> \in Seq(Items) /\ Len(<<>>) = 0
  BY EmptySeq
<1>8. RingsSound(d, <<>>)
  BY <1>2, <1>3, <1>6, NoRings
<1>9. CircleSound(d, <<>>)
  BY <1>6 DEF CircleSound
<1> QED
  BY <1>1, <1>2, <1>5, <1>6, <1>7, <1>8, <1>9 DEF Sound

LEMMA MovedIs ==
  ASSUME NEW kind, NEW p, NEW a, Sound(kind, p, a)
  PROVE  Sound(kind, movedFrom(p), <<>>) /\ movedFrom(p).alive
<1>1. p \in QueueType
  BY DEF Sound
<1>2. movedFrom(p) = [movedFrom(p) EXCEPT !.room = 0]
  BY <1>1 DEF movedFrom, QueueType
<1> QED
  BY <1>2, LeftIs

\* clear() of any queue, a moved one included, leaves nothing that could leak.
LEMMA ClearedSound ==
  ASSUME queueKind \in {"lock_free", "mutex"}, NEW o, NEW a, Sound(queueKind, o, a),
         NEW c, c = cleared(o)
  PROVE  c \in QueueType /\ ~Leaks(c.elements)
<1>1. CASE o.moved /\ queueKind = "mutex"
  <2>1. o.elements = <<>> /\ o \in QueueType
    BY <1>1 DEF Sound
  <2>2. c = o
    BY <2>1 DEF cleared
  <2>3. DOMAIN o.elements = {}
    BY <2>1
  <2> QED
    BY <2>1, <2>2, <2>3 DEF Leaks
<1>2. CASE ~(o.moved /\ queueKind = "mutex")
  <2>1. Bare(queueKind, c)
    BY <1>2, ClearedIs
  <2>2. DOMAIN c.elements = 1..Len(c.elements)
    BY <2>1, TypedElements DEF Bare
  <2> QED
    BY <2>1, <2>2 DEF Leaks, Bare
<1> QED
  BY <1>1, <1>2

\* A queue that setCapacity() is called for the first time, by its constructor.
LEMMA NewIs ==
  ASSUME NEW r \in Resources
  PROVE  NewQueue(r) \in QueueType /\ Bare(queueKind, cleared(NewQueue(r)))
<1>1. PICK e \in Seq(Stores) : e = <<>>
  BY EmptySeq
<1>2. PICK f \in Seq(Nat) : f = <<>>
  BY EmptySeq
<1>3. PICK o : o = NewQueue(r)
  OBVIOUS
<1>4. o = [elements |-> e, alive |-> TRUE, room |-> 0, resource |-> r,
           head |-> 0, tail |-> 0, free |-> f, allocated |-> f, moved |-> FALSE]
  BY <1>1, <1>2, <1>3 DEF NewQueue
<1>5. o \in QueueType
  BY <1>4 DEF QueueType
<1>6. o.elements = e /\ o.alive /\ o.head = 0 /\ o.tail = 0 /\ o.allocated = f
  BY <1>4
<1>7. cleared(o) = o
  BY <1>1, <1>6 DEF cleared
<1>8. Len(o.elements) = 0
  BY <1>1, <1>6, EmptySeq
<1>9. Bare(queueKind, o)
  BY <1>2, <1>5, <1>6, <1>8 DEF Bare
<1> QED
  BY <1>3, <1>5, <1>7, <1>9

\* One object changes.
LEMMA OneChanges ==
  ASSUME ObjectInv, NEW q \in QueueNames, NEW o, NEW a,
         objects' = [objects EXCEPT ![q] = o], asked' = [asked EXCEPT ![q] = a],
         o.alive => Sound(queueKind, o, a),
         ~abandoned', UNCHANGED <<queueKind, storable>>
  PROVE  ObjectInv'
<1>1. objects = [p \in QueueNames |-> objects[p]] /\ asked = [p \in QueueNames |-> asked[p]]
  BY DEF ObjectInv
<1>2. /\ objects' = [p \in QueueNames |-> IF p = q THEN o ELSE objects[p]]
      /\ asked' = [p \in QueueNames |-> IF p = q THEN a ELSE asked[p]]
  BY <1>1
<1>3. objects' = [p \in QueueNames |-> objects'[p]] /\ asked' = [p \in QueueNames |-> asked'[p]]
  BY <1>2
<1>4. ASSUME NEW p \in QueueNames, objects'[p].alive
      PROVE  Sound(queueKind, objects'[p], asked'[p])
  BY <1>2, <1>4 DEF ObjectInv, Alive
<1> QED
  BY <1>3, <1>4 DEF ObjectInv, Alive

\* Two objects change.
LEMMA TwoChange ==
  ASSUME ObjectInv, NEW q \in QueueNames, NEW r \in QueueNames, q # r,
         NEW o, NEW a, NEW d, NEW b,
         objects' = [objects EXCEPT ![q] = o, ![r] = d],
         asked' = [asked EXCEPT ![q] = a, ![r] = b],
         o.alive => Sound(queueKind, o, a), d.alive => Sound(queueKind, d, b),
         ~abandoned', UNCHANGED <<queueKind, storable>>
  PROVE  ObjectInv'
<1>1. objects = [p \in QueueNames |-> objects[p]] /\ asked = [p \in QueueNames |-> asked[p]]
  BY DEF ObjectInv
<1>2. /\ objects' = [p \in QueueNames |-> IF p = r THEN d ELSE IF p = q THEN o ELSE objects[p]]
      /\ asked' = [p \in QueueNames |-> IF p = r THEN b ELSE IF p = q THEN a ELSE asked[p]]
  BY <1>1
<1>3. objects' = [p \in QueueNames |-> objects'[p]] /\ asked' = [p \in QueueNames |-> asked'[p]]
  BY <1>2
<1>4. ASSUME NEW p \in QueueNames, objects'[p].alive
      PROVE  Sound(queueKind, objects'[p], asked'[p])
  BY <1>2, <1>4 DEF ObjectInv, Alive
<1> QED
  BY <1>3, <1>4 DEF ObjectInv, Alive

LEMMA RewrittenTo ==
  ASSUME NEW o, NEW e, NEW h, NEW t, NEW l, NEW f, NEW c, c = SetTo(o, e, h, t, l, f)
  PROVE  /\ o \in QueueType /\ e \in Seq(Stores) /\ h \in Nat /\ t \in Nat
         /\ l \in Seq(Nat) /\ f \in Seq(Nat)
         => /\ c \in QueueType /\ c.elements = e /\ c.head = h /\ c.tail = t
            /\ c.allocated = l /\ c.free = f /\ c.alive = o.alive /\ c.moved = o.moved
<1>1. /\ o \in QueueType /\ e \in Seq(Stores) /\ h \in Nat /\ t \in Nat
      /\ l \in Seq(Nat) /\ f \in Seq(Nat)
      => c \in QueueType
  BY Rewritten
<1>2. o \in QueueType => /\ c.elements = e /\ c.head = h /\ c.tail = t
                         /\ c.allocated = l /\ c.free = f /\ c.alive = o.alive
                         /\ c.moved = o.moved
  BY DEF SetTo, QueueType
<1> QED
  BY <1>1, <1>2

\* enqueue() and dequeue() of both kinds of queue.
HasRoom(o) == sizeOf(o) < Len(o.elements)
HasSome(o) == sizeOf(o) > 0
AfterEnqueue(kind, o, x, i) ==
  IF kind = "lock_free"
    THEN [o EXCEPT !.elements[i + 1] = x, !.free = Tail(@), !.allocated = Append(@, i)]
    ELSE [o EXCEPT !.elements[i + 1] = x, !.tail = @ + 1]
Slot(kind, o) == IF kind = "lock_free" THEN Head(o.free) ELSE o.tail % Len(o.elements)
AfterDequeue(kind, o, i) ==
  IF kind = "lock_free"
    THEN [o EXCEPT !.elements[i + 1] = Raw, !.allocated = Tail(@), !.free = Append(@, i)]
    ELSE [o EXCEPT !.elements[i + 1] = Raw, !.head = @ + 1]

LEMMA Enqueued ==
  ASSUME queueKind \in {"lock_free", "mutex"}, NEW o, NEW a, Sound(queueKind, o, a), ~o.moved,
         HasRoom(o), NEW x \in Items, NEW i, i = Slot(queueKind, o), NEW d, d = AfterEnqueue(queueKind, o, x, i)
  PROVE  Sound(queueKind, d, Append(a, x))
<1>1. o \in QueueType /\ o.alive /\ a \in Seq(Items) /\ Append(a, x) \in Seq(Items)
  BY AppendProperties DEF Sound
<1>2. /\ o.elements \in Seq(Stores) /\ Len(o.elements) \in Nat
      /\ o.elements \in [1..Len(o.elements) -> Stores]
      /\ o.free \in Seq(Nat) /\ o.allocated \in Seq(Nat) /\ o.head \in Nat /\ o.tail \in Nat
      /\ Len(o.free) \in Nat /\ Len(o.allocated) \in Nat
  BY <1>1, TypedElements, LenProperties
<1>3. CASE queueKind = "lock_free"
  <2>1. RingsSound(o, a) /\ Len(o.allocated) < Len(o.elements) /\ i = Head(o.free)
    BY <1>3 DEF Sound, HasRoom, HasSome, sizeOf, Slot
  <2>2. Len(o.free) > 0
    <3>1. Len(o.free) + Len(o.allocated) = Len(o.elements)
      BY <2>1, Zenon DEF RingsSound
    <3>2. PICK n, m, k : n = Len(o.elements) /\ m = Len(o.free) /\ k = Len(o.allocated)
      OBVIOUS
    <3>3. n \in Nat /\ m \in Nat /\ k \in Nat /\ m + k = n /\ k < n
      BY <1>2, <2>1, <3>1, <3>2
    <3>4. m > 0
      BY <3>3
    <3> QED
      BY <3>2, <3>4
  <2>3. i \in Nat /\ i + 1 \in 1..Len(o.elements) /\ Tail(o.free) \in Seq(Nat)
    <3>1. o.free # <<>>
      BY <2>2, EmptySeq
    <3>2. i = o.free[1] /\ 1 \in 1..Len(o.free)
      BY <1>2, <2>1, <2>2, EmptySeq
    <3>3. i \in 0..(Len(o.elements) - 1)
      BY <2>1, <3>2 DEF RingsSound
    <3> QED
      BY <1>2, <3>1, <3>3, HeadTailProperties
  <2>4. PICK e : e = [o.elements EXCEPT ![i + 1] = x]
    OBVIOUS
  <2>5. e \in Seq(Stores)
    <3>1. e \in [1..Len(o.elements) -> Stores]
      BY <1>2, <2>3, <2>4 DEF Stores
    <3> QED
      BY <1>2, <3>1, Listed
  <2>6. PICK f : f = Tail(o.free)
    OBVIOUS
  <2>7. PICK l : l = Append(o.allocated, i)
    OBVIOUS
  <2>8. d = SetTo(o, e, o.head, o.tail, l, f)
    <3>1. d = [o EXCEPT !.elements[i + 1] = x, !.free = Tail(@), !.allocated = Append(@, i)]
      BY <1>3 DEF AfterEnqueue
    <3> QED
      BY <1>1, <2>4, <2>6, <2>7, <3>1 DEF SetTo, QueueType
  <2>9. /\ d \in QueueType /\ d.elements = e /\ d.free = f /\ d.allocated = l
        /\ d.alive = o.alive /\ d.moved = o.moved
    <3>1. /\ o \in QueueType /\ e \in Seq(Stores) /\ o.head \in Nat /\ o.tail \in Nat
          /\ l \in Seq(Nat) /\ f \in Seq(Nat)
      BY <1>1, <1>2, <2>3, <2>5, <2>6, <2>7, AppendProperties
    <3> QED
      BY <2>8, <3>1, RewrittenTo
  <2>10. RingsSound(d, Append(a, x))
    BY <1>1, <2>1, <2>4, <2>6, <2>7, <2>9, EnqueuedRings
  <2> QED
    BY <1>1, <1>3, <2>9, <2>10 DEF Sound
<1>4. CASE queueKind = "mutex"
  <2>1. CircleSound(o, a) /\ o.tail - o.head < Len(o.elements)
    BY <1>4 DEF Sound, HasRoom, HasSome, sizeOf
  <2>2. Len(o.elements) \in Nat \ {0}
    BY <1>1, <2>1, TypedElements DEF CircleSound
  <2>3. i + 1 = AtPlace(o.tail, 1, Len(o.elements)) /\ i + 1 \in 1..Len(o.elements)
    <3>1. o.tail + 1 - 1 = o.tail
      BY <1>2
    <3>2. i + 1 = AtPlace(o.tail, 1, Len(o.elements))
      BY <1>4, <3>1 DEF AtPlace, Slot
    <3>3. PICK n \in Nat \ {0}, p \in Nat : n = Len(o.elements) /\ p = o.tail
      BY <1>2, <2>2
    <3>4. AtPlace(p, 1, n) \in 1..n
      BY Places
    <3> QED
      BY <3>2, <3>3, <3>4
  <2>4. PICK e : e = [o.elements EXCEPT ![i + 1] = x]
    OBVIOUS
  <2>5. e \in Seq(Stores)
    <3>1. e \in [1..Len(o.elements) -> Stores]
      BY <1>2, <2>3, <2>4 DEF Stores
    <3> QED
      BY <1>2, <3>1, Listed
  <2>6. PICK t : t = o.tail + 1
    OBVIOUS
  <2>7. d = SetTo(o, e, o.head, t, o.allocated, o.free)
    <3>1. d = [o EXCEPT !.elements[i + 1] = x, !.tail = @ + 1]
      BY <1>4 DEF AfterEnqueue
    <3> QED
      BY <1>1, <2>4, <2>6, <3>1 DEF SetTo, QueueType
  <2>8. /\ d \in QueueType /\ d.elements = e /\ d.head = o.head /\ d.tail = t
        /\ d.alive = o.alive /\ d.moved = o.moved
    <3>1. /\ o \in QueueType /\ e \in Seq(Stores) /\ o.head \in Nat /\ t \in Nat
          /\ o.allocated \in Seq(Nat) /\ o.free \in Seq(Nat)
      BY <1>1, <1>2, <2>5, <2>6
    <3>2. PICK h, l, f : h = o.head /\ l = o.allocated /\ f = o.free
      OBVIOUS
    <3>3. d = SetTo(o, e, h, t, l, f)
      BY <2>7, <3>2
    <3>4. o \in QueueType /\ e \in Seq(Stores) /\ h \in Nat /\ t \in Nat /\ l \in Seq(Nat)
          /\ f \in Seq(Nat)
      BY <3>1, <3>2
    <3>5. /\ d \in QueueType /\ d.elements = e /\ d.head = h /\ d.tail = t
          /\ d.allocated = l /\ d.free = f /\ d.alive = o.alive /\ d.moved = o.moved
      BY <3>3, <3>4, RewrittenTo, SMTT(30)
    <3> QED
      BY <3>2, <3>5
  <2>9. CircleSound(d, Append(a, x))
    BY <1>1, <2>1, <2>3, <2>4, <2>6, <2>8, EnqueuedCircle
  <2> QED
    BY <1>1, <1>4, <2>8, <2>9 DEF Sound
<1> QED
  BY <1>3, <1>4

LEMMA Dequeued ==
  ASSUME queueKind \in {"lock_free", "mutex"}, NEW o, NEW a, Sound(queueKind, o, a), ~o.moved,
         HasSome(o), NEW i, i = Head(QueueIndexes(o)), NEW d,
         d = AfterDequeue(queueKind, o, i)
  PROVE  Sound(queueKind, d, Tail(a)) /\ a # <<>>
<1>1. o \in QueueType /\ o.alive /\ a \in Seq(Items)
  BY DEF Sound
<1>2. /\ o.elements \in Seq(Stores) /\ Len(o.elements) \in Nat
      /\ o.elements \in [1..Len(o.elements) -> Stores]
      /\ o.free \in Seq(Nat) /\ o.allocated \in Seq(Nat) /\ o.head \in Nat /\ o.tail \in Nat
      /\ Len(o.free) \in Nat /\ Len(o.allocated) \in Nat
  BY <1>1, TypedElements, LenProperties
<1>3. CASE queueKind = "lock_free"
  <2>1. RingsSound(o, a) /\ Len(o.allocated) > 0 /\ i = Head(o.allocated)
    BY <1>3 DEF Sound, HasRoom, HasSome, sizeOf, QueueIndexes
  <2>2. i \in Nat /\ i + 1 \in 1..Len(o.elements) /\ Tail(o.allocated) \in Seq(Nat)
    <3>1. o.allocated # <<>>
      BY <2>1, EmptySeq
    <3>2. i = o.allocated[1] /\ 1 \in 1..Len(o.allocated)
      BY <1>2, <2>1, EmptySeq
    <3>3. i \in 0..(Len(o.elements) - 1)
      BY <2>1, <3>2 DEF RingsSound
    <3> QED
      BY <1>2, <3>1, <3>3, HeadTailProperties
  <2>3. PICK e : e = [o.elements EXCEPT ![i + 1] = Raw]
    OBVIOUS
  <2>4. e \in Seq(Stores)
    <3>1. e \in [1..Len(o.elements) -> Stores]
      BY <1>2, <2>2, <2>3 DEF Stores
    <3> QED
      BY <1>2, <3>1, Listed
  <2>5. PICK l : l = Tail(o.allocated)
    OBVIOUS
  <2>6. PICK f : f = Append(o.free, i)
    OBVIOUS
  <2>7. d = SetTo(o, e, o.head, o.tail, l, f)
    <3>1. d = [o EXCEPT !.elements[i + 1] = Raw, !.allocated = Tail(@), !.free = Append(@, i)]
      BY <1>3 DEF AfterDequeue
    <3> QED
      BY <1>1, <2>3, <2>5, <2>6, <3>1 DEF SetTo, QueueType
  <2>8. /\ d \in QueueType /\ d.elements = e /\ d.free = f /\ d.allocated = l
        /\ d.alive = o.alive /\ d.moved = o.moved
    <3>1. /\ o \in QueueType /\ e \in Seq(Stores) /\ o.head \in Nat /\ o.tail \in Nat
          /\ l \in Seq(Nat) /\ f \in Seq(Nat)
      BY <1>1, <1>2, <2>2, <2>4, <2>5, <2>6, AppendProperties
    <3> QED
      BY <2>7, <3>1, RewrittenTo
  <2>9. RingsSound(d, Tail(a)) /\ Tail(a) \in Seq(Items) /\ a # <<>>
    BY <1>1, <2>1, <2>3, <2>5, <2>6, <2>8, DequeuedRings
  <2> QED
    BY <1>1, <1>3, <2>8, <2>9 DEF Sound
<1>4. CASE queueKind = "mutex"
  <2>1. CircleSound(o, a) /\ o.tail - o.head > 0
    BY <1>4 DEF Sound, HasRoom, HasSome, sizeOf
  <2>2. Len(o.elements) \in Nat \ {0}
    BY <1>1, <2>1, TypedElements DEF CircleSound
  <2>3. i + 1 = AtPlace(o.head, 1, Len(o.elements)) /\ i + 1 \in 1..Len(o.elements)
    <3>1. i = (o.head + 1 - 1) % Len(o.elements)
      <4>1. QueueIndexes(o) = [k \in 1..(o.tail - o.head) |-> (o.head + k - 1) % Len(o.elements)]
        BY <1>4 DEF QueueIndexes
      <4>2. 1 \in 1..(o.tail - o.head) /\ o.tail - o.head \in Nat
        BY <1>2, <2>1
      <4>3. PICK s : s = QueueIndexes(o)
        OBVIOUS
      <4>4. s[1] = (o.head + 1 - 1) % Len(o.elements)
        BY <4>1, <4>2, <4>3
      <4>5. QueueIndexes(o) \in Seq(Nat) /\ Len(QueueIndexes(o)) = o.tail - o.head
        <5>1. Holds(o, QueueIndexes(o), a)
          BY SoundHolds
        <5> QED
          BY <2>1, <5>1 DEF Holds, CircleSound
      <4> QED
        BY <4>2, <4>3, <4>4, <4>5, EmptySeq
    <3>2. i + 1 = AtPlace(o.head, 1, Len(o.elements))
      BY <3>1 DEF AtPlace
    <3>3. PICK n \in Nat \ {0}, p \in Nat : n = Len(o.elements) /\ p = o.head
      BY <1>2, <2>2
    <3>4. AtPlace(p, 1, n) \in 1..n
      BY Places
    <3> QED
      BY <3>2, <3>3, <3>4
  <2>4. PICK e : e = [o.elements EXCEPT ![i + 1] = Raw]
    OBVIOUS
  <2>5. e \in Seq(Stores)
    <3>1. e \in [1..Len(o.elements) -> Stores]
      BY <1>2, <2>3, <2>4 DEF Stores
    <3> QED
      BY <1>2, <3>1, Listed
  <2>6. PICK h : h = o.head + 1
    OBVIOUS
  <2>7. d = SetTo(o, e, h, o.tail, o.allocated, o.free)
    <3>1. d = [o EXCEPT !.elements[i + 1] = Raw, !.head = @ + 1]
      BY <1>4 DEF AfterDequeue
    <3> QED
      BY <1>1, <2>3, <2>4, <2>6, <3>1 DEF SetTo, QueueType
  <2>8. /\ d \in QueueType /\ d.elements = e /\ d.head = h /\ d.tail = o.tail
        /\ d.alive = o.alive /\ d.moved = o.moved
    <3>1. /\ o \in QueueType /\ e \in Seq(Stores) /\ h \in Nat /\ o.tail \in Nat
          /\ o.allocated \in Seq(Nat) /\ o.free \in Seq(Nat)
      BY <1>1, <1>2, <2>5, <2>6
    <3> QED
      BY <2>7, <3>1, RewrittenTo
  <2>9. CircleSound(d, Tail(a)) /\ Tail(a) \in Seq(Items) /\ a # <<>>
    BY <1>1, <2>1, <2>3, <2>4, <2>6, <2>8, DequeuedCircle
  <2> QED
    BY <1>1, <1>4, <2>8, <2>9 DEF Sound
<1> QED
  BY <1>3, <1>4

\* Every operation keeps the objects sound.  A queue that was moved from is given
\* a capacity only if its kind is one that clears itself without storages.
LEMMA ObjectsStaySound ==
  ASSUME ReusedKinds \subseteq {"lock_free"}, ObjectInv, objectNext
  PROVE  ObjectInv'
<1>1. UNCHANGED <<queueKind, storable>> /\ queueKind \in {"lock_free", "mutex"} /\ ~abandoned
  BY DEF objectNext, ObjectInv
<1>2. <<>> \in Seq(Items)
  BY EmptySeq
<1>3. NoQueue.alive = FALSE
  BY DEF NoQueue
<1>4. ASSUME NEW q \in QueueNames, Construct(q) PROVE ObjectInv'
  <2>1. PICK cap \in ObjectCapacities, r \in Resources :
          /\ objects' = [objects EXCEPT ![q] = withCapacity(NewQueue(r), cap)]
          /\ asked' = [asked EXCEPT ![q] = <<>>]
          /\ UNCHANGED <<misused, abandoned>>
    BY <1>4 DEF Construct
  <2>2. PICK w : w = withCapacity(NewQueue(r), cap)
    OBVIOUS
  <2>3. Sound(queueKind, w, <<>>)
    BY <1>1, <2>2, NewIs, WithCapacityIs
  <2> QED
    BY <1>1, <2>1, <2>2, <2>3, OneChanges DEF ObjectInv
<1>5. ASSUME NEW q \in QueueNames, setCapacity(q) PROVE ObjectInv'
  <2>1. PICK o : o = objects[q]
    OBVIOUS
  <2>2. PICK cap \in ObjectCapacities :
          /\ Alive(q) /\ (o.moved => queueKind \in ReusedKinds)
          /\ objects' = [objects EXCEPT ![q] = withCapacity(o, cap)]
          /\ asked' = [asked EXCEPT ![q] = <<>>]
          /\ UNCHANGED abandoned
    BY <1>5, <2>1 DEF setCapacity
  <2>3. Sound(queueKind, o, asked[q]) /\ (o.moved => queueKind = "lock_free")
    BY <2>1, <2>2 DEF ObjectInv
  <2>4. o \in QueueType
    BY <2>3 DEF Sound
  <2>5. PICK w : w = withCapacity(o, cap)
    OBVIOUS
  <2>6. Bare(queueKind, cleared(o))
    BY <1>1, <2>3, ClearedIs
  <2>7. Sound(queueKind, w, <<>>)
    BY <1>1, <2>4, <2>5, <2>6, WithCapacityIs
  <2> QED
    BY <1>1, <2>2, <2>5, <2>7, OneChanges
<1>6. ASSUME NEW q \in QueueNames, Destruct(q) PROVE ObjectInv'
  <2>1. /\ Alive(q) /\ objects' = [objects EXCEPT ![q] = NoQueue]
        /\ asked' = [asked EXCEPT ![q] = <<>>]
        /\ abandoned' = (abandoned \/ Leaks(cleared(objects[q]).elements))
    BY <1>6 DEF Destruct
  <2>2. Sound(queueKind, objects[q], asked[q])
    BY <2>1 DEF ObjectInv
  <2>3. ~Leaks(cleared(objects[q]).elements)
    BY <1>1, <2>2, ClearedSound
  <2>4. ~abandoned'
    BY <1>1, <2>1, <2>3
  <2> QED
    BY <1>1, <1>3, <2>1, <2>4, OneChanges
<1>7. ASSUME NEW q \in QueueNames, enqueueItem(q) PROVE ObjectInv'
  <2>1. PICK o, i : o = objects[q] /\ i = Slot(queueKind, o)
    OBVIOUS
  <2>2. PICK x \in Items :
          /\ Alive(q) /\ ~o.moved /\ HasRoom(o)
          /\ objects' = [objects EXCEPT ![q] = AfterEnqueue(queueKind, o, x, i)]
          /\ asked' = [asked EXCEPT ![q] = Append(@, x)]
          /\ UNCHANGED <<misused, abandoned>>
    BY <1>7, <2>1, Zenon DEF enqueueItem, AfterEnqueue, Slot, HasRoom
  <2>3. Sound(queueKind, o, asked[q])
    BY <2>1, <2>2 DEF ObjectInv
  <2>4. PICK d, a : d = AfterEnqueue(queueKind, o, x, i) /\ a = Append(asked[q], x)
    OBVIOUS
  <2>5. Sound(queueKind, d, a)
    BY <1>1, <2>1, <2>2, <2>3, <2>4, Enqueued
  <2>6. objects' = [objects EXCEPT ![q] = d] /\ asked' = [asked EXCEPT ![q] = a]
    BY <2>2, <2>4 DEF ObjectInv
  <2> QED
    BY <1>1, <2>2, <2>5, <2>6, OneChanges DEF ObjectInv
<1>8. ASSUME NEW q \in QueueNames, dequeueItem(q) PROVE ObjectInv'
  <2>1. PICK o, i : o = objects[q] /\ i = Head(QueueIndexes(o))
    OBVIOUS
  <2>2. /\ Alive(q) /\ ~o.moved /\ HasSome(o)
        /\ objects' = [objects EXCEPT ![q] = AfterDequeue(queueKind, o, i)]
        /\ asked' = [asked EXCEPT ![q] = IF @ = <<>> THEN @ ELSE Tail(@)]
        /\ UNCHANGED abandoned
    BY <1>8, <2>1 DEF dequeueItem, AfterDequeue, HasSome
  <2>3. Sound(queueKind, o, asked[q])
    BY <2>1, <2>2 DEF ObjectInv
  <2>4. PICK d, a : d = AfterDequeue(queueKind, o, i) /\ a = Tail(asked[q])
    OBVIOUS
  <2>5. Sound(queueKind, d, a) /\ asked[q] # <<>>
    BY <1>1, <2>1, <2>2, <2>3, <2>4, Dequeued
  <2>6. objects' = [objects EXCEPT ![q] = d] /\ asked' = [asked EXCEPT ![q] = a]
    BY <2>2, <2>4, <2>5 DEF ObjectInv
  <2>7. ~abandoned'
    BY <1>1, <2>2
  <2> QED
    BY <1>1, <2>5, <2>6, <2>7, OneChanges
<1>9. ASSUME NEW q \in QueueNames, NEW p \in QueueNames, MoveConstruct(q, p) PROVE ObjectInv'
  <2>1. /\ ~Alive(q) /\ Alive(p) /\ q # p
        /\ objects' = [objects EXCEPT ![q] = objects[p], ![p] = movedFrom(objects[p])]
        /\ asked' = [asked EXCEPT ![q] = asked[p], ![p] = <<>>]
        /\ UNCHANGED <<misused, abandoned>>
    BY <1>9 DEF MoveConstruct
  <2>2. Sound(queueKind, objects[p], asked[p])
    BY <2>1 DEF ObjectInv
  <2>3. Sound(queueKind, movedFrom(objects[p]), <<>>)
    BY <2>2, MovedIs
  <2>4. ~abandoned'
    BY <1>1, <2>1
  <2> QED
    BY <1>1, <2>1, <2>2, <2>3, <2>4, TwoChange
<1>10. ASSUME NEW q \in QueueNames, NEW p \in QueueNames, MoveAssign(q, p) PROVE ObjectInv'
  <2>1. PICK o, v : o = cleared(objects[q]) /\ v = objects[p]
    OBVIOUS
  <2>2. /\ q # p /\ Alive(q) /\ Alive(p)
        /\ objects' = [objects EXCEPT ![q] = assigned(o, v), ![p] = left(o, v)]
        /\ abandoned' = (abandoned \/ Leaks(o.elements))
        /\ asked' = [asked EXCEPT ![q] = asked[p], ![p] = <<>>]
    BY <1>10, <2>1 DEF MoveAssign, Assign
  <2>3. Sound(queueKind, objects[q], asked[q]) /\ Sound(queueKind, v, asked[p])
    BY <2>1, <2>2 DEF ObjectInv
  <2>4. o \in QueueType /\ ~Leaks(o.elements)
    BY <1>1, <2>1, <2>3, ClearedSound
  <2>5. v \in QueueType
    BY <2>3 DEF Sound
  <2>6. v.room \in Nat
    BY <2>5, TypedElements
  <2>7. Sound(queueKind, assigned(o, v), asked[p])
    BY <2>3, <2>4, AssignedIs
  <2>8. Sound(queueKind, left(o, v), <<>>)
    <3>1. PICK m \in Nat : m = IF o.resource = v.resource THEN 0 ELSE v.room
      BY <2>6
    <3>2. left(o, v) = [movedFrom(v) EXCEPT !.room = m]
      BY <3>1 DEF left
    <3> QED
      BY <2>3, <3>2, LeftIs
  <2>9. ~abandoned'
    BY <1>1, <2>2, <2>4
  <2> QED
    BY <1>1, <2>2, <2>7, <2>8, <2>9, TwoChange
<1> QED
  BY <1>4, <1>5, <1>6, <1>7, <1>8, <1>9, <1>10 DEF objectNext

\* What the invariant says of the elements.
LEMMA SoundSurvives ==
  ASSUME ObjectInv
  PROVE  ElementsSurvive
<1>1. ASSUME NEW q \in QueueNames, NEW o, o = objects[q], Alive(q), ~o.moved
      PROVE  /\ [k \in 1..sizeOf(o) |-> o.elements[QueueIndexes(o)[k] + 1]] = asked[q]
             /\ \A i \in DOMAIN o.elements : o.elements[i] \in Items => i - 1 \in Range(QueueIndexes(o))
  <2>1. queueKind \in {"lock_free", "mutex"} /\ Sound(queueKind, o, asked[q])
    BY <1>1 DEF ObjectInv
  <2>2. PICK s, a : s = QueueIndexes(o) /\ a = asked[q]
    OBVIOUS
  <2>3. Holds(o, s, a) /\ sizeOf(o) = Len(a) /\ Len(a) \in Nat
    BY <1>1, <2>1, <2>2, SoundHolds
  <2>4. o \in QueueType /\ a \in Seq(Items)
    BY <2>1, <2>2 DEF Sound
  <2>5. [k \in 1..sizeOf(o) |-> o.elements[s[k] + 1]] = a
    <3>1. a = [k \in 1..Len(a) |-> a[k]]
      BY <2>4, LenProperties
    <3>2. \A k \in 1..Len(a) : o.elements[s[k] + 1] = a[k]
      BY <2>3 DEF Holds
    <3> QED
      BY <2>3, <3>1, <3>2
  <2>6. ASSUME NEW i \in DOMAIN o.elements, o.elements[i] \in Items
        PROVE  i - 1 \in Range(s)
    <3>1. i \in 1..Len(o.elements) /\ Len(o.elements) \in Nat
      BY <2>4, TypedElements
    <3>2. PICK k \in 1..Len(a) : s[k] + 1 = i
      BY <2>3, <2>6, <3>1 DEF Holds
    <3>3. k \in DOMAIN s /\ s[k] \in Nat
      BY <2>3, LenProperties, ElementOfSeq DEF Holds
    <3>4. s[k] = i - 1
      BY <3>1, <3>2, <3>3
    <3> QED
      BY <3>3, <3>4 DEF Range
  <2> QED
    BY <2>2, <2>5, <2>6
<1> QED
  BY <1>1 DEF ObjectInv, ElementsSurvive

\* Queue objects (lock_free_queue-inl.hpp, mutex_queue-inl.hpp): through any
\* construction, setCapacity(), move, assignment, destruction, enqueue and dequeue of
\* any number of queues, whichever way T is stored, a queue holds what it was given
\* since it was last cleared, each element is in the storage of its index and in no
\* other, and no memory is given back with an element in it.  A MutexQueue that was
\* moved from must not be used again.
THEOREM ElementsAreKept ==
  ASSUME ReusedKinds \subseteq {"lock_free"}
  PROVE  objectSpec => []ElementsSurvive
<1>1. objectInit => ObjectInv
  <2> SUFFICES ASSUME objectInit PROVE ObjectInv
    OBVIOUS
  <2>1. NoQueue.alive = FALSE
    BY DEF NoQueue
  <2> QED
    BY <2>1 DEF objectInit, ObjectInv, Alive
<1>2. ObjectInv /\ [objectNext]_objectVars => ObjectInv'
  <2> SUFFICES ASSUME ObjectInv, [objectNext]_objectVars PROVE ObjectInv'
    OBVIOUS
  <2>1. CASE objectNext
    BY <2>1, ObjectsStaySound
  <2>2. CASE UNCHANGED objectVars
    BY <2>2 DEF objectVars, ObjectInv, Alive
  <2> QED
    BY <2>1, <2>2
<1>3. ObjectInv => ElementsSurvive
  BY SoundSurvives
<1> QED
  BY <1>1, <1>2, <1>3, PTL DEF objectSpec

=============================================================================
