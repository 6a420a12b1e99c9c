----------------------------- MODULE MutexQueue -----------------------------
(***************************************************************************)
(* zisc/structure/mutex_queue-inl.hpp: a circular array under one mutex.   *)
(* Every operation runs under the mutex or, clear and setCapacity, while   *)
(* nobody else uses the queue, so each is one step.                        *)
(***************************************************************************)
EXTENDS Naturals

CONSTANTS
  Values,
  QueueSizes,  \* the arguments of setCapacity and of the constructor
  None,        \* a storage without a value
  MaxTail      \* bound on the enqueues between two clears
ASSUME QueueAssumption ==
  QueueSizes \subseteq Nat /\ MaxTail \in Nat /\ None \notin Values

VARIABLES
  capacity,  \* elements_.size()
  elements,  \* elements_
  head,      \* head_
  tail,      \* tail_
  answer     \* what the last call answered

queueVars == <<capacity, elements, head, tail, answer>>

Stored(index) == [kind |-> "stored", index |-> index]
Nothing == [kind |-> "nothing"]
Refused(v) == [kind |-> "refused", value |-> v]
Taken(v) == [kind |-> "taken", value |-> v]

Lowest(c) == IF c = 0 THEN 1 ELSE c
distance == tail - head
Index(current) == current % capacity  \* increment()

queueInit ==
  /\ \E c \in QueueSizes : capacity = Lowest(c)
  /\ elements = [i \in 0..(capacity - 1) |-> None]
  /\ head = 0 /\ tail = 0 /\ answer = Nothing

\* MUTANT: one element more than there is room for.
EnqueueOver(v) ==
  /\ tail < MaxTail
  /\ IF capacity < distance
       THEN answer' = Refused(v) /\ UNCHANGED <<elements, tail>>
       ELSE /\ tail' = tail + 1
            /\ elements' = [elements EXCEPT ![Index(tail)] = v]
            /\ answer' = Stored(Index(tail))
  /\ UNCHANGED <<capacity, head>>
Enqueue(v) ==
  /\ tail < MaxTail
  /\ IF capacity <= distance
       THEN answer' = Refused(v) /\ UNCHANGED <<elements, tail>>
       ELSE /\ tail' = tail + 1
            /\ elements' = [elements EXCEPT ![Index(tail)] = v]
            /\ answer' = Stored(Index(tail))
  /\ UNCHANGED <<capacity, head>>

Dequeue ==
  /\ IF head < tail
       THEN /\ head' = head + 1
            /\ answer' = Taken(elements[Index(head)])
            /\ elements' = [elements EXCEPT ![Index(head)] = None]
       ELSE answer' = Nothing /\ UNCHANGED <<head, elements>>
  /\ UNCHANGED <<capacity, tail>>

\* The loop of clear() destroys the storages from head_ up to tail_.
Held == {Index(k) : k \in head..(tail - 1)}
Cleared == [i \in DOMAIN elements |-> IF i \in Held THEN None ELSE elements[i]]

Clear ==
  /\ elements' = Cleared /\ head' = 0 /\ tail' = 0
  /\ answer' = Nothing /\ UNCHANGED capacity

SetCapacity(c) ==
  /\ capacity' = Lowest(c)
  /\ elements' = [i \in 0..(Lowest(c) - 1) |-> IF i < capacity THEN Cleared[i] ELSE None]
  /\ head' = 0 /\ tail' = 0 /\ answer' = Nothing

queueNext == \/ \E v \in Values : Enqueue(v)
             \/ Dequeue
             \/ Clear
             \/ \E c \in QueueSizes : SetCapacity(c)

queueSpec == queueInit /\ [][queueNext]_queueVars

-----------------------------------------------------------------------------
(* Properties                                                              *)

queueTypeOK ==
  /\ capacity \in Nat \ {0}
  /\ elements \in [0..(capacity - 1) -> Values \cup {None}]
  /\ head \in Nat /\ tail \in Nat
  /\ head <= tail /\ tail <= head + capacity

\* A storage holds a value exactly while the value is in the queue: none is
\* left behind, none is constructed over another, none is destroyed twice.
StoragesMatch == \A i \in 0..(capacity - 1) : elements[i] # None <=> i \in Held

\* The values in the queue, the oldest first.
Contents == [i \in 1..distance |-> elements[Index(head + i - 1)]]
Reported == IF answer.kind = "stored" THEN [kind |-> "stored"] ELSE answer

\* The circular array implements a bounded FIFO queue.
Fifo == INSTANCE BoundedFifo WITH Capacities <- QueueSizes,
          queue <- Contents, room <- capacity, outcome <- Reported
IsFifo == Fifo!fifoSpec
=============================================================================
