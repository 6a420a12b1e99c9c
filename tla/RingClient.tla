----------------------------- MODULE RingClient -----------------------------
(***************************************************************************)
(* The calls LockFreeQueue makes on one of its two rings, and what the     *)
(* ring owes it.  A storage index is either in the ring or with the queue  *)
(* ("pool"): a thread enqueues an index it took from the other ring, and   *)
(* what it dequeues goes to the other ring, possibly by another thread.    *)
(* The free list starts full and is dequeued cautiously (nonempty = TRUE), *)
(* the list of allocated elements starts empty.  freeList says which of    *)
(* them a behaviour is about, and never changes.                           *)
(*                                                                         *)
(* torn, before, overtaken, late and sawEmpty only observe, no step depends*)
(* on them.  An enqueue counts as ended once its index is in a cell, its   *)
(* last access to shared memory.                                           *)
(***************************************************************************)
EXTENDS PortableRingBuffer

VARIABLES
  freeList,   \* the ring is free_elements_ (else allocated_elements_)
  torn,       \* so far, some cell's index changed while a dequeuer was between
              \* its two loads (index, then value) of that cell
  pool,       \* the indexes outside of the ring and of its calls
  before,     \* v -> the indexes in the ring when the call enqueue(v) began
  overtaken,  \* indexes still in the ring although a later one came out
  late,       \* thread -> the indexes overtaken when its dequeue began
  sawEmpty    \* thread -> at some time during its dequeue nothing was on offer

ghosts == <<before, overtaken, late, sawEmpty>>
vars == <<head, tail, cell, op, freeList, torn, pool, before, overtaken, late, sawEmpty>>

\* A cell that holds an index holds it for the dequeuer of this ticket.
TicketOf(i) == cell[i].node - N
Committed(i) == cell[i].value \in Values
InRing == {cell[i].value : i \in {j \in DOMAIN cell : Committed(j)}}
\* Indexes completely enqueued that no dequeuer has a ticket for.
OnOffer == {cell[i].value : i \in {j \in DOMAIN cell :
              Committed(j) /\ head <= TicketOf(j)}}
Dequeuing(t) == op[t].pc \in DequeuePcs \cup {"D_done"}

Init ==
  /\ freeList \in BOOLEAN /\ torn = FALSE
  /\ IF freeList THEN InitFull ELSE InitCleared
  /\ pool = IF freeList THEN {} ELSE Values
  /\ before = [v \in Values |-> IF freeList THEN 0..(v - 1) ELSE {}]
  /\ overtaken = {}
  /\ late = [t \in Threads |-> {}]
  /\ sawEmpty = [t \in Threads |-> FALSE]

Observe ==
  sawEmpty' = [t \in Threads |-> Dequeuing(t)' /\ (sawEmpty[t] \/ OnOffer' = {})]

BeginEnqueue(t) == \E v \in pool :
  /\ CallEnqueue(t, v)
  /\ pool' = pool \ {v}
  /\ before' = [before EXCEPT ![v] = InRing]
  /\ UNCHANGED <<overtaken, late>>

BeginDequeue(t) ==
  /\ CallDequeue(t, freeList)
  /\ late' = [late EXCEPT ![t] = overtaken]
  /\ UNCHANGED <<pool, before, overtaken>>

EndEnqueue(t) ==
  /\ op[t].pc = "E_done" /\ Return(t)
  /\ UNCHANGED <<pool, before, overtaken, late>>

EndDequeue(t) ==
  /\ op[t].pc = "D_done" /\ Return(t)
  /\ LET v == op[t].arg IN
       IF v \in Values
         THEN /\ pool' = pool \cup {v}
              /\ before' = [u \in Values |-> IF u = v THEN {} ELSE before[u] \ {v}]
              /\ overtaken' = (overtaken \cup before[v]) \ {v}
              /\ late' = [u \in Threads |-> IF u = t THEN {} ELSE late[u] \ {v}]
         ELSE /\ late' = [late EXCEPT ![t] = {}]
              /\ UNCHANGED <<pool, before, overtaken>>

Step(t) == RingStep(t) /\ UNCHANGED <<pool, before, overtaken, late>>

ThreadStep(t) == BeginEnqueue(t) \/ BeginDequeue(t) \/ EndEnqueue(t) \/ EndDequeue(t) \/ Step(t)

\* No dequeuer is between its two loads of a cell whose index has changed.
SteadyView == \A t \in Threads : op[t].pc = "D_value" => cell[Pos(t)].node = op[t].node

Next == /\ \E t \in Threads : ThreadStep(t)
        /\ torn' = (torn \/ ~SteadyView')
        /\ Observe
        /\ UNCHANGED freeList

Spec == Init /\ [][Next]_vars
-----------------------------------------------------------------------------
(* Properties                                                              *)

\* Every variable stays in its range.
TypeOK ==
  /\ RingTypeOK
  /\ freeList \in BOOLEAN /\ torn \in BOOLEAN
  /\ pool \subseteq Values /\ overtaken \subseteq Values
  /\ before \in [Values -> SUBSET Values]
  /\ late \in [Threads -> SUBSET Values]
  /\ sawEmpty \in [Threads -> BOOLEAN]

\* The ways an index is accounted for: outside, being enqueued, in a cell,
\* or the answer of a dequeue.
Enqueuers(v) == {t \in Threads : op[t].pc \in EnqueuePcs /\ op[t].arg = v}
Holders(v) == {t \in Threads : op[t].pc = "D_done" /\ op[t].arg = v}
CellsWith(v) == {i \in DOMAIN cell : cell[i].value = v}

\* Under any interleaving of the calls of enqueue and dequeue an index is in
\* exactly one place: dequeue never returns it twice, no stalled, beaten or
\* restarted call drops it, and enqueue stores it once.
Conservation == \A v \in Values :
  (IF v \in pool THEN 1 ELSE 0) + Cardinality(Enqueuers(v))
    + Cardinality(Holders(v)) + Cardinality(CellsWith(v)) = 1

\* An index whose ticket the dequeuers have already drawn is never stranded:
\* the dequeuer that drew the ticket is alive at the cell, and it is alone.
ClaimedIsTaken == \A i \in DOMAIN cell :
  Committed(i) /\ TicketOf(i) < head =>
    Cardinality({t \in Threads : op[t].pc \in TicketPcs
                                  /\ op[t].ticket = TicketOf(i)}) = 1

\* A dequeuer that decided to take an index still finds it in its cell when it
\* stores invalidIndex() over it: the plain store after the two loads is safe.
TakeIsExclusive == \A t \in Threads :
  op[t].pc = "D_take" => /\ cell[Pos(t)].value = op[t].value
                         /\ TicketOf(Pos(t)) = op[t].ticket

\* First in, first out, as far as the calls can tell: if enqueue(a) ended
\* before enqueue(b) began, no dequeue that begins after b came out returns a.
FifoOrder == \A t \in Threads :
  op[t].pc = "D_done" => op[t].arg \notin late[t]

\* dequeue answers "empty" only if at some time during the call every index in
\* the ring was already promised to another dequeuer.
EmptyIsHonest == \A t \in Threads :
  op[t].pc = "D_done" /\ op[t].arg = Invalid => sawEmpty[t]

\* The refusal of a cautious dequeue, read the same way.  distance() loads the
\* tail before the head, so this is NOT true of the code.
OverflowIsHonest == \A t \in Threads :
  op[t].pc = "D_done" /\ op[t].arg = Overflow => sawEmpty[t]

\* As long as no dequeuer has had a torn view of a cell, an index of a ring is in
\* exactly one place: dequeue never returns it twice and no call drops it.
\* Without the condition this is NOT true of the code (Conservation).
RingConserves == ~torn => Conservation

\* One dequeuer at most works on the cell of a ticket, it is still there when
\* the ticket's index is, and as long as no view of a cell was torn it stores
\* invalidIndex() over the index it decided to take.
TicketsAreExclusive == ClaimedIsTaken /\ (~torn => TakeIsExclusive)

\* As long as no dequeuer has had a torn view of a cell, dequeue answers in the
\* order in which the calls of enqueue ended.
RingIsFifo == ~torn => FifoOrder

\* The node index of a cell never decreases, whoever of an enqueuer with a
\* stale load and a poisoning dequeuer wins: old tickets stay dead.
NodeNeverDecreases ==
  [][\A i \in DOMAIN cell : cell'[i].node >= cell[i].node]_vars
=============================================================================
