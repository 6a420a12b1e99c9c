------------------------ MODULE ScalableRingClient ------------------------
(***************************************************************************)
(* The calls LockFreeQueue makes on one of its two rings when they are     *)
(* ScalableRings, and what the ring owes it.  As in RingClient, an index   *)
(* is either in the ring or with the queue ("pool"), and the ring is the   *)
(* free list (full at first, every call with nonempty = TRUE) or the list  *)
(* of allocated elements.  Which one is chosen in the initial state.       *)
(*                                                                         *)
(* before, overtaken, late and sawEmpty only observe the order in which    *)
(* calls began and ended.                                                  *)
(***************************************************************************)
EXTENDS ScalableRing

VARIABLES
  freeList,   \* the ring is free_elements_ (else allocated_elements_)
  pool,       \* the indexes outside of the ring and of its calls
  before,     \* v -> the indexes in the ring when the call enqueue(v) began
  overtaken,  \* indexes still in the ring although a later one came out
  late,       \* thread -> the indexes overtaken when its dequeue began
  sawEmpty    \* thread -> at some time during its dequeue nothing was on offer

ghosts == <<before, overtaken, late, sawEmpty>>
clientVars == <<ringHead, ringTail, threshold, cell, op, freeList, pool,
          before, overtaken, late, sawEmpty>>

TicketOf(i) == cell[i].cycle * N + i
Committed(i) == cell[i].index # Empty
InRing == {cell[i].index : i \in {j \in DOMAIN cell : Committed(j)}}
\* The indexes of enqueue calls that have not yet looked at the threshold.
Raising == {op[t].arg : t \in {u \in Threads : op[u].pc \in {"E_threshold", "E_raise"}}}
\* Indexes completely enqueued that no dequeuer has a ticket for.
OnOffer == {cell[i].index : i \in {j \in DOMAIN cell :
              Committed(j) /\ ringHead <= TicketOf(j)}} \ Raising
Dequeuing(t) == op[t].pc \in DequeuePcs \cup {"D_done"}

clientInit ==
  /\ freeList \in BOOLEAN
  /\ IF freeList THEN InitFull ELSE InitCleared
  /\ pool = IF freeList THEN {} ELSE Indexes
  /\ before = [v \in Indexes |-> IF freeList THEN 0..(v - 1) ELSE {}]
  /\ overtaken = {}
  /\ late = [t \in Threads |-> {}]
  /\ sawEmpty = [t \in Threads |-> FALSE]

ObserveOffer ==
  sawEmpty' = [t \in Threads |-> Dequeuing(t)' /\ (sawEmpty[t] \/ OnOffer' = {})]

BeginEnqueue(t) == \E v \in pool :
  /\ CallEnqueue(t, v, freeList)
  /\ pool' = pool \ {v}
  /\ before' = [before EXCEPT ![v] = InRing]
  /\ UNCHANGED <<overtaken, late>>

BeginDequeue(t) ==
  /\ CallDequeue(t, freeList)
  /\ late' = [late EXCEPT ![t] = overtaken]
  /\ UNCHANGED <<pool, before, overtaken>>

EndEnqueue(t) ==
  /\ op[t].pc = "E_done" /\ RingReturn(t)
  /\ UNCHANGED <<pool, before, overtaken, late>>

EndDequeue(t) ==
  /\ op[t].pc = "D_done" /\ RingReturn(t)
  /\ LET v == op[t].arg IN
       IF v \in Indexes
         THEN /\ pool' = pool \cup {v}
              /\ before' = [u \in Indexes |-> IF u = v THEN {} ELSE before[u] \ {v}]
              /\ overtaken' = (overtaken \cup before[v]) \ {v}
              /\ late' = [u \in Threads |-> IF u = t THEN {} ELSE late[u] \ {v}]
         ELSE /\ late' = [late EXCEPT ![t] = {}]
              /\ UNCHANGED <<pool, before, overtaken>>

Step(t) == RingStep(t) /\ UNCHANGED <<pool, before, overtaken, late>>

ThreadStep(t) == BeginEnqueue(t) \/ BeginDequeue(t) \/ EndEnqueue(t) \/ EndDequeue(t) \/ Step(t)

clientNext == /\ \E t \in Threads : ThreadStep(t)
        /\ ObserveOffer
        /\ UNCHANGED freeList

clientSpec == clientInit /\ [][clientNext]_clientVars
-----------------------------------------------------------------------------
(* Properties                                                              *)

\* Every variable stays in its range; a dequeuer that takes sees an index.
clientTypeOK ==
  /\ RingTypeOK
  /\ freeList \in BOOLEAN
  /\ pool \subseteq Indexes /\ overtaken \subseteq Indexes
  /\ before \in [Indexes -> SUBSET Indexes]
  /\ late \in [Threads -> SUBSET Indexes]
  /\ sawEmpty \in [Threads -> BOOLEAN]

\* The ways an index is accounted for: outside, being enqueued, in a cell,
\* or the answer of a dequeue.
Enqueuers(v) == {t \in Threads : op[t].arg = v
                   /\ op[t].pc \in {"E_ticket", "E_load", "E_head", "E_cas"}}
Holders(v) == {t \in Threads : op[t].pc = "D_done" /\ op[t].arg = v}
CellsWith(v) == {i \in DOMAIN cell : cell[i].index = v}

\* Under any interleaving of enqueue and dequeue an index is in exactly one
\* place: no failed compare and exchange, unsafe mark, spent cell or raised
\* tail makes an index appear twice or get lost.
Conservation == \A v \in Indexes :
  (IF v \in pool THEN 1 ELSE 0) + Cardinality(Enqueuers(v))
    + Cardinality(Holders(v)) + Cardinality(CellsWith(v)) = 1

\* An index whose ticket the dequeuers have already drawn is never stranded:
\* the dequeuer that drew the ticket is alive at the cell, and it is alone.
ClaimedIsTaken == \A i \in DOMAIN cell :
  Committed(i) /\ TicketOf(i) < ringHead =>
    Cardinality({t \in Threads : op[t].pc \in TicketPcs
                                  /\ op[t].ticket = TicketOf(i)}) = 1

\* A dequeuer that decided to take the index it loaded still finds it in its
\* cell, of its lap, when it clears the index bits with fetch_or: it may have
\* been marked unsafe in between, but neither taken nor overwritten.
TakeIsExclusive == \A t \in Threads :
  op[t].pc = "D_take" => /\ op[t].entry.index \in Indexes
                         /\ cell[Pos(t)].index = op[t].entry.index
                         /\ TicketOf(Pos(t)) = op[t].ticket

\* One dequeuer at most works on the cell of a ticket, and what it decided to
\* take is still there when it takes it.
TicketsAreExclusive == ClaimedIsTaken /\ TakeIsExclusive

\* First in, first out, as far as the calls can tell: if enqueue(a) ended
\* before enqueue(b) began, no dequeue that begins after b came out returns a.
FifoOrder == \A t \in Threads :
  op[t].pc = "D_done" => op[t].arg \notin late[t]

\* dequeue answers "empty", be it for the threshold or for the tail, only if at
\* some time during the call every index completely enqueued was already
\* promised to another dequeuer.
EmptyIsHonest == \A t \in Threads :
  op[t].pc = "D_done" /\ op[t].arg = Invalid => sawEmpty[t]

\* What the calls may rely on about the answers they get.
AnswersAreOrdered == FifoOrder /\ EmptyIsHonest

\* The lap of a cell never goes back, whoever of an enqueuer with a stale load
\* and a dequeuer that spends the cell wins: old tickets stay dead.
LapNeverDecreases ==
  [][\A i \in DOMAIN cell : cell'[i].cycle >= cell[i].cycle]_clientVars
=============================================================================
