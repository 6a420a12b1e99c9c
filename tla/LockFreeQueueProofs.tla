------------------------ MODULE LockFreeQueueProofs ------------------------
(* Theorems about LockFreeQueue, for any number of threads, slots and        *)
(* elements, from those about one ring: each of its two rings is taken as    *)
(* the ring of RingClientProofs, whose pool is what the rest of the queue    *)
(* has.                                                                      *)
EXTENDS LockFreeQueue, TLAPS, FiniteSetTheorems

-----------------------------------------------------------------------------
(* The two rings, each seen from the other side.                             *)

\* A thread works on a slot between two ring calls.
Holds(t, i) == call[t].pc \in {"e_set", "d_move"} /\ call[t].index = i
Held(i) == \E t \in Threads : Holds(t, i)
\* A ring has an index in a cell, or in a call that puts it in or took it out.
HasFree(i) == \/ \E t \in Threads : fOp[t].pc \in Free!EnqueuePcs \cup {"D_done"} /\ fOp[t].arg = i
              \/ \E c \in Indexes : fCell[c].value = i
HasAlloc(i) == \/ \E t \in Threads : aOp[t].pc \in Alloc!EnqueuePcs \cup {"D_done"} /\ aOp[t].arg = i
               \/ \E c \in Indexes : aCell[c].value = i
\* The pool of a ring is what the rest of the queue has.
FreePool == {i \in Indexes : Held(i) \/ HasAlloc(i)}
AllocPool == {i \in Indexes : Held(i) \/ HasFree(i)}

FreeRing == INSTANCE RingClientProofs
  WITH head <- fHead, tail <- fTail, cell <- fCell, op <- fOp, pool <- FreePool,
       freeList <- TRUE, torn <- tornViews, before <- {}, overtaken <- {}, late <- {},
       sawEmpty <- {}
AllocRing == INSTANCE RingClientProofs
  WITH head <- aHead, tail <- aTail, cell <- aCell, op <- aOp, pool <- AllocPool,
       freeList <- FALSE, torn <- tornViews, before <- {}, overtaken <- {}, late <- {},
       sawEmpty <- {}

\* FreeRing is the ring that Free is: the same operators over the same variables.
LEMMA FreeIsARing ==
  ASSUME NEW t \in Threads
  PROVE  /\ Free!RingStep(t) => FreeRing!RingStep(t)
         /\ Free!DequeueStep(t) => FreeRing!DequeueStep(t)
         /\ \A v : Free!CallEnqueue(t, v) => FreeRing!CallEnqueue(t, v)
         /\ \A b : Free!CallDequeue(t, b) => FreeRing!CallDequeue(t, b)
         /\ Free!Return(t) => FreeRing!Return(t)
         /\ Free!EnqueuePcs = FreeRing!EnqueuePcs /\ Free!DequeuePcs = FreeRing!DequeuePcs
         /\ Free!TicketPcs = FreeRing!TicketPcs /\ Free!Idle = FreeRing!Idle
         /\ Free!Pos(t) = FreeRing!Pos(t)
<1>1. /\ Free!RingStep(t) => FreeRing!RingStep(t)
      /\ Free!DequeueStep(t) => FreeRing!DequeueStep(t)
  BY Zenon
     DEF Free!RingStep, Free!EnqueueStep, Free!DequeueStep, Free!EnqTicket,
         Free!EnqIndex, Free!EnqValue, Free!EnqHead, Free!EnqReserve, Free!EnqAdvance,
         Free!EnqCommit, Free!EnqUndo, Free!DeqSizeTail, Free!DeqSizeHead,
         Free!DeqTicket, Free!DeqIndex, Free!DeqValue, Free!DeqTake, Free!DeqRecheck,
         Free!DeqMark, Free!DeqTail, Free!DeqUnbottom, Free!DeqPoison, Free!DeqLast,
         Free!FixTail, Free!FixHead, Free!FixAgain, Free!FixCas, Free!NewTicket,
         Free!Goto, Free!Become, Free!Pos, Free!SameIndex, Free!SetIndex, Free!SetValue,
         Free!Forget, Free!Leave, Free!Answer, Free!Enqueued, Free!Idle, Free!Frame,
         Free!Vacant, Free!GivesUp, Free!Patience, Free!isBottom, Free!Bottom,
         Free!Element, FreeRing!RingStep, FreeRing!EnqueueStep, FreeRing!DequeueStep,
         FreeRing!EnqTicket, FreeRing!EnqIndex, FreeRing!EnqValue, FreeRing!EnqHead,
         FreeRing!EnqReserve, FreeRing!EnqAdvance, FreeRing!EnqCommit, FreeRing!EnqUndo,
         FreeRing!DeqSizeTail, FreeRing!DeqSizeHead, FreeRing!DeqTicket,
         FreeRing!DeqIndex, FreeRing!DeqValue, FreeRing!DeqTake, FreeRing!DeqRecheck,
         FreeRing!DeqMark, FreeRing!DeqTail, FreeRing!DeqUnbottom, FreeRing!DeqPoison,
         FreeRing!DeqLast, FreeRing!FixTail, FreeRing!FixHead, FreeRing!FixAgain,
         FreeRing!FixCas, FreeRing!NewTicket, FreeRing!Goto, FreeRing!Become,
         FreeRing!Pos, FreeRing!SameIndex, FreeRing!SetIndex, FreeRing!SetValue,
         FreeRing!Forget, FreeRing!Leave, FreeRing!Answer, FreeRing!Enqueued,
         FreeRing!Idle, FreeRing!Frame, FreeRing!Vacant, FreeRing!GivesUp,
         FreeRing!Patience, FreeRing!isBottom, FreeRing!Bottom, FreeRing!Element
<1>2. /\ \A v : Free!CallEnqueue(t, v) => FreeRing!CallEnqueue(t, v)
      /\ \A b : Free!CallDequeue(t, b) => FreeRing!CallDequeue(t, b)
      /\ Free!Return(t) => FreeRing!Return(t)
  BY Zenon DEF Free!CallEnqueue, FreeRing!CallEnqueue, Free!CallDequeue, FreeRing!CallDequeue,
     Free!Return, FreeRing!Return, Free!Idle, FreeRing!Idle, Free!Frame, FreeRing!Frame, Free!Become,
     FreeRing!Become
<1>3. /\ Free!EnqueuePcs = FreeRing!EnqueuePcs /\ Free!DequeuePcs = FreeRing!DequeuePcs
      /\ Free!TicketPcs = FreeRing!TicketPcs /\ Free!Idle = FreeRing!Idle
      /\ Free!Pos(t) = FreeRing!Pos(t)
  BY Zenon DEF Free!EnqueuePcs, FreeRing!EnqueuePcs, Free!DequeuePcs, FreeRing!DequeuePcs,
     Free!TicketPcs, FreeRing!TicketPcs, Free!Idle, FreeRing!Idle, Free!Frame, FreeRing!Frame,
     Free!Pos, FreeRing!Pos
<1> QED
  BY <1>1, <1>2, <1>3

\* AllocRing is the ring that Alloc is: the same operators over the same variables.
LEMMA AllocIsARing ==
  ASSUME NEW t \in Threads
  PROVE  /\ Alloc!RingStep(t) => AllocRing!RingStep(t)
         /\ Alloc!DequeueStep(t) => AllocRing!DequeueStep(t)
         /\ \A v : Alloc!CallEnqueue(t, v) => AllocRing!CallEnqueue(t, v)
         /\ \A b : Alloc!CallDequeue(t, b) => AllocRing!CallDequeue(t, b)
         /\ Alloc!Return(t) => AllocRing!Return(t)
         /\ Alloc!EnqueuePcs = AllocRing!EnqueuePcs /\ Alloc!DequeuePcs = AllocRing!DequeuePcs
         /\ Alloc!TicketPcs = AllocRing!TicketPcs /\ Alloc!Idle = AllocRing!Idle
         /\ Alloc!Pos(t) = AllocRing!Pos(t)
<1>1. /\ Alloc!RingStep(t) => AllocRing!RingStep(t)
      /\ Alloc!DequeueStep(t) => AllocRing!DequeueStep(t)
  BY Zenon
     DEF Alloc!RingStep, Alloc!EnqueueStep, Alloc!DequeueStep, Alloc!EnqTicket,
         Alloc!EnqIndex, Alloc!EnqValue, Alloc!EnqHead, Alloc!EnqReserve,
         Alloc!EnqAdvance, Alloc!EnqCommit, Alloc!EnqUndo, Alloc!DeqSizeTail,
         Alloc!DeqSizeHead, Alloc!DeqTicket, Alloc!DeqIndex, Alloc!DeqValue,
         Alloc!DeqTake, Alloc!DeqRecheck, Alloc!DeqMark, Alloc!DeqTail,
         Alloc!DeqUnbottom, Alloc!DeqPoison, Alloc!DeqLast, Alloc!FixTail,
         Alloc!FixHead, Alloc!FixAgain, Alloc!FixCas, Alloc!NewTicket, Alloc!Goto,
         Alloc!Become, Alloc!Pos, Alloc!SameIndex, Alloc!SetIndex, Alloc!SetValue,
         Alloc!Forget, Alloc!Leave, Alloc!Answer, Alloc!Enqueued, Alloc!Idle,
         Alloc!Frame, Alloc!Vacant, Alloc!GivesUp, Alloc!Patience, Alloc!isBottom,
         Alloc!Bottom, Alloc!Element, AllocRing!RingStep, AllocRing!EnqueueStep,
         AllocRing!DequeueStep, AllocRing!EnqTicket, AllocRing!EnqIndex,
         AllocRing!EnqValue, AllocRing!EnqHead, AllocRing!EnqReserve,
         AllocRing!EnqAdvance, AllocRing!EnqCommit, AllocRing!EnqUndo,
         AllocRing!DeqSizeTail, AllocRing!DeqSizeHead, AllocRing!DeqTicket,
         AllocRing!DeqIndex, AllocRing!DeqValue, AllocRing!DeqTake,
         AllocRing!DeqRecheck, AllocRing!DeqMark, AllocRing!DeqTail,
         AllocRing!DeqUnbottom, AllocRing!DeqPoison, AllocRing!DeqLast,
         AllocRing!FixTail, AllocRing!FixHead, AllocRing!FixAgain, AllocRing!FixCas,
         AllocRing!NewTicket, AllocRing!Goto, AllocRing!Become, AllocRing!Pos,
         AllocRing!SameIndex, AllocRing!SetIndex, AllocRing!SetValue, AllocRing!Forget,
         AllocRing!Leave, AllocRing!Answer, AllocRing!Enqueued, AllocRing!Idle,
         AllocRing!Frame, AllocRing!Vacant, AllocRing!GivesUp, AllocRing!Patience,
         AllocRing!isBottom, AllocRing!Bottom, AllocRing!Element
<1>2. /\ \A v : Alloc!CallEnqueue(t, v) => AllocRing!CallEnqueue(t, v)
      /\ \A b : Alloc!CallDequeue(t, b) => AllocRing!CallDequeue(t, b)
      /\ Alloc!Return(t) => AllocRing!Return(t)
  BY Zenon DEF Alloc!CallEnqueue, AllocRing!CallEnqueue, Alloc!CallDequeue, AllocRing!CallDequeue,
     Alloc!Return, AllocRing!Return, Alloc!Idle, AllocRing!Idle, Alloc!Frame, AllocRing!Frame, Alloc!Become,
     AllocRing!Become
<1>3. /\ Alloc!EnqueuePcs = AllocRing!EnqueuePcs /\ Alloc!DequeuePcs = AllocRing!DequeuePcs
      /\ Alloc!TicketPcs = AllocRing!TicketPcs /\ Alloc!Idle = AllocRing!Idle
      /\ Alloc!Pos(t) = AllocRing!Pos(t)
  BY Zenon DEF Alloc!EnqueuePcs, AllocRing!EnqueuePcs, Alloc!DequeuePcs, AllocRing!DequeuePcs,
     Alloc!TicketPcs, AllocRing!TicketPcs, Alloc!Idle, AllocRing!Idle, Alloc!Frame, AllocRing!Frame,
     Alloc!Pos, AllocRing!Pos
<1> QED
  BY <1>1, <1>2, <1>3

\* A ring has exactly what is not in its pool, before and after a step.
LEMMA FreeOutside == FreeRing!RingSound => \A i \in Indexes : HasFree(i) <=> i \notin FreePool
<1> SUFFICES ASSUME FreeRing!RingSound PROVE \A i \in Indexes : HasFree(i) <=> i \notin FreePool
  OBVIOUS
<1>1. \A i \in Indexes : FreeRing!Inside(i) <=> i \notin FreePool
  BY FreeRing!PoolIsOutside, NAssumption, BoundAssumption, WordAssumption
     DEF Values, Indexes, FreeRing!Values
<1>2. \A i \in Indexes : FreeRing!Inside(i) <=> HasFree(i)
  BY DEF HasFree, FreeRing!Inside, FreeRing!Carries, FreeRing!InCell, Free!EnqueuePcs,
     FreeRing!EnqueuePcs, Indexes
<1> QED
  BY <1>1, <1>2

\* After a step as before it.
LEMMA FreeOutsideNext == FreeRing!RingSound' => (\A i \in Indexes : HasFree(i) <=> i \notin FreePool)'
BY FreeOutside, PTL

\* The same of the ring of allocated elements.
LEMMA AllocOutside == AllocRing!RingSound => \A i \in Indexes : HasAlloc(i) <=> i \notin AllocPool
<1> SUFFICES ASSUME AllocRing!RingSound PROVE \A i \in Indexes : HasAlloc(i) <=> i \notin AllocPool
  OBVIOUS
<1>1. \A i \in Indexes : AllocRing!Inside(i) <=> i \notin AllocPool
  BY AllocRing!PoolIsOutside, NAssumption, BoundAssumption, WordAssumption
     DEF Values, Indexes, AllocRing!Values
<1>2. \A i \in Indexes : AllocRing!Inside(i) <=> HasAlloc(i)
  BY DEF HasAlloc, AllocRing!Inside, AllocRing!Carries, AllocRing!InCell, Alloc!EnqueuePcs,
     AllocRing!EnqueuePcs, Indexes
<1> QED
  BY <1>1, <1>2

\* After a step as before it.
LEMMA AllocOutsideNext == AllocRing!RingSound' => (\A i \in Indexes : HasAlloc(i) <=> i \notin AllocPool)'
BY AllocOutside, PTL

-----------------------------------------------------------------------------
(* The invariant.                                                            *)

CallPcs == {"idle", "e_free", "e_set", "e_alloc", "d_alloc", "d_move", "d_free", "c_loop"}
CallType == [pc : CallPcs, elem : Elements \cup {Raw}, index : Indexes \cup {Invalid},
             clear : BOOLEAN, left : Nat]
Typed ==
  /\ storage \in [Indexes -> Elements \cup {Raw}]
  /\ call \in [Threads -> CallType]
  /\ fate \in [Elements -> {"unsent", "sent", "out", "overflow", "nullopt"}]

\* A call on the queue and its call on a ring, which it waits for.
Agrees(t) ==
  /\ call[t].pc \notin {"e_free", "d_free"} => fOp[t] = Free!Idle
  /\ call[t].pc \notin {"e_alloc", "d_alloc"} => aOp[t] = Alloc!Idle
  /\ call[t].pc = "e_free" => fOp[t].pc \in Free!DequeuePcs \cup {"D_done"}
  /\ call[t].pc = "d_free" => fOp[t].pc \in Free!EnqueuePcs \cup {"E_done"}
  /\ call[t].pc = "e_alloc" => aOp[t].pc \in Alloc!EnqueuePcs \cup {"E_done"}
  /\ call[t].pc = "d_alloc" => aOp[t].pc \in Alloc!DequeuePcs \cup {"D_done"}
  /\ call[t].pc \in {"e_set", "d_move"} => call[t].index \in Indexes
  /\ call[t].pc \in {"e_free", "e_set"} => call[t].elem \in Elements
  /\ call[t].pc = "idle" => call[t] = NoCall
  /\ call[t].clear => call[t].pc \in {"c_loop", "d_alloc", "d_move", "d_free"}
  /\ call[t].pc = "c_loop" => call[t].clear

HeldOnce == \A t, u \in Threads : \A i \in Indexes : Holds(t, i) /\ Holds(u, i) => t = u

\* Both rings are sound and no thread is between two loads that disagree.
RingsInv == FreeRing!RingSound /\ AllocRing!RingSound /\ SteadyViews /\ HeldOnce

\* A slot has a value from the moment it is filled, on its way through the ring
\* of allocated elements, until a dequeue moves the value out.
Filled(i) == HasAlloc(i) \/ \E t \in Threads : call[t].pc = "d_move" /\ call[t].index = i
SlotsInv == \A i \in Indexes : storage[i] # Raw <=> Filled(i)

\* An element that is sent is with one call or in one slot, one that is not sent
\* is nowhere.
Gives(t, e) == call[t].pc \in {"e_free", "e_set"} /\ call[t].elem = e
ElementsInv == \A e \in Elements :
  /\ fate[e] = "unsent" =>
       (\A t \in Threads : ~Gives(t, e)) /\ \A i \in Indexes : storage[i] # e
  /\ fate[e] = "sent" =>
       /\ (\E t \in Threads : Gives(t, e)) \/ \E i \in Indexes : storage[i] = e
       /\ \A t \in Threads : Gives(t, e) => \A i \in Indexes : storage[i] # e
       /\ \A t, u \in Threads : Gives(t, e) /\ Gives(u, e) => t = u
       /\ \A i, j \in Indexes : storage[i] = e /\ storage[j] = e => i = j

\* clear() is alone, and has as many dequeues left as there can be elements: a
\* dequeue draws at least one ticket.
ClearInv == \A t \in Threads : call[t].clear =>
  /\ \A u \in Threads \ {t} : call[u] = NoCall
  /\ call[t].pc # "d_alloc" => aTail <= aHead + call[t].left
  /\ call[t].pc = "d_alloc" =>
       /\ aOp[t].pc \notin {"D_size_tail", "D_size_head"}
       /\ aOp[t].pc = "D_ticket" => aTail <= aHead + call[t].left + 1
       /\ aOp[t].pc # "D_ticket" => aTail <= aHead + call[t].left

RingTypes == FreeRing!RingInv /\ AllocRing!RingInv /\ AllocRing!RaisesToHead

\* What the calls and the words of the rings owe to nothing but their types,
\* and what slots and elements owe to the rings, which lose it when a dequeuer
\* has had a torn view of a cell.
CallsInv == Typed /\ (\A t \in Threads : Agrees(t)) /\ RingTypes /\ ClearInv
SteadyInv == RingsInv /\ SlotsInv /\ ElementsInv
IInv == tornViews \in BOOLEAN /\ CallsInv /\ (~tornViews => SteadyInv)

-----------------------------------------------------------------------------
(* Indexes pass between the rings through the hands of threads.              *)

\* Seen from the other ring a ring stands still if its pool does.
LEMMA FreeRests ==
  ASSUME FreeRing!RingSound, UNCHANGED freeVars, UNCHANGED FreePool
  PROVE  FreeRing!RingSound'
BY FreeRing!RestIsSound, NAssumption, BoundAssumption, WordAssumption DEF freeVars, Values, FreeRing!Values

\* The same of the ring of allocated elements.
LEMMA AllocRests ==
  ASSUME AllocRing!RingSound, UNCHANGED allocVars, UNCHANGED AllocPool
  PROVE  AllocRing!RingSound'
BY AllocRing!RestIsSound, NAssumption, BoundAssumption, WordAssumption DEF allocVars, Values, AllocRing!Values

\* A ring that keeps its pool keeps what it has, and the other ring rests.
LEMMA FreeAlone ==
  ASSUME FreeRing!RingSound, AllocRing!RingSound, UNCHANGED allocVars,
         \A i \in Indexes : Held(i)' <=> Held(i),
         FreePool' = FreePool => FreeRing!RingSound'
  PROVE  /\ FreeRing!RingSound' /\ AllocRing!RingSound'
         /\ \A i \in Indexes : (HasFree(i)' <=> HasFree(i)) /\ (HasAlloc(i)' <=> HasAlloc(i))
<1>1. \A i \in Indexes : HasAlloc(i)' <=> HasAlloc(i)
  BY DEF HasAlloc, allocVars
<1>2. FreePool' = FreePool
  BY <1>1 DEF FreePool
<1>3. FreeRing!RingSound'
  BY <1>2
<1>4. \A i \in Indexes : HasFree(i)' <=> HasFree(i)
  BY <1>2, <1>3, FreeOutside, FreeOutsideNext
<1>5. AllocPool' = AllocPool
  BY <1>4 DEF AllocPool
<1> QED
  BY <1>1, <1>3, <1>4, <1>5, AllocRests

\* The same of the ring of allocated elements.
LEMMA AllocAlone ==
  ASSUME AllocRing!RingSound, FreeRing!RingSound, UNCHANGED freeVars,
         \A i \in Indexes : Held(i)' <=> Held(i),
         AllocPool' = AllocPool => AllocRing!RingSound'
  PROVE  /\ AllocRing!RingSound' /\ FreeRing!RingSound'
         /\ \A i \in Indexes : (HasAlloc(i)' <=> HasAlloc(i)) /\ (HasFree(i)' <=> HasFree(i))
<1>1. \A i \in Indexes : HasFree(i)' <=> HasFree(i)
  BY DEF HasFree, freeVars
<1>2. AllocPool' = AllocPool
  BY <1>1 DEF AllocPool
<1>3. AllocRing!RingSound'
  BY <1>2
<1>4. \A i \in Indexes : HasAlloc(i)' <=> HasAlloc(i)
  BY <1>2, <1>3, AllocOutside, AllocOutsideNext
<1>5. FreePool' = FreePool
  BY <1>4 DEF FreePool
<1> QED
  BY <1>1, <1>3, <1>4, <1>5, FreeRests

\* A step of a call inside a ring moves no index to the other side,
LEMMA FreeWorks ==
  ASSUME FreeRing!RingSound, AllocRing!RingSound, UNCHANGED allocVars, SteadyViews,
         \A i \in Indexes : Held(i)' <=> Held(i), NEW t \in Threads, Free!RingStep(t)
  PROVE  /\ FreeRing!RingSound' /\ AllocRing!RingSound'
         /\ \A i \in Indexes : (HasFree(i)' <=> HasFree(i)) /\ (HasAlloc(i)' <=> HasAlloc(i))
<1>1. FreeRing!RingStep(t)
  BY FreeIsARing
<1>2. FreeRing!SteadyView
  BY FreeIsARing DEF SteadyViews, FreeRing!SteadyView
<1>3. FreePool' = FreePool => FreeRing!RingSound'
  BY <1>1, <1>2, FreeRing!WorkIsSound, NAssumption, BoundAssumption, WordAssumption
     DEF Values, FreeRing!Values
<1> QED
  BY <1>3, FreeAlone

\* in the ring of allocated elements as in the other.
LEMMA AllocWorks ==
  ASSUME AllocRing!RingSound, FreeRing!RingSound, UNCHANGED freeVars, SteadyViews,
         \A i \in Indexes : Held(i)' <=> Held(i), NEW t \in Threads, Alloc!RingStep(t)
  PROVE  /\ AllocRing!RingSound' /\ FreeRing!RingSound'
         /\ \A i \in Indexes : (HasAlloc(i)' <=> HasAlloc(i)) /\ (HasFree(i)' <=> HasFree(i))
<1>1. AllocRing!RingStep(t)
  BY AllocIsARing
<1>2. AllocRing!SteadyView
  BY AllocIsARing DEF SteadyViews, AllocRing!SteadyView
<1>3. AllocPool' = AllocPool => AllocRing!RingSound'
  BY <1>1, <1>2, AllocRing!WorkIsSound, NAssumption, BoundAssumption, WordAssumption
     DEF Values, AllocRing!Values
<1> QED
  BY <1>3, AllocAlone

\* A call of dequeue begins without an index.
LEMMA FreeDequeueCalled ==
  ASSUME FreeRing!RingSound, AllocRing!RingSound, UNCHANGED allocVars,
         \A i \in Indexes : Held(i)' <=> Held(i), NEW t \in Threads, NEW b \in BOOLEAN,
         Free!CallDequeue(t, b)
  PROVE  /\ FreeRing!RingSound' /\ AllocRing!RingSound'
         /\ \A i \in Indexes : (HasFree(i)' <=> HasFree(i)) /\ (HasAlloc(i)' <=> HasAlloc(i))
<1>1. FreeRing!CallDequeue(t, b)
  BY FreeIsARing
<1>2. FreePool' = FreePool => FreeRing!RingSound'
  BY <1>1, FreeRing!DequeueCallIsSound, NAssumption, BoundAssumption, WordAssumption
     DEF Values, FreeRing!Values
<1> QED
  BY <1>2, FreeAlone

\* The same of the ring of allocated elements.
LEMMA AllocDequeueCalled ==
  ASSUME AllocRing!RingSound, FreeRing!RingSound, UNCHANGED freeVars,
         \A i \in Indexes : Held(i)' <=> Held(i), NEW t \in Threads, NEW b \in BOOLEAN,
         Alloc!CallDequeue(t, b)
  PROVE  /\ AllocRing!RingSound' /\ FreeRing!RingSound'
         /\ \A i \in Indexes : (HasAlloc(i)' <=> HasAlloc(i)) /\ (HasFree(i)' <=> HasFree(i))
<1>1. AllocRing!CallDequeue(t, b)
  BY AllocIsARing
<1>2. AllocPool' = AllocPool => AllocRing!RingSound'
  BY <1>1, AllocRing!DequeueCallIsSound, NAssumption, BoundAssumption, WordAssumption
     DEF Values, AllocRing!Values
<1> QED
  BY <1>2, AllocAlone

\* A call that returns no index.
LEMMA FreeReturned ==
  ASSUME FreeRing!RingSound, AllocRing!RingSound, UNCHANGED allocVars,
         \A i \in Indexes : Held(i)' <=> Held(i), NEW t \in Threads, Free!Return(t),
         fOp[t].pc = "D_done" => fOp[t].arg \notin Indexes
  PROVE  /\ FreeRing!RingSound' /\ AllocRing!RingSound'
         /\ \A i \in Indexes : (HasFree(i)' <=> HasFree(i)) /\ (HasAlloc(i)' <=> HasAlloc(i))
<1>1. FreeRing!Return(t)
  BY FreeIsARing
<1>2. FreePool' = FreePool => FreeRing!RingSound'
  BY <1>1, FreeRing!ReturnIsSound, NAssumption, BoundAssumption, WordAssumption DEF Values, Indexes, FreeRing!Values
<1> QED
  BY <1>2, FreeAlone

\* The same of the ring of allocated elements.
LEMMA AllocReturned ==
  ASSUME AllocRing!RingSound, FreeRing!RingSound, UNCHANGED freeVars,
         \A i \in Indexes : Held(i)' <=> Held(i), NEW t \in Threads, Alloc!Return(t),
         aOp[t].pc = "D_done" => aOp[t].arg \notin Indexes
  PROVE  /\ AllocRing!RingSound' /\ FreeRing!RingSound'
         /\ \A i \in Indexes : (HasAlloc(i)' <=> HasAlloc(i)) /\ (HasFree(i)' <=> HasFree(i))
<1>1. AllocRing!Return(t)
  BY AllocIsARing
<1>2. AllocPool' = AllocPool => AllocRing!RingSound'
  BY <1>1, AllocRing!ReturnIsSound, NAssumption, BoundAssumption, WordAssumption DEF Values, Indexes, AllocRing!Values
<1> QED
  BY <1>2, AllocAlone

\* A dequeue that returns an index: the thread holds it.
LEMMA FreeTaken ==
  ASSUME FreeRing!RingSound, AllocRing!RingSound, UNCHANGED allocVars, NEW t \in Threads, Free!Return(t),
         fOp[t].pc = "D_done", NEW v \in Indexes, fOp[t].arg = v,
         \A i \in Indexes : Held(i)' <=> Held(i) \/ i = v
  PROVE  /\ FreeRing!RingSound' /\ AllocRing!RingSound'
         /\ HasFree(v) /\ ~Held(v) /\ ~HasAlloc(v)
         /\ \A i \in Indexes : (HasFree(i)' <=> HasFree(i) /\ i # v) /\ (HasAlloc(i)' <=> HasAlloc(i))
<1>1. \A i \in Indexes : HasAlloc(i)' <=> HasAlloc(i)
  BY DEF HasAlloc, allocVars
<1>2. HasFree(v)
  BY DEF HasFree
<1>3. ~Held(v) /\ ~HasAlloc(v)
  BY <1>2, FreeOutside DEF FreePool
<1>4. FreePool' = FreePool \cup {v}
  BY <1>1 DEF FreePool
<1>5. FreeRing!RingSound'
  <2>1. FreeRing!Return(t)
    BY FreeIsARing
  <2>2. v \in FreeRing!Values
    BY DEF Indexes, FreeRing!Values
  <2> QED
    BY <1>4, <2>1, <2>2, FreeRing!ReturnIsSound, NAssumption, BoundAssumption, WordAssumption
     DEF Values, FreeRing!Values
<1>6. \A i \in Indexes : HasFree(i)' <=> HasFree(i) /\ i # v
  BY <1>4, <1>5, FreeOutside, FreeOutsideNext
<1>7. AllocPool' = AllocPool
  BY <1>2, <1>6 DEF AllocPool
<1>8. AllocRing!RingSound'
  BY <1>7, AllocRests
<1> QED
  BY <1>1, <1>2, <1>3, <1>5, <1>6, <1>8

\* The same of the ring of allocated elements.
LEMMA AllocTaken ==
  ASSUME AllocRing!RingSound, FreeRing!RingSound, UNCHANGED freeVars, NEW t \in Threads, Alloc!Return(t),
         aOp[t].pc = "D_done", NEW v \in Indexes, aOp[t].arg = v,
         \A i \in Indexes : Held(i)' <=> Held(i) \/ i = v
  PROVE  /\ AllocRing!RingSound' /\ FreeRing!RingSound'
         /\ HasAlloc(v) /\ ~Held(v) /\ ~HasFree(v)
         /\ \A i \in Indexes : (HasAlloc(i)' <=> HasAlloc(i) /\ i # v) /\ (HasFree(i)' <=> HasFree(i))
<1>1. \A i \in Indexes : HasFree(i)' <=> HasFree(i)
  BY DEF HasFree, freeVars
<1>2. HasAlloc(v)
  BY DEF HasAlloc
<1>3. ~Held(v) /\ ~HasFree(v)
  BY <1>2, AllocOutside DEF AllocPool
<1>4. AllocPool' = AllocPool \cup {v}
  BY <1>1 DEF AllocPool
<1>5. AllocRing!RingSound'
  <2>1. AllocRing!Return(t)
    BY AllocIsARing
  <2>2. v \in AllocRing!Values
    BY DEF Indexes, AllocRing!Values
  <2> QED
    BY <1>4, <2>1, <2>2, AllocRing!ReturnIsSound, NAssumption, BoundAssumption, WordAssumption
     DEF Values, AllocRing!Values
<1>6. \A i \in Indexes : HasAlloc(i)' <=> HasAlloc(i) /\ i # v
  BY <1>4, <1>5, AllocOutside, AllocOutsideNext
<1>7. FreePool' = FreePool
  BY <1>2, <1>6 DEF FreePool
<1>8. FreeRing!RingSound'
  BY <1>7, FreeRests
<1> QED
  BY <1>1, <1>2, <1>3, <1>5, <1>6, <1>8

\* An enqueue of an index: the thread gives it away.
LEMMA FreeGiven ==
  ASSUME FreeRing!RingSound, AllocRing!RingSound, UNCHANGED allocVars, NEW t \in Threads,
         NEW v \in Indexes, Free!CallEnqueue(t, v), Held(v),
         \A i \in Indexes : Held(i)' <=> Held(i) /\ i # v
  PROVE  /\ FreeRing!RingSound' /\ AllocRing!RingSound'
         /\ ~HasFree(v) /\ ~HasAlloc(v)
         /\ \A i \in Indexes : (HasFree(i)' <=> HasFree(i) \/ i = v) /\ (HasAlloc(i)' <=> HasAlloc(i))
<1>1. \A i \in Indexes : HasAlloc(i)' <=> HasAlloc(i)
  BY DEF HasAlloc, allocVars
<1>2. ~HasFree(v) /\ ~HasAlloc(v)
  BY FreeOutside, AllocOutside DEF FreePool, AllocPool
<1>3. v \in FreePool /\ FreePool' = FreePool \ {v}
  BY <1>1, <1>2 DEF FreePool
<1>4. FreeRing!RingSound'
  <2>1. FreeRing!CallEnqueue(t, v)
    BY FreeIsARing
  <2>2. v \in FreePool \cap FreeRing!Values
    BY <1>3 DEF Indexes, FreeRing!Values
  <2> QED
    BY <1>3, <2>1, <2>2, FreeRing!EnqueueCallIsSound, NAssumption, BoundAssumption, WordAssumption
     DEF Values, FreeRing!Values
<1>5. \A i \in Indexes : HasFree(i)' <=> HasFree(i) \/ i = v
  BY <1>3, <1>4, FreeOutside, FreeOutsideNext DEF FreePool
<1>6. AllocPool' = AllocPool
  BY <1>5 DEF AllocPool
<1>7. AllocRing!RingSound'
  BY <1>6, AllocRests
<1> QED
  BY <1>1, <1>2, <1>4, <1>5, <1>7

\* The same of the ring of allocated elements.
LEMMA AllocGiven ==
  ASSUME AllocRing!RingSound, FreeRing!RingSound, UNCHANGED freeVars, NEW t \in Threads,
         NEW v \in Indexes, Alloc!CallEnqueue(t, v), Held(v),
         \A i \in Indexes : Held(i)' <=> Held(i) /\ i # v
  PROVE  /\ AllocRing!RingSound' /\ FreeRing!RingSound'
         /\ ~HasAlloc(v) /\ ~HasFree(v)
         /\ \A i \in Indexes : (HasAlloc(i)' <=> HasAlloc(i) \/ i = v) /\ (HasFree(i)' <=> HasFree(i))
<1>1. \A i \in Indexes : HasFree(i)' <=> HasFree(i)
  BY DEF HasFree, freeVars
<1>2. ~HasAlloc(v) /\ ~HasFree(v)
  BY AllocOutside, FreeOutside DEF AllocPool, FreePool
<1>3. v \in AllocPool /\ AllocPool' = AllocPool \ {v}
  BY <1>1, <1>2 DEF AllocPool
<1>4. AllocRing!RingSound'
  <2>1. AllocRing!CallEnqueue(t, v)
    BY AllocIsARing
  <2>2. v \in AllocPool \cap AllocRing!Values
    BY <1>3 DEF Indexes, AllocRing!Values
  <2> QED
    BY <1>3, <2>1, <2>2, AllocRing!EnqueueCallIsSound, NAssumption, BoundAssumption, WordAssumption
     DEF Values, AllocRing!Values
<1>5. \A i \in Indexes : HasAlloc(i)' <=> HasAlloc(i) \/ i = v
  BY <1>3, <1>4, AllocOutside, AllocOutsideNext DEF AllocPool
<1>6. FreePool' = FreePool
  BY <1>5 DEF FreePool
<1>7. FreeRing!RingSound'
  BY <1>6, FreeRests
<1> QED
  BY <1>1, <1>2, <1>4, <1>5, <1>7

-----------------------------------------------------------------------------
(* What a step of one thread does not touch.                                 *)

OnlyOne(t) == \A u \in Threads \ {t} :
  call'[u] = call[u] /\ fOp'[u] = fOp[u] /\ aOp'[u] = aOp[u]

\* The functions of threads have a value for every thread.
LEMMA Frames ==
  ASSUME CallsInv
  PROVE  /\ \A t \in Threads : \A f : Now(t, f) =>
              call'[t] = f /\ \A u \in Threads \ {t} : call'[u] = call[u]
         /\ \A t \in Threads : \A f : Free!Become(t, f) =>
              fOp'[t] = f /\ \A u \in Threads \ {t} : fOp'[u] = fOp[u]
         /\ \A t \in Threads : \A f : Alloc!Become(t, f) =>
              aOp'[t] = f /\ \A u \in Threads \ {t} : aOp'[u] = aOp[u]
<1>1. /\ call \in [Threads -> CallType] /\ fOp \in [Threads -> FreeRing!Good]
      /\ aOp \in [Threads -> AllocRing!Good]
  BY DEF CallsInv, Typed, RingTypes, FreeRing!RingInv, AllocRing!RingInv
<1> QED
  BY <1>1 DEF Now, Free!Become, Alloc!Become

\* A thread works in one ring at a time, in its own call.
LEMMA FreeTurn ==
  ASSUME CallsInv, NEW t \in Threads, Free!RingStep(t)
  PROVE  /\ \A u \in Threads \ {t} : fOp'[u] = fOp[u]
         /\ \/ fOp[t].pc \in Free!EnqueuePcs /\ fOp'[t].pc \in Free!EnqueuePcs \cup {"E_done"}
            \/ fOp[t].pc \in Free!DequeuePcs /\ fOp'[t].pc \in Free!DequeuePcs \cup {"D_done"}
<1>1. FreeRing!RingStep(t) /\ FreeRing!RingInv
  BY FreeIsARing DEF CallsInv, RingTypes
<1>2. \A u \in Threads \ {t} : fOp'[u] = fOp[u]
  BY <1>1, FreeRing!OthersWait, NAssumption, BoundAssumption, WordAssumption
     DEF Values, FreeRing!Values
<1>3. \/ fOp[t].pc \in FreeRing!EnqueuePcs /\ fOp'[t].pc \in FreeRing!EnqueuePcs \cup {"E_done"}
      \/ fOp[t].pc \in FreeRing!DequeuePcs /\ fOp'[t].pc \in FreeRing!DequeuePcs \cup {"D_done"}
  BY <1>1, FreeRing!CallGoesOn, NAssumption, BoundAssumption, WordAssumption
     DEF Values, FreeRing!Values
<1> QED
  BY <1>2, <1>3, FreeIsARing

\* The same of the ring of allocated elements.
LEMMA AllocTurn ==
  ASSUME CallsInv, NEW t \in Threads, Alloc!RingStep(t)
  PROVE  /\ \A u \in Threads \ {t} : aOp'[u] = aOp[u]
         /\ \/ aOp[t].pc \in Alloc!EnqueuePcs /\ aOp'[t].pc \in Alloc!EnqueuePcs \cup {"E_done"}
            \/ aOp[t].pc \in Alloc!DequeuePcs /\ aOp'[t].pc \in Alloc!DequeuePcs \cup {"D_done"}
<1>1. AllocRing!RingStep(t) /\ AllocRing!RingInv
  BY AllocIsARing DEF CallsInv, RingTypes
<1>2. \A u \in Threads \ {t} : aOp'[u] = aOp[u]
  BY <1>1, AllocRing!OthersWait, NAssumption, BoundAssumption, WordAssumption
     DEF Values, AllocRing!Values
<1>3. \/ aOp[t].pc \in AllocRing!EnqueuePcs /\ aOp'[t].pc \in AllocRing!EnqueuePcs \cup {"E_done"}
      \/ aOp[t].pc \in AllocRing!DequeuePcs /\ aOp'[t].pc \in AllocRing!DequeuePcs \cup {"D_done"}
  BY <1>1, AllocRing!CallGoesOn, NAssumption, BoundAssumption, WordAssumption
     DEF Values, AllocRing!Values
<1> QED
  BY <1>2, <1>3, AllocIsARing

\* Every step is a step of one thread's call.
LEMMA Turn ==
  ASSUME CallsInv, NEW t \in Threads, CallStep(t)
  PROVE  OnlyOne(t)
<1>1. CASE RingWork(t)
  BY <1>1, FreeTurn, AllocTurn DEF RingWork, OnlyOne, freeVars, allocVars
<1>2. CASE ~RingWork(t)
  <2>1. \E f : Now(t, f)
    BY <1>2 DEF CallStep, Enqueue, EnqueueRefused, EnqueueGotSlot, EnqueueSet, EnqueueReturn,
       Dequeue, DequeueNothing, DequeueGotSlot, DequeueMove, DequeueReturn, ClearBegin,
       ClearDequeue, ClearEnd
  <2>2. (\E f : Free!Become(t, f)) \/ fOp' = fOp
    BY <1>2 DEF CallStep, Enqueue, EnqueueRefused, EnqueueGotSlot, EnqueueSet, EnqueueReturn,
       Dequeue, DequeueNothing, DequeueGotSlot, DequeueMove, DequeueReturn, ClearBegin,
       ClearDequeue, ClearEnd, freeVars, Free!CallEnqueue, Free!CallDequeue, Free!Return,
       Free!Full
  <2>3. (\E f : Alloc!Become(t, f)) \/ aOp' = aOp
    BY <1>2 DEF CallStep, Enqueue, EnqueueRefused, EnqueueGotSlot, EnqueueSet, EnqueueReturn,
       Dequeue, DequeueNothing, DequeueGotSlot, DequeueMove, DequeueReturn, ClearBegin,
       ClearDequeue, ClearEnd, allocVars, Alloc!CallEnqueue, Alloc!CallDequeue, Alloc!Return,
       Alloc!Clear
  <2> QED
    BY <2>1, <2>2, <2>3, Frames DEF OnlyOne
<1> QED
  BY <1>1, <1>2

\* The other threads still agree with their rings.
LEMMA AgreesKept ==
  ASSUME CallsInv, NEW t \in Threads, OnlyOne(t), Agrees(t)'
  PROVE  \A u \in Threads : Agrees(u)'
BY DEF CallsInv, OnlyOne, Agrees

\* A thread that works on no slot before and after leaves all slots where they are,
LEMMA HeldRests ==
  ASSUME NEW t \in Threads, OnlyOne(t), call[t].pc \notin {"e_set", "d_move"},
         call'[t].pc \notin {"e_set", "d_move"}, HeldOnce
  PROVE  (\A i \in Indexes : Held(i)' <=> Held(i)) /\ HeldOnce'
<1>1. \A u \in Threads : \A i : Holds(u, i)' <=> Holds(u, i)
  BY DEF OnlyOne, Holds
<1> QED
  BY <1>1 DEF Held, HeldOnce

\* one that begins to work on a slot holds it in addition,
LEMMA HeldTaken ==
  ASSUME NEW t \in Threads, OnlyOne(t), call[t].pc \notin {"e_set", "d_move"},
         call'[t].pc \in {"e_set", "d_move"}, NEW v, call'[t].index = v, HeldOnce
  PROVE  /\ \A i \in Indexes : Held(i)' <=> Held(i) \/ i = v
         /\ ~Held(v) => HeldOnce'
<1>1. \A u \in Threads : \A i : Holds(u, i)' <=> Holds(u, i) \/ (u = t /\ i = v)
  BY DEF OnlyOne, Holds
<1> QED
  BY <1>1 DEF Held, HeldOnce

\* and one that ends its work holds that slot no more.
LEMMA HeldGiven ==
  ASSUME NEW t \in Threads, OnlyOne(t), call[t].pc \in {"e_set", "d_move"},
         call'[t].pc \notin {"e_set", "d_move"}, NEW v \in Indexes, call[t].index = v, HeldOnce
  PROVE  /\ Held(v) /\ \A i \in Indexes : Held(i)' <=> Held(i) /\ i # v
         /\ HeldOnce'
<1>1. Holds(t, v) /\ \A u \in Threads : \A i : Holds(u, i)' <=> Holds(u, i) /\ u # t
  BY DEF OnlyOne, Holds
<1>2. \A i : Holds(t, i) => i = v
  BY DEF Holds
<1> QED
  BY <1>1, <1>2 DEF Held, HeldOnce

\* Slots are filled as they were if their values and users are the same,
LEMMA SlotsRest ==
  ASSUME SlotsInv, storage' = storage, \A i \in Indexes : Filled(i)' <=> Filled(i)
  PROVE  SlotsInv'
BY DEF SlotsInv

\* elements too if no call takes one up or lets one go,
LEMMA ElementsRest ==
  ASSUME ElementsInv, storage' = storage, fate' = fate,
         \A u \in Threads, e \in Elements : Gives(u, e)' <=> Gives(u, e)
  PROVE  ElementsInv'
BY DEF ElementsInv

\* and clear() is not running,
LEMMA ClearRests ==
  ASSUME CallsInv, NEW t \in Threads, OnlyOne(t), ~call'[t].clear, call[t] # NoCall \/ ~Clearing
  PROVE  ClearInv'
BY DEF CallsInv, OnlyOne, ClearInv, Clearing

\* or goes on: the other threads stay away, and what it has to do stays bounded.
LEMMA ClearGoesOn ==
  ASSUME CallsInv, NEW t \in Threads, OnlyOne(t), call[t].clear, call'[t].clear,
         call'[t].pc # "d_alloc" => aTail' <= aHead' + call'[t].left,
         call'[t].pc = "d_alloc" =>
           /\ aOp'[t].pc \notin {"D_size_tail", "D_size_head"}
           /\ aOp'[t].pc = "D_ticket" => aTail' <= aHead' + call'[t].left + 1
           /\ aOp'[t].pc # "D_ticket" => aTail' <= aHead' + call'[t].left
  PROVE  ClearInv'
<1>1. \A u \in Threads \ {t} : call'[u] = NoCall
  BY DEF CallsInv, OnlyOne, ClearInv
<1>2. NoCall.clear = FALSE
  BY DEF NoCall
<1> QED
  BY <1>1, <1>2 DEF ClearInv

-----------------------------------------------------------------------------
(* The records of the calls.                                                 *)

\* The fields of the calls that are no record of the call before.
LEMMA NewCalls ==
  /\ NoCall \in CallType /\ NoCall.pc = "idle" /\ NoCall.clear = FALSE
  /\ \A e \in Elements : LET f == [NoCall EXCEPT !.pc = "e_free", !.elem = e] IN
       f \in CallType /\ f.pc = "e_free" /\ f.elem = e /\ f.clear = FALSE
  /\ LET f == [NoCall EXCEPT !.pc = "d_alloc"] IN
       f \in CallType /\ f.pc = "d_alloc" /\ f.clear = FALSE
BY DEF NoCall, CallType, CallPcs

\* A dequeue in clear() goes back to its loop, another one ends.
LEMMA AfterCalls ==
  ASSUME Typed, NEW t \in Threads
  PROVE  /\ AfterDequeue(t) \in CallType /\ AfterDequeue(t).pc \in {"idle", "c_loop"}
         /\ AfterDequeue(t).clear = call[t].clear
         /\ call[t].clear => AfterDequeue(t).pc = "c_loop" /\ AfterDequeue(t).left = call[t].left
         /\ ~call[t].clear => AfterDequeue(t) = NoCall
<1>1. call[t] \in CallType
  BY DEF Typed
<1> QED
  BY <1>1 DEF AfterDequeue, NoCall, CallType, CallPcs

\* The frames a ring call starts and ends with.
LEMMA RingFrames ==
  /\ \A v : Free!Frame("E_ticket", v).pc = "E_ticket" /\ Alloc!Frame("E_ticket", v).pc = "E_ticket"
  /\ \A pc : Free!Frame(pc, Invalid).pc = pc /\ Alloc!Frame(pc, Invalid).pc = pc
  /\ Free!Idle.pc = "idle" /\ Alloc!Idle.pc = "idle"
  /\ "E_ticket" \in Free!EnqueuePcs /\ "E_ticket" \in Alloc!EnqueuePcs
  /\ {"D_size_tail", "D_ticket"} \subseteq Free!DequeuePcs \cap Alloc!DequeuePcs
BY DEF Free!Frame, Alloc!Frame, Free!Idle, Alloc!Idle, Free!EnqueuePcs, Alloc!EnqueuePcs,
   Free!DequeuePcs, Alloc!DequeuePcs

\* A step that leaves the call of every thread and the other parts typed.
LEMMA Retyped ==
  ASSUME CallsInv, NEW t \in Threads, NEW f \in CallType, Now(t, f)
  PROVE  call' \in [Threads -> CallType]
BY DEF CallsInv, Typed, Now

-----------------------------------------------------------------------------
(* The calls, with torn views or without: each waits for its ring call, and  *)
(* clear() has enough dequeues left.                                         *)

\* While clear() runs a dequeue its thread has more elements to go than the ring
\* can hold once the call has drawn its ticket.
LEMMA ClearBounds ==
  ASSUME CallsInv, NEW t \in Threads, call[t].clear
  PROVE  /\ call[t].pc # "d_alloc" => aTail <= aHead + call[t].left
         /\ call[t].pc = "d_alloc" /\ aOp[t].pc # "D_ticket" => aTail <= aHead + call[t].left
BY DEF CallsInv, ClearInv

\* The counters are numbers.
LEMMA Counters == CallsInv => aHead \in Nat /\ aTail \in Nat /\ size \in Nat /\ aTail <= aHead + size
BY DEF CallsInv, RingTypes, AllocRing!RingInv, size

\* A thread outside the two rings' calls is idle in them, and clear() is alone.
LEMMA IdleThread ==
  ASSUME CallsInv, NEW t \in Threads, call[t].pc \in {"idle", "c_loop"}
  PROVE  fOp[t] = Free!Idle /\ aOp[t] = Alloc!Idle
BY DEF CallsInv, Agrees

\* While clear() runs every other thread is idle, in the rings too.
LEMMA Alone ==
  ASSUME CallsInv, NEW t \in Threads, call[t].clear
  PROVE  \A u \in Threads \ {t} :
           call[u] = NoCall /\ call[u].pc = "idle" /\ fOp[u] = Free!Idle /\ aOp[u] = Alloc!Idle
BY NewCalls, IdleThread DEF CallsInv, ClearInv

\* When the loop of clear() ends the counters have met and every thread is idle.
LEMMA Finished ==
  ASSUME CallsInv, NEW t \in Threads, call[t].pc = "c_loop", call[t].left = 0
  PROVE  /\ call[t].clear /\ aTail <= aHead
         /\ \A u \in Threads : fOp[u] = Free!Idle /\ aOp[u] = Alloc!Idle
                               /\ call[u].pc \in {"idle", "c_loop"}
<1>1. call[t].clear
  BY DEF CallsInv, Agrees
<1>2. aTail <= aHead
  BY <1>1, ClearBounds, Counters
<1>3. \A u \in Threads : fOp[u] = Free!Idle /\ aOp[u] = Alloc!Idle
                         /\ call[u].pc \in {"idle", "c_loop"}
  BY <1>1, Alone, IdleThread
<1> QED
  BY <1>1, <1>2, <1>3

\* A call that begins or ends keeps the types of its ring,
LEMMA FreeCallTyped ==
  ASSUME FreeRing!RingInv, NEW t \in Threads,
         \/ UNCHANGED freeVars
         \/ \E v \in Indexes : Free!CallEnqueue(t, v)
         \/ \E b \in BOOLEAN : Free!CallDequeue(t, b)
         \/ Free!Return(t)
  PROVE  FreeRing!RingInv'
<1>1. CASE UNCHANGED freeVars
  BY <1>1 DEF freeVars, FreeRing!RingInv
<1>2. CASE ~UNCHANGED freeVars
  <2>1. \/ \E v \in FreeRing!Values : FreeRing!CallEnqueue(t, v)
        \/ \E b \in BOOLEAN : FreeRing!CallDequeue(t, b)
        \/ FreeRing!Return(t)
    BY <1>2, FreeIsARing DEF Indexes, FreeRing!Values
  <2> QED
    BY <2>1, FreeRing!CallKept, NAssumption, BoundAssumption, WordAssumption
       DEF Values, FreeRing!Values
<1> QED
  BY <1>1, <1>2

\* in the ring of allocated elements as in the other.
LEMMA AllocCallTyped ==
  ASSUME AllocRing!RingInv, AllocRing!RaisesToHead, NEW t \in Threads,
         \/ UNCHANGED allocVars
         \/ \E v \in Indexes : Alloc!CallEnqueue(t, v)
         \/ \E b \in BOOLEAN : Alloc!CallDequeue(t, b)
         \/ Alloc!Return(t)
  PROVE  AllocRing!RingInv' /\ AllocRing!RaisesToHead'
<1>1. CASE UNCHANGED allocVars
  BY <1>1 DEF allocVars, AllocRing!RingInv, AllocRing!RaisesToHead
<1>2. CASE ~UNCHANGED allocVars
  <2>1. \/ \E v \in AllocRing!Values : AllocRing!CallEnqueue(t, v)
        \/ \E b \in BOOLEAN : AllocRing!CallDequeue(t, b)
        \/ AllocRing!Return(t)
    BY <1>2, AllocIsARing DEF Indexes, AllocRing!Values
  <2>2. AllocRing!RingInv'
    BY <2>1, AllocRing!CallKept, NAssumption, BoundAssumption, WordAssumption
       DEF Values, AllocRing!Values
  <2>3. \E f : /\ Alloc!Become(t, f) /\ f.pc \notin {"F_again", "F_cas"}
              /\ UNCHANGED <<aHead, aTail, aCell>>
    <3>1. ASSUME NEW v \in Indexes, Alloc!CallEnqueue(t, v)
          PROVE  /\ Alloc!Become(t, Alloc!Frame("E_ticket", v))
                 /\ UNCHANGED <<aHead, aTail, aCell>>
      BY <3>1 DEF Alloc!CallEnqueue
    <3>2. ASSUME NEW b \in BOOLEAN, Alloc!CallDequeue(t, b)
          PROVE  /\ \E pc \in {"D_size_tail", "D_ticket"} :
                      Alloc!Become(t, Alloc!Frame(pc, Invalid))
                 /\ UNCHANGED <<aHead, aTail, aCell>>
      BY <3>2 DEF Alloc!CallDequeue
    <3>3. ASSUME Alloc!Return(t)
          PROVE  Alloc!Become(t, Alloc!Idle) /\ UNCHANGED <<aHead, aTail, aCell>>
      BY <3>3 DEF Alloc!Return
    <3> QED
      BY <1>2, <3>1, <3>2, <3>3, RingFrames
  <2>4. PICK f : /\ Alloc!Become(t, f) /\ f.pc \notin {"F_again", "F_cas"}
                 /\ UNCHANGED <<aHead, aTail, aCell>>
    BY <2>3
  <2>5. aOp'[t] = f /\ \A u \in Threads \ {t} : aOp'[u] = aOp[u]
    BY <2>4 DEF Alloc!Become, AllocRing!RingInv
  <2> QED
    BY <2>2, <2>4, <2>5 DEF AllocRing!RaisesToHead
<1> QED
  BY <1>1, <1>2

\* The frame of an idle thread and the cells of a new ring are of their types.
LEMMA IdleIsGood == Free!Idle \in FreeRing!Good /\ Alloc!Idle \in AllocRing!Good
<1>1. FreeRing!Frame("idle", Invalid) \in FreeRing!Good
  BY FreeRing!Fresh, NAssumption, BoundAssumption, WordAssumption DEF Values, FreeRing!Values,
     FreeRing!Pcs, FreeRing!EnqueuePcs, FreeRing!DequeuePcs
<1>2. AllocRing!Frame("idle", Invalid) \in AllocRing!Good
  BY AllocRing!Fresh, NAssumption, BoundAssumption, WordAssumption DEF Values, AllocRing!Values,
     AllocRing!Pcs, AllocRing!EnqueuePcs, AllocRing!DequeuePcs
<1> QED
  BY <1>1, <1>2 DEF Free!Idle, Alloc!Idle, Free!Frame, Alloc!Frame, FreeRing!Frame,
     AllocRing!Frame

\* The cells of a full and of an empty ring.
LEMMA NewCells == /\ Free!FullCells \in [0..(N - 1) -> FreeRing!Cells]
                  /\ Alloc!ClearedCells \in [0..(N - 1) -> AllocRing!Cells]
BY NAssumption DEF Free!FullCells, Alloc!ClearedCells, FreeRing!Cells, AllocRing!Cells,
   FreeRing!Words, AllocRing!Words, FreeRing!Values, AllocRing!Values

\* The two rings keep their types: a ring call begins with an index of a slot,
\* and clear() resets them when no call is in them.
LEMMA RingTypesKept ==
  ASSUME CallsInv, NEW t \in Threads, CallStep(t)
  PROVE  RingTypes'
<1>0. /\ FreeRing!RingInv /\ AllocRing!RingInv /\ AllocRing!RaisesToHead
      /\ Free!Idle \in FreeRing!Good /\ Alloc!Idle \in AllocRing!Good
  <2>1. FreeRing!RingInv /\ AllocRing!RingInv /\ AllocRing!RaisesToHead
    BY DEF CallsInv, RingTypes
  <2>2. Free!Idle \in FreeRing!Good
    BY IdleIsGood
  <2> QED
    BY <2>1, <2>2, IdleIsGood
<1>1. CASE ClearEnd(t)
  <2>1. /\ Alloc!Clear /\ Free!Full
        /\ \A u \in Threads : fOp[u] = Free!Idle /\ aOp[u] = Alloc!Idle
    BY <1>1, Finished DEF ClearEnd
  <2>2. fCell' = Free!FullCells /\ aCell' = Alloc!ClearedCells /\ fOp' = fOp /\ aOp' = aOp
        /\ fHead' \in Nat /\ fTail' \in Nat /\ aHead' \in Nat /\ aTail' \in Nat
    BY <2>1, NAssumption DEF Alloc!Clear, Free!Full
  <2> QED
    BY <1>0, <2>1, <2>2, NewCells, RingFrames
       DEF RingTypes, FreeRing!RingInv, AllocRing!RingInv, AllocRing!RaisesToHead
<1>2. CASE RingWork(t)
  <2>1. CASE Free!RingStep(t) /\ UNCHANGED allocVars
    <3>1. FreeRing!RingInv'
      BY <1>0, <2>1, FreeIsARing, FreeRing!WorkOutcome, NAssumption, BoundAssumption,
         WordAssumption DEF Values, FreeRing!Values
    <3> QED
      BY <1>0, <2>1, <3>1 DEF RingTypes, allocVars, AllocRing!RingInv, AllocRing!RaisesToHead
  <2>2. CASE Alloc!RingStep(t) /\ UNCHANGED freeVars
    <3>1. AllocRing!RingInv' /\ AllocRing!RaisesToHead'
      BY <1>0, <2>2, AllocIsARing, AllocRing!WorkOutcome, AllocRing!RaisesKept, NAssumption,
         BoundAssumption, WordAssumption DEF Values, AllocRing!Values
    <3> QED
      BY <1>0, <2>2, <3>1 DEF RingTypes, freeVars, FreeRing!RingInv
  <2> QED
    BY <1>2, <2>1, <2>2 DEF RingWork
<1>3. CASE ~ClearEnd(t) /\ ~RingWork(t)
  <2>1. \/ UNCHANGED freeVars
        \/ \E v \in Indexes : Free!CallEnqueue(t, v)
        \/ \E b \in BOOLEAN : Free!CallDequeue(t, b)
        \/ Free!Return(t)
    BY <1>3 DEF CallStep, Enqueue, EnqueueRefused, EnqueueGotSlot, EnqueueSet, EnqueueReturn,
       Dequeue, DequeueNothing, DequeueGotSlot, DequeueMove, DequeueReturn, ClearBegin,
       ClearDequeue, freeVars, CallsInv, Agrees
  <2>2. \/ UNCHANGED allocVars
        \/ \E v \in Indexes : Alloc!CallEnqueue(t, v)
        \/ \E b \in BOOLEAN : Alloc!CallDequeue(t, b)
        \/ Alloc!Return(t)
    BY <1>3 DEF CallStep, Enqueue, EnqueueRefused, EnqueueGotSlot, EnqueueSet, EnqueueReturn,
       Dequeue, DequeueNothing, DequeueGotSlot, DequeueMove, DequeueReturn, ClearBegin,
       ClearDequeue, allocVars, CallsInv, Agrees
  <2>3. FreeRing!RingInv'
    BY <1>0, <2>1, FreeCallTyped
  <2>4. AllocRing!RingInv' /\ AllocRing!RaisesToHead'
    BY <1>0, <2>2, AllocCallTyped
  <2> QED
    BY <2>3, <2>4 DEF RingTypes
<1> QED
  BY <1>1, <1>2, <1>3

\* Who is in the loop of a dequeue works for a call that dequeues.
LEMMA Dequeuer ==
  ASSUME CallsInv, NEW t \in Threads, Alloc!RingStep(t), call[t].clear
  PROVE  call[t].pc = "d_alloc" /\ AllocRing!DequeueStep(t) /\ aOp[t].pc \in Alloc!DequeuePcs
<1>1. \/ aOp[t].pc \in Alloc!EnqueuePcs
      \/ aOp[t].pc \in Alloc!DequeuePcs
  BY AllocTurn
<1>2. call[t].pc \in {"e_alloc", "d_alloc"}
  BY <1>1, RingFrames DEF CallsInv, Agrees, Alloc!EnqueuePcs, Alloc!DequeuePcs
<1>3. call[t].pc = "d_alloc"
  BY <1>2 DEF CallsInv, Agrees
<1>4. aOp[t].pc \in Alloc!DequeuePcs
  BY <1>1, <1>3 DEF CallsInv, Agrees, Alloc!EnqueuePcs, Alloc!DequeuePcs
<1>5. ~Alloc!EnqueueStep(t)
  BY <1>4 DEF Alloc!EnqueueStep, Alloc!DequeuePcs, Alloc!EnqTicket, Alloc!EnqIndex,
     Alloc!EnqValue, Alloc!EnqHead, Alloc!EnqReserve, Alloc!EnqAdvance, Alloc!EnqCommit,
     Alloc!EnqUndo
<1> QED
  BY <1>3, <1>4, <1>5, AllocIsARing DEF Alloc!RingStep

\* A dequeue of clear() brings head and tail of the allocated list together.
LEMMA ClearApproaches ==
  ASSUME CallsInv, NEW t \in Threads, Alloc!RingStep(t), UNCHANGED call
  PROVE  ClearInv'
<1> SUFFICES ASSUME NEW u \in Threads, call[u].clear
             PROVE  /\ \A w \in Threads \ {u} : call[w] = NoCall
                    /\ call[u].pc # "d_alloc" => aTail' <= aHead' + call[u].left
                    /\ call[u].pc = "d_alloc" =>
                         /\ aOp'[u].pc \notin {"D_size_tail", "D_size_head"}
                         /\ aOp'[u].pc = "D_ticket" => aTail' <= aHead' + call[u].left + 1
                         /\ aOp'[u].pc # "D_ticket" => aTail' <= aHead' + call[u].left
  BY DEF ClearInv
<1>1. \/ aOp[t].pc \in Alloc!EnqueuePcs
      \/ aOp[t].pc \in Alloc!DequeuePcs
  BY AllocTurn
<1>2. u = t
  BY <1>1, Alone, RingFrames DEF Alloc!EnqueuePcs, Alloc!DequeuePcs
<1>3. call[t].pc = "d_alloc" /\ AllocRing!DequeueStep(t)
  BY <1>2, Dequeuer
<1>4. /\ AllocRing!RingInv /\ AllocRing!RaisesToHead /\ AllocRing!RingStep(t)
      /\ aHead \in Nat /\ aTail \in Nat /\ call[t].left \in Nat
  BY AllocIsARing DEF CallsInv, RingTypes, AllocRing!RingInv, Typed, CallType
<1>5. aHead' \in Nat /\ aTail' \in Nat
  <2>1. AllocRing!RingInv'
    BY <1>4, AllocRing!WorkOutcome, NAssumption, BoundAssumption, WordAssumption
       DEF Values, AllocRing!Values
  <2> QED
    BY <2>1 DEF AllocRing!RingInv
<1>6. aOp'[t].pc \in {"D_size_tail", "D_size_head"} => aOp[t].pc \in {"D_size_tail", "D_size_head"}
  BY <1>4, AllocRing!RaisesKept, NAssumption, BoundAssumption, WordAssumption
     DEF Values, AllocRing!Values
<1>7. \/ aOp[t].pc = "D_ticket" /\ aHead' = aHead + 1 /\ aTail' = aTail
      \/ aOp[t].pc # "D_ticket" /\ aHead' = aHead /\ (aTail' = aTail \/ aTail' <= aHead)
  BY <1>3, <1>4, AllocRing!Approaches, NAssumption, BoundAssumption, WordAssumption
     DEF Values, AllocRing!Values
<1>8. /\ aOp[t].pc \notin {"D_size_tail", "D_size_head"}
      /\ aOp[t].pc = "D_ticket" => aTail <= aHead + call[t].left + 1
      /\ aOp[t].pc # "D_ticket" => aTail <= aHead + call[t].left
      /\ \A w \in Threads \ {t} : call[w] = NoCall
  BY <1>2, <1>3 DEF CallsInv, ClearInv
<1>9. aTail' <= aHead' + call[t].left
  BY <1>4, <1>5, <1>7, <1>8
<1>10. aTail' <= aHead' + call[t].left + 1
  BY <1>4, <1>5, <1>9
<1> QED
  BY <1>2, <1>3, <1>6, <1>8, <1>9, <1>10

\* The call has an element and begins a dequeue of the free list.
LEMMA EnqueueCalled ==
  ASSUME CallsInv, NEW t \in Threads, NEW e \in Elements, Enqueue(t, e)
  PROVE  CallsInv'
<1> DEFINE f == [NoCall EXCEPT !.pc = "e_free", !.elem = e]
           g == Free!Frame("D_size_tail", Invalid)
<1>1. OnlyOne(t)
  BY Turn DEF CallStep
<1>2. /\ call[t] = NoCall /\ ~Clearing /\ fate[e] = "unsent" /\ Now(t, f)
      /\ Free!CallDequeue(t, TRUE) /\ Free!Become(t, g) /\ storage' = storage
      /\ UNCHANGED allocVars /\ fate' = [fate EXCEPT ![e] = "sent"]
  BY DEF Enqueue, Free!CallDequeue
<1>3. f \in CallType /\ f.pc = "e_free" /\ f.elem = e /\ f.clear = FALSE /\ call[t].pc = "idle"
  BY <1>2, NewCalls
<1>4. g.pc = "D_size_tail"
  BY RingFrames
<1> HIDE DEF f, g
<1>5. call'[t] = f /\ fOp'[t] = g /\ aOp'[t] = aOp[t]
  BY <1>2, Frames DEF allocVars
<1>6. Typed'
  BY <1>2, <1>3, Retyped DEF CallsInv, Typed
<1>7. \A u \in Threads : Agrees(u)'
  <2>1. Agrees(t)'
    BY <1>3, <1>4, <1>5, RingFrames DEF CallsInv, Agrees
  <2> QED
    BY <1>1, <2>1, AgreesKept
<1>8. ClearInv'
  BY <1>1, <1>2, <1>3, <1>5, ClearRests
<1> QED
  BY <1>6, <1>7, <1>8, RingTypesKept DEF CallsInv, CallStep

\* The call ends without an index.
LEMMA EnqueueRefusedCalled ==
  ASSUME CallsInv, NEW t \in Threads, EnqueueRefused(t)
  PROVE  CallsInv'
<1> DEFINE e == call[t].elem
           r == IF fOp[t].arg = Overflow THEN "overflow" ELSE "nullopt"
<1>1. OnlyOne(t)
  BY Turn DEF CallStep
<1>2. /\ call[t].pc = "e_free" /\ fOp[t].pc = "D_done" /\ fOp[t].arg \notin Indexes
      /\ Free!Return(t) /\ Now(t, NoCall) /\ Free!Become(t, Free!Idle) /\ storage' = storage
      /\ UNCHANGED allocVars /\ fate' = [fate EXCEPT ![e] = r]
  BY DEF EnqueueRefused, Free!Return
<1>3. e \in Elements /\ r \in {"overflow", "nullopt"} /\ call[t] # NoCall
  BY <1>2, NewCalls DEF CallsInv, Agrees
<1> HIDE DEF r
<1>4. call'[t] = NoCall /\ fOp'[t] = Free!Idle /\ aOp'[t] = aOp[t]
  BY <1>2, Frames DEF allocVars
<1>5. call'[t].pc = "idle" /\ ~call'[t].clear
  BY <1>4, NewCalls
<1>6. Typed'
  BY <1>2, <1>3, NewCalls, Retyped DEF CallsInv, Typed
<1>7. \A u \in Threads : Agrees(u)'
  <2>1. Agrees(t)'
    BY <1>2, <1>4, NewCalls DEF CallsInv, Agrees
  <2> QED
    BY <1>1, <2>1, AgreesKept
<1>8. ClearInv'
  BY <1>1, <1>3, <1>5, ClearRests
<1> QED
  BY <1>6, <1>7, <1>8, RingTypesKept DEF CallsInv, CallStep

\* The call goes on with the index the free list returned.
LEMMA EnqueueGotSlotCalled ==
  ASSUME CallsInv, NEW t \in Threads, EnqueueGotSlot(t)
  PROVE  CallsInv'
<1> DEFINE v == fOp[t].arg
           f == [call[t] EXCEPT !.pc = "e_set", !.index = v]
<1>0. call[t] \in CallType
  BY DEF CallsInv, Typed
<1>1. OnlyOne(t)
  BY Turn DEF CallStep
<1>2. /\ call[t].pc = "e_free" /\ fOp[t].pc = "D_done" /\ v \in Indexes
      /\ Free!Return(t) /\ Now(t, f) /\ Free!Become(t, Free!Idle) /\ storage' = storage
      /\ UNCHANGED allocVars /\ fate' = fate
  BY DEF EnqueueGotSlot, Free!Return
<1>3. /\ f \in CallType /\ f.pc = "e_set" /\ f.index = v /\ f.elem = call[t].elem
      /\ f.clear = call[t].clear
  BY <1>0, <1>2 DEF CallType, CallPcs
<1>4. ~call[t].clear /\ call[t].elem \in Elements /\ call[t] # NoCall
  BY <1>2, NewCalls DEF CallsInv, Agrees
<1> HIDE DEF f
<1>5. call'[t] = f /\ fOp'[t] = Free!Idle /\ aOp'[t] = aOp[t]
  BY <1>2, Frames DEF allocVars
<1>6. Typed'
  BY <1>2, <1>3, Retyped DEF CallsInv, Typed
<1>7. \A u \in Threads : Agrees(u)'
  <2>1. Agrees(t)'
    BY <1>2, <1>3, <1>4, <1>5 DEF CallsInv, Agrees
  <2> QED
    BY <1>1, <2>1, AgreesKept
<1>8. ClearInv'
  BY <1>1, <1>3, <1>4, <1>5, ClearRests
<1> QED
  BY <1>6, <1>7, <1>8, RingTypesKept DEF CallsInv, CallStep

\* It begins to enqueue that index in the allocated list,
LEMMA EnqueueSetCalled ==
  ASSUME CallsInv, NEW t \in Threads, EnqueueSet(t)
  PROVE  CallsInv'
<1> DEFINE v == call[t].index
           e == call[t].elem
           f == [call[t] EXCEPT !.pc = "e_alloc"]
           g == Alloc!Frame("E_ticket", v)
<1>0. call[t] \in CallType
  BY DEF CallsInv, Typed
<1>1. OnlyOne(t)
  BY Turn DEF CallStep
<1>2. /\ call[t].pc = "e_set" /\ storage' = [storage EXCEPT ![v] = e]
      /\ Alloc!CallEnqueue(t, v) /\ Alloc!Become(t, g) /\ Now(t, f)
      /\ UNCHANGED freeVars /\ fate' = fate
  BY DEF EnqueueSet, Alloc!CallEnqueue
<1>3. f \in CallType /\ f.pc = "e_alloc" /\ f.clear = call[t].clear
  BY <1>0, <1>2 DEF CallType, CallPcs
<1>4. ~call[t].clear /\ e \in Elements /\ v \in Indexes /\ call[t] # NoCall
  BY <1>2, NewCalls DEF CallsInv, Agrees
<1>5. g.pc = "E_ticket"
  BY RingFrames
<1> HIDE DEF f, g, v, e
<1>6. call'[t] = f /\ aOp'[t] = g /\ fOp'[t] = fOp[t]
  BY <1>2, Frames DEF freeVars
<1>7. Typed'
  BY <1>2, <1>3, <1>4, Retyped DEF CallsInv, Typed
<1>8. \A u \in Threads : Agrees(u)'
  <2>1. Agrees(t)'
    BY <1>2, <1>3, <1>4, <1>5, <1>6, RingFrames DEF CallsInv, Agrees
  <2> QED
    BY <1>1, <2>1, AgreesKept
<1>9. ClearInv'
  BY <1>1, <1>3, <1>4, <1>6, ClearRests
<1> QED
  BY <1>7, <1>8, <1>9, RingTypesKept DEF CallsInv, CallStep

\* and ends when this is done.
LEMMA EnqueueReturnCalled ==
  ASSUME CallsInv, NEW t \in Threads, EnqueueReturn(t)
  PROVE  CallsInv'
<1>1. OnlyOne(t)
  BY Turn DEF CallStep
<1>2. /\ call[t].pc = "e_alloc" /\ aOp[t].pc = "E_done"
      /\ Alloc!Return(t) /\ Now(t, NoCall) /\ Alloc!Become(t, Alloc!Idle) /\ storage' = storage
      /\ UNCHANGED freeVars /\ fate' = fate
  BY DEF EnqueueReturn, Alloc!Return
<1>3. call[t] # NoCall
  BY <1>2, NewCalls
<1>4. call'[t] = NoCall /\ aOp'[t] = Alloc!Idle /\ fOp'[t] = fOp[t]
  BY <1>2, Frames DEF freeVars
<1>5. call'[t].pc = "idle" /\ ~call'[t].clear
  BY <1>4, NewCalls
<1>6. Typed'
  BY <1>2, NewCalls, Retyped DEF CallsInv, Typed
<1>7. \A u \in Threads : Agrees(u)'
  <2>1. Agrees(t)'
    BY <1>2, <1>4, NewCalls DEF CallsInv, Agrees
  <2> QED
    BY <1>1, <2>1, AgreesKept
<1>8. ClearInv'
  BY <1>1, <1>3, <1>5, ClearRests
<1> QED
  BY <1>6, <1>7, <1>8, RingTypesKept DEF CallsInv, CallStep

\* The call begins a dequeue of the allocated list.
LEMMA DequeueCalled ==
  ASSUME CallsInv, NEW t \in Threads, Dequeue(t)
  PROVE  CallsInv'
<1> DEFINE f == [NoCall EXCEPT !.pc = "d_alloc"]
           g == Alloc!Frame("D_ticket", Invalid)
<1>1. OnlyOne(t)
  BY Turn DEF CallStep
<1>2. /\ call[t] = NoCall /\ ~Clearing /\ Now(t, f)
      /\ Alloc!CallDequeue(t, FALSE) /\ Alloc!Become(t, g) /\ storage' = storage
      /\ UNCHANGED freeVars /\ fate' = fate
  BY DEF Dequeue, Alloc!CallDequeue
<1>3. f \in CallType /\ f.pc = "d_alloc" /\ f.clear = FALSE /\ call[t].pc = "idle"
  BY <1>2, NewCalls
<1>4. g.pc = "D_ticket"
  BY RingFrames
<1> HIDE DEF f, g
<1>5. call'[t] = f /\ aOp'[t] = g /\ fOp'[t] = fOp[t]
  BY <1>2, Frames DEF freeVars
<1>6. Typed'
  BY <1>2, <1>3, Retyped DEF CallsInv, Typed
<1>7. \A u \in Threads : Agrees(u)'
  <2>1. Agrees(t)'
    BY <1>3, <1>4, <1>5, RingFrames DEF CallsInv, Agrees
  <2> QED
    BY <1>1, <2>1, AgreesKept
<1>8. ClearInv'
  BY <1>1, <1>2, <1>3, <1>5, ClearRests
<1> QED
  BY <1>6, <1>7, <1>8, RingTypesKept DEF CallsInv, CallStep

\* There was no index: the call ends, or clear() goes on.
LEMMA DequeueNothingCalled ==
  ASSUME CallsInv, NEW t \in Threads, DequeueNothing(t)
  PROVE  CallsInv'
<1> DEFINE f == AfterDequeue(t)
<1>1. OnlyOne(t)
  BY Turn DEF CallStep
<1>2. /\ call[t].pc = "d_alloc" /\ aOp[t].pc = "D_done" /\ aOp[t].arg \notin Indexes
      /\ Alloc!Return(t) /\ Now(t, f) /\ Alloc!Become(t, Alloc!Idle) /\ storage' = storage
      /\ UNCHANGED <<aHead, aTail>> /\ UNCHANGED freeVars /\ fate' = fate
  BY DEF DequeueNothing, Alloc!Return
<1>3. /\ f \in CallType /\ f.pc \in {"idle", "c_loop"} /\ f.clear = call[t].clear
      /\ call[t].clear => f.pc = "c_loop" /\ f.left = call[t].left
      /\ ~call[t].clear => f = NoCall
  BY AfterCalls DEF CallsInv
<1>4. call[t] # NoCall /\ NoCall.pc = "idle"
  BY <1>2, NewCalls
<1> HIDE DEF f
<1>5. call'[t] = f /\ aOp'[t] = Alloc!Idle /\ fOp'[t] = fOp[t]
  BY <1>2, Frames DEF freeVars
<1>6. Typed'
  BY <1>2, <1>3, Retyped DEF CallsInv, Typed
<1>7. \A u \in Threads : Agrees(u)'
  <2>1. Agrees(t)'
    BY <1>2, <1>3, <1>4, <1>5 DEF CallsInv, Agrees
  <2> QED
    BY <1>1, <2>1, AgreesKept
<1>8. ClearInv'
  <2>1. CASE ~call[t].clear
    BY <1>1, <1>3, <1>4, <1>5, <2>1, ClearRests
  <2>2. CASE call[t].clear
    <3>1. aTail <= aHead + call[t].left
      BY <1>2, <2>2, ClearBounds
    <3> QED
      BY <1>1, <1>2, <1>3, <1>5, <2>2, <3>1, ClearGoesOn
  <2> QED
    BY <2>1, <2>2
<1> QED
  BY <1>6, <1>7, <1>8, RingTypesKept DEF CallsInv, CallStep

\* The call goes on with the index the allocated list returned.
LEMMA DequeueGotSlotCalled ==
  ASSUME CallsInv, NEW t \in Threads, DequeueGotSlot(t)
  PROVE  CallsInv'
<1> DEFINE v == aOp[t].arg
           f == [call[t] EXCEPT !.pc = "d_move", !.index = v]
<1>0. call[t] \in CallType
  BY DEF CallsInv, Typed
<1>1. OnlyOne(t)
  BY Turn DEF CallStep
<1>2. /\ call[t].pc = "d_alloc" /\ aOp[t].pc = "D_done" /\ v \in Indexes
      /\ Alloc!Return(t) /\ Now(t, f) /\ Alloc!Become(t, Alloc!Idle) /\ storage' = storage
      /\ UNCHANGED <<aHead, aTail>> /\ UNCHANGED freeVars /\ fate' = fate
  BY DEF DequeueGotSlot, Alloc!Return
<1>3. /\ f \in CallType /\ f.pc = "d_move" /\ f.index = v /\ f.left = call[t].left
      /\ f.clear = call[t].clear
  BY <1>0, <1>2 DEF CallType, CallPcs
<1>4. call[t] # NoCall
  BY <1>2, NewCalls
<1> HIDE DEF f
<1>5. call'[t] = f /\ aOp'[t] = Alloc!Idle /\ fOp'[t] = fOp[t]
  BY <1>2, Frames DEF freeVars
<1>6. Typed'
  BY <1>2, <1>3, Retyped DEF CallsInv, Typed
<1>7. \A u \in Threads : Agrees(u)'
  <2>1. Agrees(t)'
    BY <1>2, <1>3, <1>5 DEF CallsInv, Agrees
  <2> QED
    BY <1>1, <2>1, AgreesKept
<1>8. ClearInv'
  <2>1. CASE ~call[t].clear
    BY <1>1, <1>3, <1>4, <1>5, <2>1, ClearRests
  <2>2. CASE call[t].clear
    <3>1. aTail <= aHead + call[t].left
      BY <1>2, <2>2, ClearBounds
    <3> QED
      BY <1>1, <1>2, <1>3, <1>5, <2>2, <3>1, ClearGoesOn
  <2> QED
    BY <2>1, <2>2
<1> QED
  BY <1>6, <1>7, <1>8, RingTypesKept DEF CallsInv, CallStep

\* It begins to enqueue that index in the free list,
LEMMA DequeueMoveCalled ==
  ASSUME CallsInv, NEW t \in Threads, DequeueMove(t)
  PROVE  CallsInv'
<1> DEFINE v == call[t].index
           x == storage[v]
           f == [call[t] EXCEPT !.pc = "d_free", !.index = Invalid]
           g == Free!Frame("E_ticket", v)
<1>0. call[t] \in CallType
  BY DEF CallsInv, Typed
<1>1. OnlyOne(t)
  BY Turn DEF CallStep
<1>2. /\ call[t].pc = "d_move" /\ storage' = [storage EXCEPT ![v] = Raw]
      /\ fate' = [e \in Elements |-> IF e = x THEN "out" ELSE fate[e]]
      /\ Free!CallEnqueue(t, v) /\ Free!Become(t, g) /\ Now(t, f)
      /\ UNCHANGED allocVars
  BY DEF DequeueMove, Free!CallEnqueue
<1>3. /\ f \in CallType /\ f.pc = "d_free" /\ f.clear = call[t].clear /\ f.left = call[t].left
  BY <1>0, <1>2 DEF CallType, CallPcs
<1>4. v \in Indexes /\ call[t] # NoCall
  BY <1>2, NewCalls DEF CallsInv, Agrees
<1>5. g.pc = "E_ticket"
  BY RingFrames
<1> HIDE DEF f, g, v, x
<1>6. call'[t] = f /\ fOp'[t] = g /\ aOp'[t] = aOp[t]
  BY <1>2, Frames DEF allocVars
<1>7. Typed'
  BY <1>2, <1>3, <1>4, Retyped DEF CallsInv, Typed
<1>8. \A u \in Threads : Agrees(u)'
  <2>1. Agrees(t)'
    BY <1>2, <1>3, <1>4, <1>5, <1>6, RingFrames DEF CallsInv, Agrees
  <2> QED
    BY <1>1, <2>1, AgreesKept
<1>9. ClearInv'
  <2>1. CASE ~call[t].clear
    BY <1>1, <1>3, <1>4, <1>6, <2>1, ClearRests
  <2>2. CASE call[t].clear
    <3>1. aTail <= aHead + call[t].left
      BY <1>2, <2>2, ClearBounds
    <3>2. aTail' = aTail /\ aHead' = aHead
      BY <1>2 DEF allocVars
    <3> QED
      BY <1>1, <1>3, <1>6, <2>2, <3>1, <3>2, ClearGoesOn
  <2> QED
    BY <2>1, <2>2
<1> QED
  BY <1>7, <1>8, <1>9, RingTypesKept DEF CallsInv, CallStep

\* and ends when this is done, or clear() goes on.
LEMMA DequeueReturnCalled ==
  ASSUME CallsInv, NEW t \in Threads, DequeueReturn(t)
  PROVE  CallsInv'
<1> DEFINE f == AfterDequeue(t)
<1>1. OnlyOne(t)
  BY Turn DEF CallStep
<1>2. /\ call[t].pc = "d_free" /\ fOp[t].pc = "E_done"
      /\ Free!Return(t) /\ Now(t, f) /\ Free!Become(t, Free!Idle) /\ storage' = storage
      /\ UNCHANGED allocVars /\ fate' = fate
  BY DEF DequeueReturn, Free!Return
<1>3. /\ f \in CallType /\ f.pc \in {"idle", "c_loop"} /\ f.clear = call[t].clear
      /\ call[t].clear => f.pc = "c_loop" /\ f.left = call[t].left
      /\ ~call[t].clear => f = NoCall
  BY AfterCalls DEF CallsInv
<1>4. call[t] # NoCall /\ NoCall.pc = "idle"
  BY <1>2, NewCalls
<1> HIDE DEF f
<1>5. call'[t] = f /\ fOp'[t] = Free!Idle /\ aOp'[t] = aOp[t]
  BY <1>2, Frames DEF allocVars
<1>6. Typed'
  BY <1>2, <1>3, Retyped DEF CallsInv, Typed
<1>7. \A u \in Threads : Agrees(u)'
  <2>1. Agrees(t)'
    BY <1>2, <1>3, <1>4, <1>5 DEF CallsInv, Agrees
  <2> QED
    BY <1>1, <2>1, AgreesKept
<1>8. ClearInv'
  <2>1. CASE ~call[t].clear
    BY <1>1, <1>3, <1>4, <1>5, <2>1, ClearRests
  <2>2. CASE call[t].clear
    <3>1. aTail <= aHead + call[t].left
      BY <1>2, <2>2, ClearBounds
    <3>2. aTail' = aTail /\ aHead' = aHead
      BY <1>2 DEF allocVars
    <3> QED
      BY <1>1, <1>3, <1>5, <2>2, <3>1, <3>2, ClearGoesOn
  <2> QED
    BY <2>1, <2>2
<1> QED
  BY <1>6, <1>7, <1>8, RingTypesKept DEF CallsInv, CallStep

\* clear() finds as many elements to dequeue as the counters are apart.
LEMMA ClearBeginCalled ==
  ASSUME CallsInv, NEW t \in Threads, ClearBegin(t)
  PROVE  CallsInv'
<1> DEFINE f == [NoCall EXCEPT !.pc = "c_loop", !.clear = TRUE, !.left = size]
<1>1. OnlyOne(t)
  BY Turn DEF CallStep
<1>2. /\ \A u \in Threads : call[u] = NoCall
      /\ Now(t, f) /\ storage' = storage /\ UNCHANGED freeVars /\ UNCHANGED allocVars
      /\ fate' = fate /\ fOp' = fOp /\ aOp' = aOp /\ aHead' = aHead /\ aTail' = aTail
  BY DEF ClearBegin, freeVars, allocVars
<1>3. /\ f \in CallType /\ f.pc = "c_loop" /\ f.clear = TRUE /\ f.left = size
      /\ NoCall.pc = "idle" /\ NoCall.clear = FALSE
  BY Counters DEF NoCall, CallType, CallPcs
<1> HIDE DEF f
<1>4. call'[t] = f
  BY <1>2, Frames
<1>5. Typed'
  BY <1>2, <1>3, Retyped DEF CallsInv, Typed
<1>6. \A u \in Threads : Agrees(u)'
  <2>1. fOp[t] = Free!Idle /\ aOp[t] = Alloc!Idle
    BY <1>2, <1>3, IdleThread
  <2>2. Agrees(t)'
    BY <1>2, <1>3, <1>4, <2>1 DEF Agrees
  <2> QED
    BY <1>1, <2>2, AgreesKept
<1>7. ClearInv'
  <2> SUFFICES ASSUME NEW u \in Threads, call'[u].clear
               PROVE  /\ \A w \in Threads \ {u} : call'[w] = NoCall
                      /\ call'[u].pc = "c_loop" /\ aTail' <= aHead' + call'[u].left
    BY DEF ClearInv
  <2>1. u = t
    BY <1>1, <1>2, <1>3 DEF OnlyOne
  <2> QED
    BY <1>1, <1>2, <1>3, <1>4, <2>1, Counters DEF OnlyOne
<1> QED
  BY <1>5, <1>6, <1>7, RingTypesKept DEF CallsInv, CallStep

\* One of the dequeues of clear(), which still has its ticket to draw.
LEMMA ClearDequeueCalled ==
  ASSUME CallsInv, NEW t \in Threads, ClearDequeue(t)
  PROVE  CallsInv'
<1> DEFINE n == call[t].left - 1
           f == [call[t] EXCEPT !.pc = "d_alloc", !.left = n]
           g == Alloc!Frame("D_ticket", Invalid)
<1>0. call[t] \in CallType
  BY DEF CallsInv, Typed
<1>1. OnlyOne(t)
  BY Turn DEF CallStep
<1>2. /\ call[t].pc = "c_loop" /\ call[t].left > 0 /\ Now(t, f)
      /\ Alloc!CallDequeue(t, FALSE) /\ Alloc!Become(t, g) /\ storage' = storage
      /\ UNCHANGED <<aHead, aTail>> /\ UNCHANGED freeVars /\ fate' = fate
  BY DEF ClearDequeue, Alloc!CallDequeue
<1>3. /\ f \in CallType /\ f.pc = "d_alloc" /\ f.clear = call[t].clear /\ f.left = n
      /\ call[t].left = n + 1 /\ n \in Nat
  <2>1. call[t].left \in Nat
    BY <1>0 DEF CallType
  <2>2. n \in Nat /\ call[t].left = n + 1
    BY <1>2, <2>1
  <2> HIDE DEF n
  <2> QED
    BY <1>0, <2>2 DEF CallType, CallPcs
<1>4. g.pc = "D_ticket"
  BY RingFrames
<1> HIDE DEF f, g, n
<1>5. call'[t] = f /\ aOp'[t] = g /\ fOp'[t] = fOp[t]
  BY <1>2, Frames DEF freeVars
<1>6. Typed'
  BY <1>2, <1>3, Retyped DEF CallsInv, Typed
<1>7. \A u \in Threads : Agrees(u)'
  <2>1. Agrees(t)'
    BY <1>2, <1>3, <1>4, <1>5, RingFrames DEF CallsInv, Agrees
  <2> QED
    BY <1>1, <2>1, AgreesKept
<1>8. ClearInv'
  <2>1. call[t].clear
    BY <1>2 DEF CallsInv, Agrees
  <2>2. aTail' <= aHead' + f.left + 1
    BY <1>2, <1>3, <2>1, ClearBounds, Counters
  <2> QED
    BY <1>1, <1>3, <1>4, <1>5, <2>1, <2>2, ClearGoesOn
<1> QED
  BY <1>6, <1>7, <1>8, RingTypesKept DEF CallsInv, CallStep

\* clear() ends, and the counters start anew.
LEMMA ClearEndCalled ==
  ASSUME CallsInv, NEW t \in Threads, ClearEnd(t)
  PROVE  CallsInv'
<1>1. OnlyOne(t)
  BY Turn DEF CallStep
<1>2. /\ call[t].pc = "c_loop" /\ call[t].left = 0 /\ Now(t, NoCall)
      /\ storage' = storage /\ fate' = fate /\ fOp' = fOp /\ aOp' = aOp
  BY DEF ClearEnd, Alloc!Clear, Free!Full
<1>3. call'[t] = NoCall /\ call'[t].pc = "idle" /\ ~call'[t].clear /\ call[t] # NoCall
  BY <1>2, Frames, NewCalls
<1>4. fOp[t] = Free!Idle /\ aOp[t] = Alloc!Idle
  BY <1>2, IdleThread
<1>5. Typed'
  BY <1>2, NewCalls, Retyped DEF CallsInv, Typed
<1>6. \A u \in Threads : Agrees(u)'
  <2>1. Agrees(t)'
    BY <1>2, <1>3, <1>4, NewCalls DEF Agrees
  <2> QED
    BY <1>1, <2>1, AgreesKept
<1>7. ClearInv'
  BY <1>1, <1>3, ClearRests
<1> QED
  BY <1>5, <1>6, <1>7, RingTypesKept DEF CallsInv, CallStep

\* A call on the queue waits for its call in a ring.
LEMMA RingWorkCalled ==
  ASSUME CallsInv, NEW t \in Threads, RingWork(t)
  PROVE  CallsInv'
<1>1. OnlyOne(t)
  BY Turn DEF CallStep
<1>2. /\ storage' = storage /\ call' = call /\ fate' = fate
      /\ \/ Free!RingStep(t) /\ UNCHANGED allocVars
         \/ Alloc!RingStep(t) /\ UNCHANGED freeVars
  BY DEF RingWork
<1>3. Typed'
  BY <1>2 DEF CallsInv, Typed
<1>4. \A u \in Threads : Agrees(u)'
  <2>1. CASE Free!RingStep(t) /\ UNCHANGED allocVars
    <3>1. \/ fOp[t].pc \in Free!EnqueuePcs /\ fOp'[t].pc \in Free!EnqueuePcs \cup {"E_done"}
          \/ fOp[t].pc \in Free!DequeuePcs /\ fOp'[t].pc \in Free!DequeuePcs \cup {"D_done"}
      BY <2>1, FreeTurn
    <3>2. aOp' = aOp
      BY <2>1 DEF allocVars
    <3>3. Agrees(t)
      BY DEF CallsInv
    <3>4. fOp[t] # Free!Idle
      BY <3>1, RingFrames DEF Free!EnqueuePcs, Free!DequeuePcs
    <3>5. Agrees(t)'
      BY <1>2, <3>1, <3>2, <3>3, <3>4 DEF Agrees, Free!EnqueuePcs, Free!DequeuePcs
    <3> QED
      BY <1>1, <3>5, AgreesKept
  <2>2. CASE Alloc!RingStep(t) /\ UNCHANGED freeVars
    <3>1. \/ aOp[t].pc \in Alloc!EnqueuePcs /\ aOp'[t].pc \in Alloc!EnqueuePcs \cup {"E_done"}
          \/ aOp[t].pc \in Alloc!DequeuePcs /\ aOp'[t].pc \in Alloc!DequeuePcs \cup {"D_done"}
      BY <2>2, AllocTurn
    <3>2. fOp' = fOp
      BY <2>2 DEF freeVars
    <3>3. Agrees(t)
      BY DEF CallsInv
    <3>4. aOp[t] # Alloc!Idle
      BY <3>1, RingFrames DEF Alloc!EnqueuePcs, Alloc!DequeuePcs
    <3>5. Agrees(t)'
      BY <1>2, <3>1, <3>2, <3>3, <3>4 DEF Agrees, Alloc!EnqueuePcs, Alloc!DequeuePcs
    <3> QED
      BY <1>1, <3>5, AgreesKept
  <2> QED
    BY <1>2, <2>1, <2>2
<1>5. ClearInv'
  <2>1. CASE UNCHANGED allocVars
    BY <1>2, <2>1 DEF CallsInv, ClearInv, allocVars
  <2>2. CASE Alloc!RingStep(t)
    BY <1>2, <2>2, ClearApproaches
  <2> QED
    BY <1>2, <2>1, <2>2
<1> QED
  BY <1>3, <1>4, <1>5, RingTypesKept DEF CallsInv, CallStep

-----------------------------------------------------------------------------
(* As long as no view is torn, slots and elements are kept by enqueue(),     *)

\* The call takes up an element that was nowhere, and dequeues a free index.
LEMMA EnqueueKept ==
  ASSUME CallsInv, SteadyInv, NEW t \in Threads, NEW e \in Elements, Enqueue(t, e), SteadyViews'
  PROVE  SteadyInv'
<1> DEFINE f == [NoCall EXCEPT !.pc = "e_free", !.elem = e]
           g == Free!Frame("D_size_tail", Invalid)
<1>1. OnlyOne(t)
  BY Turn DEF CallStep
<1>2. /\ call[t] = NoCall /\ ~Clearing /\ fate[e] = "unsent" /\ Now(t, f)
      /\ Free!CallDequeue(t, TRUE) /\ Free!Become(t, g) /\ storage' = storage
      /\ UNCHANGED allocVars /\ fate' = [fate EXCEPT ![e] = "sent"]
  BY DEF Enqueue, Free!CallDequeue
<1>3. f \in CallType /\ f.pc = "e_free" /\ f.elem = e /\ f.clear = FALSE /\ call[t].pc = "idle"
  BY <1>2, NewCalls
<1> HIDE DEF f, g
<1>4. call'[t] = f /\ fOp'[t] = g /\ aOp'[t] = aOp[t]
  BY <1>2, Frames DEF allocVars
<1>5. (\A i \in Indexes : Held(i)' <=> Held(i)) /\ HeldOnce'
  BY <1>1, <1>3, <1>4, HeldRests DEF SteadyInv, RingsInv
<1>6. /\ FreeRing!RingSound' /\ AllocRing!RingSound'
      /\ \A i \in Indexes : (HasFree(i)' <=> HasFree(i)) /\ (HasAlloc(i)' <=> HasAlloc(i))
  BY <1>2, <1>5, FreeDequeueCalled DEF SteadyInv, RingsInv
<1>7. SlotsInv'
  <2>1. \A i \in Indexes : Filled(i)' <=> Filled(i)
    BY <1>1, <1>3, <1>4, <1>6 DEF Filled, OnlyOne
  <2> QED
    BY <1>2, <2>1, SlotsRest DEF SteadyInv
<1>8. ElementsInv'
  <2>1. \A u \in Threads, x \in Elements : Gives(u, x)' <=> Gives(u, x) \/ (u = t /\ x = e)
    BY <1>1, <1>3, <1>4 DEF Gives, OnlyOne
  <2>2. \A x \in Elements : x # e => fate'[x] = fate[x]
    BY <1>2 DEF CallsInv, Typed
  <2>3. fate'[e] = "sent"
    BY <1>2 DEF CallsInv, Typed
  <2> QED
    BY <1>2, <2>1, <2>2, <2>3 DEF SteadyInv, ElementsInv
<1> QED
  BY <1>5, <1>6, <1>7, <1>8 DEF SteadyInv, RingsInv

\* The free list gave no index: the element is refused, whichever way.
LEMMA EnqueueRefusedKept ==
  ASSUME CallsInv, SteadyInv, NEW t \in Threads, EnqueueRefused(t), SteadyViews'
  PROVE  SteadyInv'
<1> DEFINE e == call[t].elem
           r == IF fOp[t].arg = Overflow THEN "overflow" ELSE "nullopt"
<1>1. OnlyOne(t)
  BY Turn DEF CallStep
<1>2. /\ call[t].pc = "e_free" /\ fOp[t].pc = "D_done" /\ fOp[t].arg \notin Indexes
      /\ Free!Return(t) /\ Now(t, NoCall) /\ Free!Become(t, Free!Idle) /\ storage' = storage
      /\ UNCHANGED allocVars /\ fate' = [fate EXCEPT ![e] = r]
  BY DEF EnqueueRefused, Free!Return
<1>3. e \in Elements /\ r \in {"overflow", "nullopt"} /\ call[t] # NoCall
  BY <1>2, NewCalls DEF CallsInv, Agrees
<1> HIDE DEF r
<1>4. call'[t] = NoCall /\ fOp'[t] = Free!Idle /\ aOp'[t] = aOp[t]
  BY <1>2, Frames DEF allocVars
<1>5. call'[t].pc = "idle" /\ ~call'[t].clear
  BY <1>4, NewCalls
<1>6. (\A i \in Indexes : Held(i)' <=> Held(i)) /\ HeldOnce'
  BY <1>1, <1>2, <1>5, HeldRests DEF SteadyInv, RingsInv
<1>7. /\ FreeRing!RingSound' /\ AllocRing!RingSound'
      /\ \A i \in Indexes : (HasFree(i)' <=> HasFree(i)) /\ (HasAlloc(i)' <=> HasAlloc(i))
  BY <1>2, <1>6, FreeReturned DEF SteadyInv, RingsInv
<1>8. SlotsInv'
  <2>1. \A i \in Indexes : Filled(i)' <=> Filled(i)
    BY <1>1, <1>2, <1>5, <1>7 DEF Filled, OnlyOne
  <2> QED
    BY <1>2, <2>1, SlotsRest DEF SteadyInv
<1>9. ElementsInv'
  <2>1. \A u \in Threads, x \in Elements : Gives(u, x)' <=> Gives(u, x) /\ u # t
    BY <1>1, <1>5 DEF Gives, OnlyOne
  <2>2. \A x \in Elements : Gives(t, x) => x = e
    BY DEF Gives
  <2> HIDE DEF e
  <2>3. \A x \in Elements : x # e => fate'[x] = fate[x]
    BY <1>2 DEF CallsInv, Typed
  <2>4. fate'[e] \in {"overflow", "nullopt"}
    BY <1>2, <1>3 DEF CallsInv, Typed
  <2> QED
    BY <1>2, <2>1, <2>2, <2>3, <2>4 DEF SteadyInv, ElementsInv
<1> QED
  BY <1>6, <1>7, <1>8, <1>9 DEF SteadyInv, RingsInv

\* The index the free list returned is now the thread's.
LEMMA EnqueueGotSlotKept ==
  ASSUME CallsInv, SteadyInv, NEW t \in Threads, EnqueueGotSlot(t), SteadyViews'
  PROVE  SteadyInv'
<1> DEFINE v == fOp[t].arg
           f == [call[t] EXCEPT !.pc = "e_set", !.index = v]
<1>0. call[t] \in CallType
  BY DEF CallsInv, Typed
<1>1. OnlyOne(t)
  BY Turn DEF CallStep
<1>2. /\ call[t].pc = "e_free" /\ fOp[t].pc = "D_done" /\ v \in Indexes
      /\ Free!Return(t) /\ Now(t, f) /\ Free!Become(t, Free!Idle) /\ storage' = storage
      /\ UNCHANGED allocVars /\ fate' = fate
  BY DEF EnqueueGotSlot, Free!Return
<1>3. /\ f \in CallType /\ f.pc = "e_set" /\ f.index = v /\ f.elem = call[t].elem
      /\ f.clear = call[t].clear
  BY <1>0, <1>2 DEF CallType, CallPcs
<1> HIDE DEF f
<1>4. call'[t] = f /\ fOp'[t] = Free!Idle /\ aOp'[t] = aOp[t]
  BY <1>2, Frames DEF allocVars
<1>5. (\A i \in Indexes : Held(i)' <=> Held(i) \/ i = v) /\ (~Held(v) => HeldOnce')
  BY <1>1, <1>2, <1>3, <1>4, HeldTaken DEF SteadyInv, RingsInv
<1>6. /\ FreeRing!RingSound' /\ AllocRing!RingSound' /\ ~Held(v)
      /\ \A i \in Indexes : HasAlloc(i)' <=> HasAlloc(i)
  BY <1>2, <1>5, FreeTaken DEF SteadyInv, RingsInv
<1>7. SlotsInv'
  <2>1. \A i \in Indexes : Filled(i)' <=> Filled(i)
    BY <1>1, <1>2, <1>3, <1>4, <1>6 DEF Filled, OnlyOne
  <2> QED
    BY <1>2, <2>1, SlotsRest DEF SteadyInv
<1>8. ElementsInv'
  <2>1. \A u \in Threads, x \in Elements : Gives(u, x)' <=> Gives(u, x)
    BY <1>1, <1>2, <1>3, <1>4 DEF Gives, OnlyOne
  <2> QED
    BY <1>2, <2>1, ElementsRest DEF SteadyInv
<1> QED
  BY <1>5, <1>6, <1>7, <1>8 DEF SteadyInv, RingsInv

\* The slot was raw; it gets the element, and the index goes to the allocated list.
LEMMA EnqueueSetKept ==
  ASSUME CallsInv, SteadyInv, NEW t \in Threads, EnqueueSet(t), SteadyViews'
  PROVE  SteadyInv'
<1> DEFINE v == call[t].index
           e == call[t].elem
           f == [call[t] EXCEPT !.pc = "e_alloc"]
           g == Alloc!Frame("E_ticket", v)
<1>0. call[t] \in CallType
  BY DEF CallsInv, Typed
<1>1. OnlyOne(t)
  BY Turn DEF CallStep
<1>2. /\ call[t].pc = "e_set" /\ storage' = [storage EXCEPT ![v] = e]
      /\ Alloc!CallEnqueue(t, v) /\ Alloc!Become(t, g) /\ Now(t, f)
      /\ UNCHANGED freeVars /\ fate' = fate
  BY DEF EnqueueSet, Alloc!CallEnqueue
<1>3. f \in CallType /\ f.pc = "e_alloc" /\ f.clear = call[t].clear
  BY <1>0, <1>2 DEF CallType, CallPcs
<1>4. ~call[t].clear /\ e \in Elements /\ v \in Indexes /\ call[t] # NoCall
  BY <1>2, NewCalls DEF CallsInv, Agrees
<1> HIDE DEF f, g, v, e
<1>5. call'[t] = f /\ aOp'[t] = g /\ fOp'[t] = fOp[t]
  BY <1>2, Frames DEF freeVars
<1>6. Held(v) /\ (\A i \in Indexes : Held(i)' <=> Held(i) /\ i # v) /\ HeldOnce'
  BY <1>1, <1>2, <1>3, <1>4, <1>5, HeldGiven DEF SteadyInv, RingsInv, v
<1>7. /\ FreeRing!RingSound' /\ AllocRing!RingSound' /\ ~HasAlloc(v)
       /\ \A i \in Indexes : HasAlloc(i)' <=> HasAlloc(i) \/ i = v
  BY <1>2, <1>4, <1>6, AllocGiven DEF SteadyInv, RingsInv
\* Nobody else works on the slot, and it has no value.
<1>8. \A u \in Threads : ~(call[u].pc = "d_move" /\ call[u].index = v)
  BY <1>2, <1>4 DEF SteadyInv, RingsInv, HeldOnce, Holds, v
<1>9. storage[v] = Raw
  BY <1>4, <1>7, <1>8 DEF SteadyInv, SlotsInv, Filled
<1>10. storage'[v] = e /\ \A i \in Indexes : i # v => storage'[i] = storage[i]
  BY <1>2, <1>4 DEF CallsInv, Typed
<1>11. SlotsInv'
  <2>1. \A i \in Indexes : Filled(i)' <=> Filled(i) \/ i = v
    BY <1>1, <1>2, <1>3, <1>5, <1>7 DEF Filled, OnlyOne
  <2> QED
    BY <1>4, <1>10, <2>1, RawAssumption DEF SteadyInv, SlotsInv
<1>12. ElementsInv'
  <2>1. \A u \in Threads, x \in Elements : Gives(u, x)' <=> Gives(u, x) /\ u # t
    BY <1>1, <1>3, <1>5 DEF Gives, OnlyOne
  <2>2. \A x \in Elements : Gives(t, x) <=> x = e
    BY <1>2 DEF Gives, e
  <2>3. \A x \in Elements, i \in Indexes : storage'[i] = x <=> storage[i] = x \/ (i = v /\ x = e)
    BY <1>9, <1>10, RawAssumption
  <2>4. fate[e] # "unsent"
    BY <1>4, <2>2 DEF SteadyInv, ElementsInv
  <2>5. ASSUME NEW x \in Elements, fate[x] = "unsent"
        PROVE  (\A u \in Threads : ~Gives(u, x)') /\ \A i \in Indexes : storage'[i] # x
    BY <2>1, <2>3, <2>4, <2>5 DEF SteadyInv, ElementsInv
  <2>6. ASSUME NEW x \in Elements, fate[x] = "sent"
        PROVE  /\ (\E u \in Threads : Gives(u, x)') \/ \E i \in Indexes : storage'[i] = x
               /\ \A u \in Threads : Gives(u, x)' => \A i \in Indexes : storage'[i] # x
               /\ \A u, w \in Threads : Gives(u, x)' /\ Gives(w, x)' => u = w
               /\ \A i, j \in Indexes : storage'[i] = x /\ storage'[j] = x => i = j
    <3>1. CASE x = e
      <4>1. Gives(t, x) /\ \A u \in Threads : ~Gives(u, x)'
        BY <2>1, <2>2, <2>6, <3>1 DEF SteadyInv, ElementsInv
      <4>2. \A i \in Indexes : storage'[i] = x <=> i = v
        BY <2>3, <2>6, <3>1, <4>1 DEF SteadyInv, ElementsInv
      <4> QED
        BY <1>4, <4>1, <4>2
    <3>2. CASE x # e
      <4>1. /\ \A u \in Threads : Gives(u, x)' <=> Gives(u, x)
            /\ \A i \in Indexes : storage'[i] = x <=> storage[i] = x
        BY <2>1, <2>2, <2>3, <3>2
      <4> QED
        BY <2>6, <4>1 DEF SteadyInv, ElementsInv
    <3> QED
      BY <3>1, <3>2
  <2> QED
    BY <1>2, <2>5, <2>6 DEF ElementsInv
<1> QED
  BY <1>6, <1>7, <1>8, <1>9, <1>10, <1>11, <1>12 DEF SteadyInv, RingsInv

\* The index has been stored.
LEMMA EnqueueReturnKept ==
  ASSUME CallsInv, SteadyInv, NEW t \in Threads, EnqueueReturn(t), SteadyViews'
  PROVE  SteadyInv'
<1>1. OnlyOne(t)
  BY Turn DEF CallStep
<1>2. /\ call[t].pc = "e_alloc" /\ aOp[t].pc = "E_done"
      /\ Alloc!Return(t) /\ Now(t, NoCall) /\ Alloc!Become(t, Alloc!Idle) /\ storage' = storage
      /\ UNCHANGED freeVars /\ fate' = fate
  BY DEF EnqueueReturn, Alloc!Return
<1>3. call'[t] = NoCall /\ aOp'[t] = Alloc!Idle /\ fOp'[t] = fOp[t]
  BY <1>2, Frames DEF freeVars
<1>4. call'[t].pc = "idle" /\ ~call'[t].clear
  BY <1>3, NewCalls
<1>5. (\A i \in Indexes : Held(i)' <=> Held(i)) /\ HeldOnce'
  BY <1>1, <1>2, <1>4, HeldRests DEF SteadyInv, RingsInv
<1>6. /\ FreeRing!RingSound' /\ AllocRing!RingSound'
      /\ \A i \in Indexes : (HasFree(i)' <=> HasFree(i)) /\ (HasAlloc(i)' <=> HasAlloc(i))
  BY <1>2, <1>5, AllocReturned DEF SteadyInv, RingsInv
<1>7. SlotsInv'
  <2>1. \A i \in Indexes : Filled(i)' <=> Filled(i)
    BY <1>1, <1>2, <1>4, <1>6 DEF Filled, OnlyOne
  <2> QED
    BY <1>2, <2>1, SlotsRest DEF SteadyInv
<1>8. ElementsInv'
  <2>1. \A u \in Threads, x \in Elements : Gives(u, x)' <=> Gives(u, x)
    BY <1>1, <1>2, <1>4 DEF Gives, OnlyOne
  <2> QED
    BY <1>2, <2>1, ElementsRest DEF SteadyInv
<1> QED
  BY <1>5, <1>6, <1>7, <1>8 DEF SteadyInv, RingsInv

-----------------------------------------------------------------------------
(* by dequeue(), which clear() also calls,                                   *)

\* The call dequeues an allocated index.
LEMMA DequeueKept ==
  ASSUME CallsInv, SteadyInv, NEW t \in Threads, Dequeue(t), SteadyViews'
  PROVE  SteadyInv'
<1> DEFINE f == [NoCall EXCEPT !.pc = "d_alloc"]
           g == Alloc!Frame("D_ticket", Invalid)
<1>1. OnlyOne(t)
  BY Turn DEF CallStep
<1>2. /\ call[t] = NoCall /\ ~Clearing /\ Now(t, f)
      /\ Alloc!CallDequeue(t, FALSE) /\ Alloc!Become(t, g) /\ storage' = storage
      /\ UNCHANGED freeVars /\ fate' = fate
  BY DEF Dequeue, Alloc!CallDequeue
<1>3. f \in CallType /\ f.pc = "d_alloc" /\ f.clear = FALSE /\ call[t].pc = "idle"
  BY <1>2, NewCalls
<1> HIDE DEF f, g
<1>4. call'[t] = f /\ aOp'[t] = g /\ fOp'[t] = fOp[t]
  BY <1>2, Frames DEF freeVars
<1>5. (\A i \in Indexes : Held(i)' <=> Held(i)) /\ HeldOnce'
  BY <1>1, <1>3, <1>4, HeldRests DEF SteadyInv, RingsInv
<1>6. /\ FreeRing!RingSound' /\ AllocRing!RingSound'
      /\ \A i \in Indexes : (HasFree(i)' <=> HasFree(i)) /\ (HasAlloc(i)' <=> HasAlloc(i))
  BY <1>2, <1>5, AllocDequeueCalled DEF SteadyInv, RingsInv
<1>7. SlotsInv'
  <2>1. \A i \in Indexes : Filled(i)' <=> Filled(i)
    BY <1>1, <1>3, <1>4, <1>6 DEF Filled, OnlyOne
  <2> QED
    BY <1>2, <2>1, SlotsRest DEF SteadyInv
<1>8. ElementsInv'
  <2>1. \A u \in Threads, x \in Elements : Gives(u, x)' <=> Gives(u, x)
    BY <1>1, <1>3, <1>4 DEF Gives, OnlyOne
  <2> QED
    BY <1>2, <2>1, ElementsRest DEF SteadyInv
<1> QED
  BY <1>5, <1>6, <1>7, <1>8 DEF SteadyInv, RingsInv

\* The allocated list gave no index.
LEMMA DequeueNothingKept ==
  ASSUME CallsInv, SteadyInv, NEW t \in Threads, DequeueNothing(t), SteadyViews'
  PROVE  SteadyInv'
<1> DEFINE f == AfterDequeue(t)
<1>1. OnlyOne(t)
  BY Turn DEF CallStep
<1>2. /\ call[t].pc = "d_alloc" /\ aOp[t].pc = "D_done" /\ aOp[t].arg \notin Indexes
      /\ Alloc!Return(t) /\ Now(t, f) /\ Alloc!Become(t, Alloc!Idle) /\ storage' = storage
      /\ UNCHANGED <<aHead, aTail>> /\ UNCHANGED freeVars /\ fate' = fate
  BY DEF DequeueNothing, Alloc!Return
<1>3. /\ f \in CallType /\ f.pc \in {"idle", "c_loop"} /\ f.clear = call[t].clear
      /\ call[t].clear => f.pc = "c_loop" /\ f.left = call[t].left
      /\ ~call[t].clear => f = NoCall
  BY AfterCalls DEF CallsInv
<1> HIDE DEF f
<1>4. call'[t] = f /\ aOp'[t] = Alloc!Idle /\ fOp'[t] = fOp[t]
  BY <1>2, Frames DEF freeVars
<1>5. (\A i \in Indexes : Held(i)' <=> Held(i)) /\ HeldOnce'
  BY <1>1, <1>2, <1>3, <1>4, HeldRests DEF SteadyInv, RingsInv
<1>6. /\ FreeRing!RingSound' /\ AllocRing!RingSound'
      /\ \A i \in Indexes : (HasFree(i)' <=> HasFree(i)) /\ (HasAlloc(i)' <=> HasAlloc(i))
  BY <1>2, <1>5, AllocReturned DEF SteadyInv, RingsInv
<1>7. SlotsInv'
  <2>1. \A i \in Indexes : Filled(i)' <=> Filled(i)
    BY <1>1, <1>2, <1>3, <1>4, <1>6 DEF Filled, OnlyOne
  <2> QED
    BY <1>2, <2>1, SlotsRest DEF SteadyInv
<1>8. ElementsInv'
  <2>1. \A u \in Threads, x \in Elements : Gives(u, x)' <=> Gives(u, x)
    BY <1>1, <1>2, <1>3, <1>4 DEF Gives, OnlyOne
  <2> QED
    BY <1>2, <2>1, ElementsRest DEF SteadyInv
<1> QED
  BY <1>5, <1>6, <1>7, <1>8 DEF SteadyInv, RingsInv

\* The index the allocated list returned is now the thread's, with its value.
LEMMA DequeueGotSlotKept ==
  ASSUME CallsInv, SteadyInv, NEW t \in Threads, DequeueGotSlot(t), SteadyViews'
  PROVE  SteadyInv'
<1> DEFINE v == aOp[t].arg
           f == [call[t] EXCEPT !.pc = "d_move", !.index = v]
<1>0. call[t] \in CallType
  BY DEF CallsInv, Typed
<1>1. OnlyOne(t)
  BY Turn DEF CallStep
<1>2. /\ call[t].pc = "d_alloc" /\ aOp[t].pc = "D_done" /\ v \in Indexes
      /\ Alloc!Return(t) /\ Now(t, f) /\ Alloc!Become(t, Alloc!Idle) /\ storage' = storage
      /\ UNCHANGED <<aHead, aTail>> /\ UNCHANGED freeVars /\ fate' = fate
  BY DEF DequeueGotSlot, Alloc!Return
<1>3. /\ f \in CallType /\ f.pc = "d_move" /\ f.index = v /\ f.left = call[t].left
      /\ f.clear = call[t].clear
  BY <1>0, <1>2 DEF CallType, CallPcs
<1> HIDE DEF f
<1>4. call'[t] = f /\ aOp'[t] = Alloc!Idle /\ fOp'[t] = fOp[t]
  BY <1>2, Frames DEF freeVars
<1>5. (\A i \in Indexes : Held(i)' <=> Held(i) \/ i = v) /\ (~Held(v) => HeldOnce')
  BY <1>1, <1>2, <1>3, <1>4, HeldTaken DEF SteadyInv, RingsInv
<1>6. /\ FreeRing!RingSound' /\ AllocRing!RingSound' /\ ~Held(v) /\ HasAlloc(v)
      /\ \A i \in Indexes : HasAlloc(i)' <=> HasAlloc(i) /\ i # v
  BY <1>2, <1>5, AllocTaken DEF SteadyInv, RingsInv
<1>7. SlotsInv'
  <2>1. \A i \in Indexes : Filled(i)' <=> Filled(i)
    BY <1>1, <1>2, <1>3, <1>4, <1>6 DEF Filled, OnlyOne
  <2> QED
    BY <1>2, <2>1, SlotsRest DEF SteadyInv
<1>8. ElementsInv'
  <2>1. \A u \in Threads, x \in Elements : Gives(u, x)' <=> Gives(u, x)
    BY <1>1, <1>2, <1>3, <1>4 DEF Gives, OnlyOne
  <2> QED
    BY <1>2, <2>1, ElementsRest DEF SteadyInv
<1> QED
  BY <1>5, <1>6, <1>7, <1>8 DEF SteadyInv, RingsInv

\* The value is out, the slot raw, and the index goes back to the free list.
LEMMA DequeueMoveKept ==
  ASSUME CallsInv, SteadyInv, NEW t \in Threads, DequeueMove(t), SteadyViews'
  PROVE  SteadyInv'
<1> DEFINE v == call[t].index
           x == storage[v]
           f == [call[t] EXCEPT !.pc = "d_free", !.index = Invalid]
           g == Free!Frame("E_ticket", v)
<1>0. call[t] \in CallType
  BY DEF CallsInv, Typed
<1>1. OnlyOne(t)
  BY Turn DEF CallStep
<1>2. /\ call[t].pc = "d_move" /\ storage' = [storage EXCEPT ![v] = Raw]
      /\ fate' = [e \in Elements |-> IF e = x THEN "out" ELSE fate[e]]
      /\ Free!CallEnqueue(t, v) /\ Free!Become(t, g) /\ Now(t, f)
      /\ UNCHANGED allocVars
  BY DEF DequeueMove, Free!CallEnqueue
<1>3. /\ f \in CallType /\ f.pc = "d_free" /\ f.clear = call[t].clear /\ f.left = call[t].left
  BY <1>0, <1>2 DEF CallType, CallPcs
<1>4. v \in Indexes /\ call[t] # NoCall
  BY <1>2, NewCalls DEF CallsInv, Agrees
<1>5. x # Raw
  BY <1>2, <1>4 DEF SteadyInv, SlotsInv, Filled
<1> HIDE DEF f, g, v, x
<1>6. call'[t] = f /\ fOp'[t] = g /\ aOp'[t] = aOp[t]
  BY <1>2, Frames DEF allocVars
<1>7. /\ storage'[v] = Raw /\ \A i \in Indexes : i # v => storage'[i] = storage[i]
      /\ \A e \in Elements : fate'[e] = IF e = x THEN "out" ELSE fate[e]
  BY <1>2, <1>4 DEF CallsInv, Typed
<1>8. Held(v) /\ (\A i \in Indexes : Held(i)' <=> Held(i) /\ i # v) /\ HeldOnce'
  BY <1>1, <1>2, <1>3, <1>4, <1>6, HeldGiven DEF SteadyInv, RingsInv, v
<1>9. /\ FreeRing!RingSound' /\ AllocRing!RingSound' /\ ~HasAlloc(v)
       /\ \A i \in Indexes : HasAlloc(i)' <=> HasAlloc(i)
  BY <1>2, <1>4, <1>8, FreeGiven DEF SteadyInv, RingsInv
<1>10. SlotsInv'
  <2>1. \A u \in Threads : ~(call'[u].pc = "d_move" /\ call'[u].index = v)
    BY <1>1, <1>2, <1>3, <1>4, <1>6 DEF SteadyInv, RingsInv, HeldOnce, Holds, OnlyOne, v
  <2>2. \A i \in Indexes : Filled(i)' <=> Filled(i) /\ i # v
    <3> SUFFICES ASSUME NEW i \in Indexes PROVE Filled(i)' <=> Filled(i) /\ i # v
      OBVIOUS
    <3>1. CASE i = v
      BY <1>9, <2>1, <3>1 DEF Filled
    <3>2. CASE i # v
      BY <1>1, <1>2, <1>3, <1>6, <1>9, <3>2 DEF Filled, OnlyOne, v
    <3> QED
      BY <3>1, <3>2
  <2> QED
    BY <1>4, <1>7, <2>2 DEF SteadyInv, SlotsInv
<1>11. ElementsInv'
  <2>1. \A u \in Threads, e \in Elements : Gives(u, e)' <=> Gives(u, e)
    BY <1>1, <1>2, <1>3, <1>6 DEF Gives, OnlyOne
  <2>2. ASSUME NEW e \in Elements, e # x
        PROVE  fate'[e] = fate[e] /\ \A i \in Indexes : storage'[i] = e <=> storage[i] = e
    BY <1>4, <1>7, <2>2, RawAssumption DEF x
  <2>3. \A e \in Elements : e = x => fate'[e] = "out"
    BY <1>7
  <2> QED
    BY <2>1, <2>2, <2>3 DEF SteadyInv, ElementsInv
<1> QED
  BY <1>5, <1>7, <1>8, <1>9, <1>10, <1>11 DEF SteadyInv, RingsInv

\* The index has been given back.
LEMMA DequeueReturnKept ==
  ASSUME CallsInv, SteadyInv, NEW t \in Threads, DequeueReturn(t), SteadyViews'
  PROVE  SteadyInv'
<1> DEFINE f == AfterDequeue(t)
<1>1. OnlyOne(t)
  BY Turn DEF CallStep
<1>2. /\ call[t].pc = "d_free" /\ fOp[t].pc = "E_done"
      /\ Free!Return(t) /\ Now(t, f) /\ Free!Become(t, Free!Idle) /\ storage' = storage
      /\ UNCHANGED allocVars /\ fate' = fate
  BY DEF DequeueReturn, Free!Return
<1>3. /\ f \in CallType /\ f.pc \in {"idle", "c_loop"} /\ f.clear = call[t].clear
      /\ call[t].clear => f.pc = "c_loop" /\ f.left = call[t].left
      /\ ~call[t].clear => f = NoCall
  BY AfterCalls DEF CallsInv
<1> HIDE DEF f
<1>4. call'[t] = f /\ fOp'[t] = Free!Idle /\ aOp'[t] = aOp[t]
  BY <1>2, Frames DEF allocVars
<1>5. (\A i \in Indexes : Held(i)' <=> Held(i)) /\ HeldOnce'
  BY <1>1, <1>2, <1>3, <1>4, HeldRests DEF SteadyInv, RingsInv
<1>6. /\ FreeRing!RingSound' /\ AllocRing!RingSound'
      /\ \A i \in Indexes : (HasFree(i)' <=> HasFree(i)) /\ (HasAlloc(i)' <=> HasAlloc(i))
  BY <1>2, <1>5, FreeReturned DEF SteadyInv, RingsInv
<1>7. SlotsInv'
  <2>1. \A i \in Indexes : Filled(i)' <=> Filled(i)
    BY <1>1, <1>2, <1>3, <1>4, <1>6 DEF Filled, OnlyOne
  <2> QED
    BY <1>2, <2>1, SlotsRest DEF SteadyInv
<1>8. ElementsInv'
  <2>1. \A u \in Threads, x \in Elements : Gives(u, x)' <=> Gives(u, x)
    BY <1>1, <1>2, <1>3, <1>4 DEF Gives, OnlyOne
  <2> QED
    BY <1>2, <2>1, ElementsRest DEF SteadyInv
<1> QED
  BY <1>5, <1>6, <1>7, <1>8 DEF SteadyInv, RingsInv

-----------------------------------------------------------------------------
(* by clear(),                                                               *)

\* clear() finds as many elements to dequeue as the counters are apart.
LEMMA ClearBeginKept ==
  ASSUME CallsInv, SteadyInv, NEW t \in Threads, ClearBegin(t), SteadyViews'
  PROVE  SteadyInv'
<1> DEFINE f == [NoCall EXCEPT !.pc = "c_loop", !.clear = TRUE, !.left = size]
<1>1. OnlyOne(t)
  BY Turn DEF CallStep
<1>2. /\ \A u \in Threads : call[u] = NoCall
      /\ Now(t, f) /\ storage' = storage /\ UNCHANGED freeVars /\ UNCHANGED allocVars
      /\ fate' = fate /\ fOp' = fOp /\ aOp' = aOp /\ aHead' = aHead /\ aTail' = aTail
  BY DEF ClearBegin, freeVars, allocVars
<1>3. /\ f \in CallType /\ f.pc = "c_loop" /\ f.clear = TRUE /\ f.left = size
      /\ NoCall.pc = "idle" /\ NoCall.clear = FALSE
  BY Counters DEF NoCall, CallType, CallPcs
<1> HIDE DEF f
<1>4. call'[t] = f
  BY <1>2, Frames
<1>5. (\A i \in Indexes : Held(i)' <=> Held(i)) /\ HeldOnce'
  BY <1>1, <1>2, <1>3, <1>4, HeldRests DEF SteadyInv, RingsInv
<1>6. /\ FreeRing!RingSound' /\ AllocRing!RingSound'
      /\ \A i \in Indexes : HasAlloc(i)' <=> HasAlloc(i)
  <2>1. FreePool' = FreePool => FreeRing!RingSound'
    BY <1>2, FreeRests DEF SteadyInv, RingsInv
  <2> QED
    BY <1>2, <1>5, <2>1, FreeAlone DEF SteadyInv, RingsInv
<1>7. SlotsInv'
  <2>1. \A i \in Indexes : Filled(i)' <=> Filled(i)
    BY <1>1, <1>2, <1>3, <1>4, <1>6 DEF Filled, OnlyOne
  <2> QED
    BY <1>2, <2>1, SlotsRest DEF SteadyInv
<1>8. ElementsInv'
  <2>1. \A u \in Threads, x \in Elements : Gives(u, x)' <=> Gives(u, x)
    BY <1>1, <1>2, <1>3, <1>4 DEF Gives, OnlyOne
  <2> QED
    BY <1>2, <2>1, ElementsRest DEF SteadyInv
<1> QED
  BY <1>5, <1>6, <1>7, <1>8 DEF SteadyInv, RingsInv

\* One of the dequeues of clear(), which still has its ticket to draw.
LEMMA ClearDequeueKept ==
  ASSUME CallsInv, SteadyInv, NEW t \in Threads, ClearDequeue(t), SteadyViews'
  PROVE  SteadyInv'
<1> DEFINE n == call[t].left - 1
           f == [call[t] EXCEPT !.pc = "d_alloc", !.left = n]
           g == Alloc!Frame("D_ticket", Invalid)
<1>0. call[t] \in CallType
  BY DEF CallsInv, Typed
<1>1. OnlyOne(t)
  BY Turn DEF CallStep
<1>2. /\ call[t].pc = "c_loop" /\ call[t].left > 0 /\ Now(t, f)
      /\ Alloc!CallDequeue(t, FALSE) /\ Alloc!Become(t, g) /\ storage' = storage
      /\ UNCHANGED <<aHead, aTail>> /\ UNCHANGED freeVars /\ fate' = fate
  BY DEF ClearDequeue, Alloc!CallDequeue
<1>3. /\ f \in CallType /\ f.pc = "d_alloc" /\ f.clear = call[t].clear /\ f.left = n
      /\ call[t].left = n + 1 /\ n \in Nat
  <2>1. call[t].left \in Nat
    BY <1>0 DEF CallType
  <2>2. n \in Nat /\ call[t].left = n + 1
    BY <1>2, <2>1
  <2> HIDE DEF n
  <2> QED
    BY <1>0, <2>2 DEF CallType, CallPcs
<1> HIDE DEF f, g, n
<1>4. call'[t] = f /\ aOp'[t] = g /\ fOp'[t] = fOp[t]
  BY <1>2, Frames DEF freeVars
<1>5. (\A i \in Indexes : Held(i)' <=> Held(i)) /\ HeldOnce'
  BY <1>1, <1>2, <1>3, <1>4, HeldRests DEF SteadyInv, RingsInv
<1>6. /\ FreeRing!RingSound' /\ AllocRing!RingSound'
      /\ \A i \in Indexes : (HasFree(i)' <=> HasFree(i)) /\ (HasAlloc(i)' <=> HasAlloc(i))
  BY <1>2, <1>5, AllocDequeueCalled DEF SteadyInv, RingsInv
<1>7. SlotsInv'
  <2>1. \A i \in Indexes : Filled(i)' <=> Filled(i)
    BY <1>1, <1>2, <1>3, <1>4, <1>6 DEF Filled, OnlyOne
  <2> QED
    BY <1>2, <2>1, SlotsRest DEF SteadyInv
<1>8. ElementsInv'
  <2>1. \A u \in Threads, x \in Elements : Gives(u, x)' <=> Gives(u, x)
    BY <1>1, <1>2, <1>3, <1>4 DEF Gives, OnlyOne
  <2> QED
    BY <1>2, <2>1, ElementsRest DEF SteadyInv
<1> QED
  BY <1>5, <1>6, <1>7, <1>8 DEF SteadyInv, RingsInv

\* When the loop of clear() ends nothing is in the queue.
LEMMA Drained ==
  ASSUME CallsInv, SteadyInv, NEW t \in Threads, call[t].pc = "c_loop", call[t].left = 0
  PROVE  /\ aTail <= aHead /\ \A u \in Threads : fOp[u] = Free!Idle /\ aOp[u] = Alloc!Idle
         /\ \A i \in Indexes : ~HasAlloc(i) /\ ~Held(i) /\ storage[i] = Raw
<1>1. aTail <= aHead
  BY Finished
<1>2. \A u \in Threads : fOp[u] = Free!Idle /\ aOp[u] = Alloc!Idle
                         /\ call[u].pc \in {"idle", "c_loop"}
  BY Finished
<1>3. \A u \in Threads : aOp[u].pc \notin AllocRing!TicketPcs
  BY <1>2, RingFrames DEF AllocRing!TicketPcs
<1>4. \A v \in AllocRing!Values : \A i : ~AllocRing!InCell(v, i)
  BY <1>1, <1>3, AllocRing!DrainedIsEmpty, NAssumption, BoundAssumption, WordAssumption
     DEF SteadyInv, RingsInv, Values, AllocRing!Values
<1>5. \A i \in Indexes : ~HasAlloc(i)
  BY <1>2, <1>4, RingFrames DEF HasAlloc, Alloc!EnqueuePcs, AllocRing!InCell, AllocRing!Values,
     Indexes
<1>6. \A i \in Indexes : ~Held(i)
  BY <1>2 DEF Held, Holds
<1>7. \A i \in Indexes : storage[i] = Raw
  BY <1>2, <1>5 DEF SteadyInv, SlotsInv, Filled
<1> QED
  BY <1>1, <1>2, <1>5, <1>6, <1>7

\* A full ring of free elements and a cleared one of allocated elements are sound.
LEMMA NewRings ==
  ASSUME Free!InitFull, Alloc!InitCleared, \A i \in Indexes : ~Held(i)
  PROVE  /\ FreeRing!RingSound /\ AllocRing!RingSound
         /\ \A i \in Indexes : ~HasAlloc(i) /\ HasFree(i)
<1>1. FreeRing!InitFull /\ AllocRing!InitCleared
  BY Zenon DEF Free!InitFull, FreeRing!InitFull, Free!FullCells, FreeRing!FullCells, Free!Idle,
     FreeRing!Idle, Free!Frame, FreeRing!Frame, Alloc!InitCleared, AllocRing!InitCleared,
     Alloc!ClearedCells, AllocRing!ClearedCells, Alloc!Idle, AllocRing!Idle, Alloc!Frame,
     AllocRing!Frame
<1>2. \A u \in Threads : aOp[u].pc = "idle"
  BY RingFrames DEF Alloc!InitCleared
<1>3. \A i \in Indexes : aCell[i].value = Invalid /\ fCell[i].value = i
  BY DEF Alloc!InitCleared, Alloc!ClearedCells, Free!InitFull, Free!FullCells, Indexes
<1>4. \A i \in Indexes : ~HasAlloc(i) /\ HasFree(i)
  BY <1>2, <1>3, WordAssumption DEF HasAlloc, HasFree, Alloc!EnqueuePcs, Indexes, Values
<1>5. FreePool = {} /\ AllocPool = AllocRing!Values
  BY <1>4 DEF FreePool, AllocPool, Indexes, AllocRing!Values
<1>6. FreeRing!New /\ AllocRing!New
  BY <1>1, <1>5 DEF FreeRing!New, AllocRing!New
<1>7. FreeRing!RingSound
  BY <1>6, FreeRing!NewIsSound, NAssumption, BoundAssumption, WordAssumption
     DEF Values, FreeRing!Values
<1>8. AllocRing!RingSound
  BY <1>6, AllocRing!NewIsSound, NAssumption, BoundAssumption, WordAssumption
     DEF Values, AllocRing!Values
<1> QED
  BY <1>4, <1>7, <1>8

NewRing == Free!InitFull /\ Alloc!InitCleared /\ \A i \in Indexes : ~Held(i)
NewSound == /\ FreeRing!RingSound /\ AllocRing!RingSound
            /\ \A i \in Indexes : ~HasAlloc(i) /\ HasFree(i)
\* After a step as before it.
LEMMA RenewedRings == NewRing' => NewSound'
<1>1. NewRing => NewSound
  BY NewRings DEF NewRing, NewSound
<1> QED
  BY <1>1, PTL

\* The rings are new again, and nothing was in the queue that they could forget.
LEMMA ClearEndKept ==
  ASSUME CallsInv, SteadyInv, NEW t \in Threads, ClearEnd(t), SteadyViews'
  PROVE  SteadyInv'
<1>1. OnlyOne(t)
  BY Turn DEF CallStep
<1>2. /\ call[t].pc = "c_loop" /\ call[t].left = 0 /\ Now(t, NoCall)
      /\ Alloc!Clear /\ Free!Full /\ storage' = storage /\ fate' = fate
      /\ fOp' = fOp /\ aOp' = aOp
  BY DEF ClearEnd, Alloc!Clear, Free!Full
<1>3. call'[t] = NoCall /\ call'[t].pc = "idle" /\ ~call'[t].clear /\ call[t] # NoCall
  BY <1>2, Frames, NewCalls
<1>4. /\ \A u \in Threads : fOp[u] = Free!Idle /\ aOp[u] = Alloc!Idle
      /\ \A i \in Indexes : ~HasAlloc(i) /\ ~Held(i) /\ storage[i] = Raw
  BY <1>2, Drained
<1>5. fOp = [u \in Threads |-> Free!Idle] /\ aOp = [u \in Threads |-> Alloc!Idle]
  <2>1. fOp \in [Threads -> FreeRing!Good] /\ aOp \in [Threads -> AllocRing!Good]
    BY DEF SteadyInv, RingsInv, FreeRing!RingSound, AllocRing!RingSound, FreeRing!RingInv,
       AllocRing!RingInv
  <2> QED
    BY <1>4, <2>1
<1>6. (\A i \in Indexes : ~Held(i)') /\ HeldOnce'
  BY <1>1, <1>2, <1>3, <1>4, HeldRests DEF SteadyInv, RingsInv
<1>7. NewSound'
  <2>1. NewRing'
    BY <1>2, <1>5, <1>6 DEF NewRing, Free!Full, Free!InitFull, Alloc!Clear, Alloc!InitCleared
  <2> QED
    BY <2>1, RenewedRings
<1>8. SlotsInv'
  <2>1. \A u \in Threads : call'[u].pc # "d_move"
    BY <1>1, <1>2, <1>3, Alone DEF OnlyOne, CallsInv, Agrees
  <2>2. \A i \in Indexes : ~Filled(i)'
    BY <1>7, <2>1 DEF NewSound, Filled
  <2> QED
    BY <1>2, <1>4, <2>2 DEF SlotsInv
<1>9. ElementsInv'
  <2>1. \A u \in Threads, x \in Elements : Gives(u, x)' <=> Gives(u, x)
    BY <1>1, <1>2, <1>3 DEF Gives, OnlyOne
  <2> QED
    BY <1>2, <2>1, ElementsRest DEF SteadyInv
<1> QED
  BY <1>6, <1>7, <1>8, <1>9 DEF SteadyInv, RingsInv, NewSound

-----------------------------------------------------------------------------
(* and by the steps of the calls in the rings.                               *)

\* A step in one ring changes the call in that ring only.
LEMMA RingWorkKept ==
  ASSUME CallsInv, SteadyInv, NEW t \in Threads, RingWork(t), SteadyViews'
  PROVE  SteadyInv'
<1>1. /\ storage' = storage /\ call' = call /\ fate' = fate
      /\ \/ Free!RingStep(t) /\ UNCHANGED allocVars
         \/ Alloc!RingStep(t) /\ UNCHANGED freeVars
  BY DEF RingWork
<1>2. (\A i \in Indexes : Held(i)' <=> Held(i)) /\ HeldOnce'
  BY <1>1 DEF Held, Holds, HeldOnce, SteadyInv, RingsInv
<1>3. /\ FreeRing!RingSound' /\ AllocRing!RingSound'
      /\ \A i \in Indexes : HasAlloc(i)' <=> HasAlloc(i)
  <2>1. CASE Free!RingStep(t) /\ UNCHANGED allocVars
    BY <1>2, <2>1, FreeWorks DEF SteadyInv, RingsInv
  <2>2. CASE Alloc!RingStep(t) /\ UNCHANGED freeVars
    BY <1>2, <2>2, AllocWorks DEF SteadyInv, RingsInv
  <2> QED
    BY <1>1, <2>1, <2>2
<1>4. SlotsInv'
  <2>1. \A i \in Indexes : Filled(i)' <=> Filled(i)
    BY <1>1, <1>3 DEF Filled
  <2> QED
    BY <1>1, <2>1, SlotsRest DEF SteadyInv
<1>5. ElementsInv'
  <2>1. \A u \in Threads, x \in Elements : Gives(u, x)' <=> Gives(u, x)
    BY <1>1 DEF Gives
  <2> QED
    BY <1>1, <2>1, ElementsRest DEF SteadyInv
<1> QED
  BY <1>2, <1>3, <1>4, <1>5 DEF SteadyInv, RingsInv

-----------------------------------------------------------------------------
(* The invariant holds.                                                      *)

\* A new queue.
LEMMA InitInv == lockFreeInit => IInv
<1> SUFFICES ASSUME lockFreeInit PROVE IInv
  OBVIOUS
<1>1. /\ Free!InitFull /\ Alloc!InitCleared /\ storage = [i \in Indexes |-> Raw]
      /\ call = [t \in Threads |-> NoCall] /\ fate = [e \in Elements |-> "unsent"]
      /\ tornViews = FALSE
  BY DEF lockFreeInit
<1>2. \A t \in Threads : call[t] = NoCall /\ call[t].pc = "idle" /\ ~call[t].clear
  BY <1>1, NewCalls
<1>3. \A t \in Threads : fOp[t] = Free!Idle /\ aOp[t] = Alloc!Idle
                         /\ fOp[t].pc = "idle" /\ aOp[t].pc = "idle"
  BY <1>1, RingFrames DEF Free!InitFull, Alloc!InitCleared
<1>4. Typed
  BY <1>1, NewCalls DEF Typed
<1>5. \A t \in Threads : Agrees(t)
  BY <1>2, <1>3 DEF Agrees
<1>6. (\A i \in Indexes : ~Held(i)) /\ HeldOnce
  BY <1>2 DEF Held, Holds, HeldOnce
<1>7. /\ FreeRing!RingSound /\ AllocRing!RingSound
      /\ \A i \in Indexes : ~HasAlloc(i)
  BY <1>1, <1>6, NewRings
<1>8. SteadyViews
  BY <1>3 DEF SteadyViews
<1>9. SlotsInv
  BY <1>1, <1>2, <1>7 DEF SlotsInv, Filled
<1>10. ElementsInv
  BY <1>1, <1>2, RawAssumption DEF ElementsInv, Gives
<1>11. ClearInv
  BY <1>2 DEF ClearInv
<1>12. RingTypes
  BY <1>7 DEF RingTypes, FreeRing!RingSound, AllocRing!RingSound
<1>13. CallsInv
  BY <1>4, <1>5, <1>11, <1>12 DEF CallsInv
<1>14. SteadyInv
  BY <1>6, <1>7, <1>8, <1>9, <1>10 DEF SteadyInv, RingsInv
<1> QED
  BY <1>1, <1>13, <1>14 DEF IInv

\* Every step of a call leaves the calls in order, torn views or not,
LEMMA CallsKept ==
  ASSUME CallsInv, NEW t \in Threads, CallStep(t)
  PROVE  CallsInv'
<1>1. CASE \E e \in Elements : Enqueue(t, e)
  BY <1>1, EnqueueCalled
<1>2. CASE EnqueueRefused(t) \/ EnqueueGotSlot(t) \/ EnqueueSet(t) \/ EnqueueReturn(t)
  BY <1>2, EnqueueRefusedCalled, EnqueueGotSlotCalled, EnqueueSetCalled, EnqueueReturnCalled
<1>3. CASE Dequeue(t) \/ DequeueNothing(t) \/ DequeueGotSlot(t) \/ DequeueMove(t)
           \/ DequeueReturn(t)
  BY <1>3, DequeueCalled, DequeueNothingCalled, DequeueGotSlotCalled, DequeueMoveCalled,
     DequeueReturnCalled
<1>4. CASE ClearBegin(t) \/ ClearDequeue(t) \/ ClearEnd(t)
  BY <1>4, ClearBeginCalled, ClearDequeueCalled, ClearEndCalled
<1>5. CASE RingWork(t)
  BY <1>5, RingWorkCalled
<1> QED
  BY <1>1, <1>2, <1>3, <1>4, <1>5 DEF CallStep

\* and slots and elements too if it leaves no dequeuer with a torn view.
LEMMA SlotsKept ==
  ASSUME CallsInv, SteadyInv, NEW t \in Threads, CallStep(t), SteadyViews'
  PROVE  SteadyInv'
<1>1. CASE \E e \in Elements : Enqueue(t, e)
  BY <1>1, EnqueueKept
<1>2. CASE EnqueueRefused(t) \/ EnqueueGotSlot(t) \/ EnqueueSet(t) \/ EnqueueReturn(t)
  BY <1>2, EnqueueRefusedKept, EnqueueGotSlotKept, EnqueueSetKept, EnqueueReturnKept
<1>3. CASE Dequeue(t) \/ DequeueNothing(t) \/ DequeueGotSlot(t) \/ DequeueMove(t)
           \/ DequeueReturn(t)
  BY <1>3, DequeueKept, DequeueNothingKept, DequeueGotSlotKept, DequeueMoveKept,
     DequeueReturnKept
<1>4. CASE ClearBegin(t) \/ ClearDequeue(t) \/ ClearEnd(t)
  BY <1>4, ClearBeginKept, ClearDequeueKept, ClearEndKept
<1>5. CASE RingWork(t)
  BY <1>5, RingWorkKept
<1> QED
  BY <1>1, <1>2, <1>3, <1>4, <1>5 DEF CallStep

\* Every step keeps the invariant, and so does standing still.
LEMMA NextKept ==
  ASSUME IInv, [lockFreeNext]_lockFreeVars
  PROVE  IInv'
<1>1. CASE lockFreeNext
  <2>1. PICK t \in Threads : CallStep(t)
    BY <1>1 DEF lockFreeNext
  <2>2. tornViews' \in BOOLEAN /\ (~tornViews' => ~tornViews /\ SteadyViews')
    BY <1>1 DEF lockFreeNext
  <2>3. CallsInv'
    BY <2>1, CallsKept DEF IInv
  <2>4. ~tornViews' => SteadyInv'
    BY <2>1, <2>2, SlotsKept DEF IInv
  <2> QED
    BY <2>2, <2>3, <2>4 DEF IInv
<1>2. CASE UNCHANGED lockFreeVars
  <2>1. /\ fOp' = fOp /\ aOp' = aOp /\ storage' = storage /\ call' = call /\ fate' = fate
        /\ aHead' = aHead /\ aTail' = aTail /\ fCell' = fCell /\ aCell' = aCell
        /\ fHead' = fHead /\ fTail' = fTail /\ tornViews' = tornViews
        /\ UNCHANGED freeVars /\ UNCHANGED allocVars
    BY <1>2 DEF lockFreeVars, freeVars, allocVars
  <2>2. \A i \in Indexes : (Held(i)' <=> Held(i)) /\ (HasAlloc(i)' <=> HasAlloc(i))
                           /\ (HasFree(i)' <=> HasFree(i))
    BY <2>1 DEF Held, Holds, HasAlloc, HasFree
  <2>3. FreePool' = FreePool /\ AllocPool' = AllocPool
    BY <2>2 DEF FreePool, AllocPool
  <2>4. CallsInv'
    BY <2>1 DEF IInv, CallsInv, RingTypes, FreeRing!RingInv, AllocRing!RingInv,
       AllocRing!RaisesToHead, Typed, Agrees, ClearInv
  <2>5. SteadyInv => SteadyInv'
    <3> SUFFICES ASSUME SteadyInv PROVE SteadyInv'
      OBVIOUS
    <3>1. FreeRing!RingSound' /\ AllocRing!RingSound'
      BY <2>1, <2>3, FreeRests, AllocRests DEF SteadyInv, RingsInv
    <3>2. SteadyViews' /\ HeldOnce'
      BY <2>1 DEF SteadyInv, RingsInv, SteadyViews, Free!Pos, Alloc!Pos, HeldOnce, Holds
    <3>3. SlotsInv' /\ ElementsInv'
      BY <2>1, <2>2 DEF SteadyInv, SlotsInv, Filled, ElementsInv, Gives
    <3> QED
      BY <3>1, <3>2, <3>3 DEF SteadyInv, RingsInv
  <2> QED
    BY <2>1, <2>4, <2>5 DEF IInv
<1> QED
  BY <1>1, <1>2

\* The invariant of the queue.
THEOREM Invariance == lockFreeSpec => []IInv
BY InitInv, NextKept, PTL DEF lockFreeSpec

-----------------------------------------------------------------------------
(* What follows.                                                             *)

\* Every variable of the queue and of its two rings keeps its type, through
\* every call of enqueue(), dequeue() and clear(), torn views included.
THEOREM LockFreeTypes == lockFreeSpec => []lockFreeTypeOK
<1>1. IInv => lockFreeTypeOK
  <2> SUFFICES ASSUME IInv PROVE lockFreeTypeOK
    OBVIOUS
  <2>1. FreeRing!RingInv /\ AllocRing!RingInv
    BY DEF IInv, CallsInv, RingTypes
  <2>2. Free!RingTypeOK
    BY <2>1 DEF FreeRing!RingInv, FreeRing!Good, FreeRing!Frames, FreeRing!Cells, FreeRing!Words,
       FreeRing!Pcs, Free!RingTypeOK, Free!EnqueuePcs, Free!DequeuePcs, FreeRing!EnqueuePcs,
       FreeRing!DequeuePcs, Values, Free!Values, FreeRing!Values
  <2>3. Alloc!RingTypeOK
    BY <2>1 DEF AllocRing!RingInv, AllocRing!Good, AllocRing!Frames, AllocRing!Cells,
       AllocRing!Words, AllocRing!Pcs, Alloc!RingTypeOK, Alloc!EnqueuePcs, Alloc!DequeuePcs,
       AllocRing!EnqueuePcs, AllocRing!DequeuePcs, Values, Alloc!Values,
       AllocRing!Values
  <2> QED
    BY <2>2, <2>3 DEF IInv, CallsInv, Typed, CallType, CallPcs, lockFreeTypeOK
<1> QED
  BY <1>1, Invariance, PTL

\* A thread's call in a ring has the index.
FreeCarries(t, i) == fOp[t].pc \in Free!EnqueuePcs \cup {"D_done"} /\ fOp[t].arg = i
AllocCarries(t, i) == aOp[t].pc \in Alloc!EnqueuePcs \cup {"D_done"} /\ aOp[t].arg = i

\* The size of a set with at most one element.
LEMMA OneOrNone ==
  ASSUME NEW S, \A x, y \in S : x = y
  PROVE  Cardinality(S) = (IF S = {} THEN 0 ELSE 1)
<1>1. CASE S = {}
  BY <1>1, FS_EmptySet
<1>2. CASE S # {}
  <2>1. PICK x \in S : TRUE
    BY <1>2
  <2>2. S = {x}
    BY <2>1
  <2> QED
    BY <1>2, <2>2, FS_Singleton
<1> QED
  BY <1>1, <1>2

\* An index is in one cell, or in one call, or with one thread.
LEMMA OnePlace ==
  ASSUME SteadyInv, NEW i \in Indexes
  PROVE  Cardinality(InFree(i)) + Cardinality(InAlloc(i)) + Cardinality(Owners(i)) = 1
<1>1. /\ HasFree(i) <=> ~(Held(i) \/ HasAlloc(i))
      /\ HasAlloc(i) <=> ~(Held(i) \/ HasFree(i))
  BY FreeOutside, AllocOutside DEF SteadyInv, RingsInv, FreePool, AllocPool
<1>2. /\ \A c, d \in InFree(i) : c = d
      /\ \A t, u \in Threads : FreeCarries(t, i) /\ FreeCarries(u, i) => t = u
      /\ (\E t \in Threads : FreeCarries(t, i)) => InFree(i) = {}
  <2>1. FreeRing!Placed(i)
    BY DEF SteadyInv, RingsInv, FreeRing!RingSound, FreeRing!Values, Indexes
  <2>2. \A t \in Threads : FreeRing!Carries(t, i) <=> FreeCarries(t, i)
    BY DEF FreeRing!Carries, FreeCarries, Free!EnqueuePcs, FreeRing!EnqueuePcs
  <2>3. \A c : FreeRing!InCell(i, c) <=> c \in InFree(i)
    BY DEF FreeRing!InCell, InFree, Indexes
  <2> QED
    BY <2>1, <2>2, <2>3 DEF FreeRing!Placed, FreeRing!OneCarrier, FreeRing!OneCell
<1>3. /\ \A c, d \in InAlloc(i) : c = d
      /\ \A t, u \in Threads : AllocCarries(t, i) /\ AllocCarries(u, i) => t = u
      /\ (\E t \in Threads : AllocCarries(t, i)) => InAlloc(i) = {}
  <2>1. AllocRing!Placed(i)
    BY DEF SteadyInv, RingsInv, AllocRing!RingSound, AllocRing!Values, Indexes
  <2>2. \A t \in Threads : AllocRing!Carries(t, i) <=> AllocCarries(t, i)
    BY DEF AllocRing!Carries, AllocCarries, Alloc!EnqueuePcs, AllocRing!EnqueuePcs
  <2>3. \A c : AllocRing!InCell(i, c) <=> c \in InAlloc(i)
    BY DEF AllocRing!InCell, InAlloc, Indexes
  <2> QED
    BY <2>1, <2>2, <2>3 DEF AllocRing!Placed, AllocRing!OneCarrier, AllocRing!OneCell
<1>4. /\ HasFree(i) <=> (\E t \in Threads : FreeCarries(t, i)) \/ InFree(i) # {}
      /\ HasAlloc(i) <=> (\E t \in Threads : AllocCarries(t, i)) \/ InAlloc(i) # {}
  BY DEF HasFree, HasAlloc, FreeCarries, AllocCarries, InFree, InAlloc
<1>5. \A t : t \in Owners(i) <=>
               t \in Threads /\ (Holds(t, i) \/ FreeCarries(t, i) \/ AllocCarries(t, i))
  BY DEF Owners, Holds, FreeCarries, AllocCarries
<1>6. \A t, u \in Owners(i) : t = u
  BY <1>1, <1>2, <1>3, <1>4, <1>5 DEF Held, SteadyInv, RingsInv, HeldOnce
<1>7. /\ Cardinality(InFree(i)) = (IF InFree(i) = {} THEN 0 ELSE 1)
      /\ Cardinality(InAlloc(i)) = (IF InAlloc(i) = {} THEN 0 ELSE 1)
      /\ Cardinality(Owners(i)) = (IF Owners(i) = {} THEN 0 ELSE 1)
  <2>1. Cardinality(InFree(i)) = (IF InFree(i) = {} THEN 0 ELSE 1)
    BY <1>2, OneOrNone
  <2>2. Cardinality(InAlloc(i)) = (IF InAlloc(i) = {} THEN 0 ELSE 1)
    BY <1>3, OneOrNone
  <2>3. Cardinality(Owners(i)) = (IF Owners(i) = {} THEN 0 ELSE 1)
    BY <1>6, OneOrNone
  <2> QED
    BY <2>1, <2>2, <2>3
<1>8. \/ InFree(i) # {} /\ InAlloc(i) = {} /\ Owners(i) = {}
      \/ InFree(i) = {} /\ InAlloc(i) # {} /\ Owners(i) = {}
      \/ InFree(i) = {} /\ InAlloc(i) = {} /\ Owners(i) # {}
  <2>1. CASE Held(i)
    BY <1>1, <1>4, <1>5, <2>1 DEF Held
  <2>2. CASE HasFree(i)
    BY <1>1, <1>2, <1>4, <1>5, <2>2 DEF Held
  <2>3. CASE HasAlloc(i)
    BY <1>1, <1>3, <1>4, <1>5, <2>3 DEF Held
  <2> QED
    BY <1>1, <2>1, <2>2, <2>3
<1> QED
  BY <1>7, <1>8

\* An element on its way is with one call or in one slot.
LEMMA OneHome ==
  ASSUME SteadyInv, NEW e \in Elements, fate[e] = "sent"
  PROVE  Cardinality({t \in Threads : call[t].pc \in {"e_free", "e_set"} /\ call[t].elem = e})
           + Cardinality({i \in Indexes : storage[i] = e}) = 1
<1> DEFINE G == {t \in Threads : call[t].pc \in {"e_free", "e_set"} /\ call[t].elem = e}
           S == {i \in Indexes : storage[i] = e}
<1>1. \A t : t \in G <=> t \in Threads /\ Gives(t, e)
  BY DEF Gives
<1>2. \A i : i \in S <=> i \in Indexes /\ storage[i] = e
  OBVIOUS
<1> HIDE DEF G, S
<1>3. /\ \A t, u \in G : t = u
      /\ \A i, j \in S : i = j
      /\ G # {} \/ S # {}
      /\ G = {} \/ S = {}
  BY <1>1, <1>2 DEF SteadyInv, ElementsInv
<1>4. Cardinality(G) = (IF G = {} THEN 0 ELSE 1)
  BY <1>3, OneOrNone
<1>5. Cardinality(S) = (IF S = {} THEN 0 ELSE 1)
  BY <1>3, OneOrNone
<1>6. Cardinality(G) + Cardinality(S) = 1
  BY <1>3, <1>4, <1>5
<1> QED
  BY <1>6 DEF G, S

\* As long as no dequeuer of a ring has found the index word of its cell changed
\* when it loaded the value, no interleaving of enqueue(), dequeue() and clear()
\* loses a slot, gives one to two threads, or loses or doubles an element that
\* enqueue() accepted, whatever the numbers of threads, slots and elements.
THEOREM QueueIsConserved == lockFreeSpec => []QueueConserves
<1>1. IInv => QueueConserves
  BY OnePlace, OneHome DEF IInv, QueueConserves, IndexConservation, ElementConservation
<1> QED
  BY <1>1, Invariance, PTL

\* On the same condition enqueue() constructs its value in a slot without one,
\* and dequeue() moves a value out of a slot that has one.
THEOREM SlotsAreDisciplined == lockFreeSpec => []SlotDiscipline
<1>1. IInv => SlotDiscipline
  <2> SUFFICES ASSUME CallsInv, SteadyInv, NEW t \in Threads
               PROVE  /\ call[t].pc = "e_set" => storage[call[t].index] = Raw
                      /\ call[t].pc = "d_move" => storage[call[t].index] # Raw
    BY DEF IInv, SlotDiscipline
  <2>1. ASSUME call[t].pc = "e_set" PROVE storage[call[t].index] = Raw
    <3>1. PICK i \in Indexes : i = call[t].index
      BY <2>1 DEF CallsInv, Agrees
    <3>2. Holds(t, i) /\ Held(i)
      BY <2>1, <3>1 DEF Holds, Held
    <3>3. ~HasAlloc(i)
      BY <3>2, AllocOutside DEF SteadyInv, RingsInv, AllocPool
    <3>4. \A u \in Threads : ~(call[u].pc = "d_move" /\ call[u].index = i)
      BY <2>1, <3>2 DEF Holds, SteadyInv, RingsInv, HeldOnce
    <3> QED
      BY <3>1, <3>3, <3>4 DEF SteadyInv, SlotsInv, Filled
  <2>2. ASSUME call[t].pc = "d_move" PROVE storage[call[t].index] # Raw
    BY <2>2 DEF CallsInv, Agrees, SteadyInv, SlotsInv, Filled
  <2> QED
    BY <2>1, <2>2
<1> QED
  BY <1>1, Invariance, PTL

\* When the loop of clear() ends the counters say that the queue is empty, as its
\* assertion does, torn views or not; and as long as there was no torn view
\* every value it held has been destroyed.
THEOREM ClearEmpties == lockFreeSpec => []ClearDrains
<1>1. IInv => ClearDrains
  <2> SUFFICES ASSUME IInv, NEW t \in Threads, call[t].pc = "c_loop", call[t].left = 0
               PROVE  size = 0 /\ (~tornViews => \A i \in Indexes : storage[i] = Raw)
    BY DEF ClearDrains
  <2>1. aTail <= aHead /\ aHead \in Nat /\ aTail \in Nat
    BY Finished, Counters DEF IInv
  <2>2. size = 0
    BY <2>1 DEF size
  <2> QED
    BY <2>2, Drained DEF IInv
<1> QED
  BY <1>1, Invariance, PTL
=============================================================================
