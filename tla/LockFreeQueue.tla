---------------------------- MODULE LockFreeQueue ----------------------------
(***************************************************************************)
(* zisc/structure/lock_free_queue-inl.hpp: a bounded queue made of storage *)
(* slots and two rings of slot indexes, free_elements_ and                 *)
(* allocated_elements_.  enqueue takes an index out of the first, fills    *)
(* the slot and puts the index in the second; dequeue goes the other way.  *)
(* Both rings are PortableRingBuffer, step by step; between two ring calls *)
(* a thread only touches its own slot.                                     *)
(***************************************************************************)
EXTENDS RingConstants

CONSTANTS
  Elements,  \* the values the clients enqueue, each at most once
  Raw        \* the content of a slot without a constructed value, no element

\* A slot without a value is told from every value.
ASSUME RawAssumption == Raw \notin Elements

VARIABLES
  fHead, fTail, fCell, fOp,  \* free_elements_
  aHead, aTail, aCell, aOp,  \* allocated_elements_
  storage,                   \* elements_: index -> the value in the slot
  call,                      \* thread -> its call on the queue
  fate,                      \* element -> "unsent", "sent", "out" (dequeued),
                             \* or how its enqueue was refused (observer)
  tornViews                  \* so far, some cell's index changed between the two
                             \* loads of a dequeuer (observer, as RingClient's)

Free == INSTANCE PortableRingBuffer
          WITH head <- fHead, tail <- fTail, cell <- fCell, op <- fOp
Alloc == INSTANCE PortableRingBuffer
          WITH head <- aHead, tail <- aTail, cell <- aCell, op <- aOp

freeVars == <<fHead, fTail, fCell, fOp>>
allocVars == <<aHead, aTail, aCell, aOp>>
lockFreeVars == <<fHead, fTail, fCell, fOp, aHead, aTail, aCell, aOp,
          storage, call, fate, tornViews>>

Indexes == 0..(N - 1)
NoCall == [pc |-> "idle", elem |-> Raw, index |-> Invalid,
           clear |-> FALSE, left |-> 0]
\* clear() requires that no other thread uses the queue.
Clearing == \E t \in Threads : call[t].clear
Now(t, f) == call' = [call EXCEPT ![t] = f]

\* setCapacity(cap) on a new queue ends in clear(): every index is free.
lockFreeInit ==
  /\ Free!InitFull /\ Alloc!InitCleared
  /\ storage = [i \in Indexes |-> Raw]
  /\ call = [t \in Threads |-> NoCall]
  /\ fate = [e \in Elements |-> "unsent"]
  /\ tornViews = FALSE

-----------------------------------------------------------------------------
(* enqueue(args)                                                           *)

Enqueue(t, e) ==
  /\ call[t] = NoCall /\ ~Clearing /\ fate[e] = "unsent"
  /\ Free!CallDequeue(t, TRUE)
  /\ Now(t, [NoCall EXCEPT !.pc = "e_free", !.elem = e])
  /\ fate' = [fate EXCEPT ![e] = "sent"]
  /\ UNCHANGED <<allocVars, storage>>

\* The index says what to do: overflowIndex() throws OverflowError with the
\* value inside, invalidIndex() ends the call without a value or an error.
EnqueueRefused(t) ==
  /\ call[t].pc = "e_free" /\ fOp[t].pc = "D_done" /\ fOp[t].arg \notin Indexes
  /\ Free!Return(t)
  /\ fate' = [fate EXCEPT ![call[t].elem] =
                IF fOp[t].arg = Overflow THEN "overflow" ELSE "nullopt"]
  /\ Now(t, NoCall)
  /\ UNCHANGED <<allocVars, storage>>

EnqueueGotSlot(t) ==
  /\ call[t].pc = "e_free" /\ fOp[t].pc = "D_done" /\ fOp[t].arg \in Indexes
  /\ Free!Return(t)
  /\ Now(t, [call[t] EXCEPT !.pc = "e_set", !.index = fOp[t].arg])
  /\ UNCHANGED <<allocVars, storage, fate>>

EnqueueSet(t) ==
  /\ call[t].pc = "e_set"
  /\ storage' = [storage EXCEPT ![call[t].index] = call[t].elem]
  /\ Alloc!CallEnqueue(t, call[t].index)
  /\ Now(t, [call[t] EXCEPT !.pc = "e_alloc"])
  /\ UNCHANGED <<freeVars, fate>>

EnqueueReturn(t) ==
  /\ call[t].pc = "e_alloc" /\ aOp[t].pc = "E_done"
  /\ Alloc!Return(t)
  /\ Now(t, NoCall)
  /\ UNCHANGED <<freeVars, storage, fate>>

-----------------------------------------------------------------------------
(* dequeue(), which clear() also calls                                     *)

Dequeue(t) ==
  /\ call[t] = NoCall /\ ~Clearing
  /\ Alloc!CallDequeue(t, FALSE)
  /\ Now(t, [NoCall EXCEPT !.pc = "d_alloc"])
  /\ UNCHANGED <<freeVars, storage, fate>>

AfterDequeue(t) ==
  IF call[t].clear
    THEN [NoCall EXCEPT !.pc = "c_loop", !.clear = TRUE, !.left = call[t].left]
    ELSE NoCall

DequeueNothing(t) ==
  /\ call[t].pc = "d_alloc" /\ aOp[t].pc = "D_done" /\ aOp[t].arg \notin Indexes
  /\ Alloc!Return(t)
  /\ Now(t, AfterDequeue(t))
  /\ UNCHANGED <<freeVars, storage, fate>>

DequeueGotSlot(t) ==
  /\ call[t].pc = "d_alloc" /\ aOp[t].pc = "D_done" /\ aOp[t].arg \in Indexes
  /\ Alloc!Return(t)
  /\ Now(t, [call[t] EXCEPT !.pc = "d_move", !.index = aOp[t].arg])
  /\ UNCHANGED <<freeVars, storage, fate>>

\* MUTANT: the slot is given back without being destroyed.
DequeueAlive(t) ==
  /\ call[t].pc = "d_move"
  /\ LET i == call[t].index IN
       /\ fate' = [e \in Elements |-> IF e = storage[i] THEN "out" ELSE fate[e]]
       /\ Free!CallEnqueue(t, i)
  /\ Now(t, [call[t] EXCEPT !.pc = "d_free", !.index = Invalid])
  /\ UNCHANGED <<allocVars, storage>>

\* MUTANT: the index is not given back.
DequeueKeepsSlot(t) ==
  /\ call[t].pc = "d_move"
  /\ LET i == call[t].index IN
       /\ storage' = [storage EXCEPT ![i] = Raw]
       /\ fate' = [e \in Elements |-> IF e = storage[i] THEN "out" ELSE fate[e]]
  /\ Now(t, AfterDequeue(t))
  /\ UNCHANGED <<freeVars, allocVars>>

\* Move the value out, destroy the slot, give the index back.
DequeueMove(t) ==
  /\ call[t].pc = "d_move"
  /\ LET i == call[t].index IN
       /\ storage' = [storage EXCEPT ![i] = Raw]
       /\ fate' = [e \in Elements |-> IF e = storage[i] THEN "out" ELSE fate[e]]
       /\ Free!CallEnqueue(t, i)
  /\ Now(t, [call[t] EXCEPT !.pc = "d_free", !.index = Invalid])
  /\ UNCHANGED <<allocVars>>

DequeueReturn(t) ==
  /\ call[t].pc = "d_free" /\ fOp[t].pc = "E_done"
  /\ Free!Return(t)
  /\ Now(t, AfterDequeue(t))
  /\ UNCHANGED <<allocVars, storage, fate>>

-----------------------------------------------------------------------------
(* clear()                                                                 *)

\* size() of the queue: allocated_elements_.distance().
size == IF aHead < aTail THEN aTail - aHead ELSE 0

\* MUTANT: one element less is dequeued.
ClearBeginShort(t) ==
  /\ \A u \in Threads : call[u] = NoCall
  /\ Now(t, [NoCall EXCEPT !.pc = "c_loop", !.clear = TRUE,
                           !.left = IF size = 0 THEN 0 ELSE size - 1])
  /\ UNCHANGED <<freeVars, allocVars, storage, fate>>

ClearBegin(t) ==
  /\ \A u \in Threads : call[u] = NoCall
  /\ Now(t, [NoCall EXCEPT !.pc = "c_loop", !.clear = TRUE, !.left = size])
  /\ UNCHANGED <<freeVars, allocVars, storage, fate>>

ClearDequeue(t) ==
  /\ call[t].pc = "c_loop" /\ call[t].left > 0
  /\ Alloc!CallDequeue(t, FALSE)
  /\ Now(t, [call[t] EXCEPT !.pc = "d_alloc", !.left = @ - 1])
  /\ UNCHANGED <<freeVars, storage, fate>>

ClearEnd(t) ==
  /\ call[t].pc = "c_loop" /\ call[t].left = 0
  /\ Alloc!Clear /\ Free!Full
  /\ Now(t, NoCall)
  /\ UNCHANGED <<storage, fate>>

-----------------------------------------------------------------------------
RingWork(t) ==
  /\ \/ Free!RingStep(t) /\ UNCHANGED allocVars
     \/ Alloc!RingStep(t) /\ UNCHANGED freeVars
  /\ UNCHANGED <<storage, call, fate>>

CallStep(t) ==
  \/ \E e \in Elements : Enqueue(t, e)
  \/ EnqueueRefused(t) \/ EnqueueGotSlot(t) \/ EnqueueSet(t) \/ EnqueueReturn(t)
  \/ Dequeue(t) \/ DequeueNothing(t) \/ DequeueGotSlot(t) \/ DequeueMove(t)
  \/ DequeueReturn(t)
  \/ ClearBegin(t) \/ ClearDequeue(t) \/ ClearEnd(t)
  \/ RingWork(t)

\* No dequeuer of either ring is between its two loads of a changed cell.
SteadyViews == \A t \in Threads :
  /\ fOp[t].pc = "D_value" => fCell[Free!Pos(t)].node = fOp[t].node
  /\ aOp[t].pc = "D_value" => aCell[Alloc!Pos(t)].node = aOp[t].node

lockFreeNext ==
  /\ \E t \in Threads : CallStep(t)
  /\ tornViews' = (tornViews \/ ~SteadyViews')

lockFreeSpec == lockFreeInit /\ [][lockFreeNext]_lockFreeVars
-----------------------------------------------------------------------------
(* Properties                                                              *)

\* Both rings are well typed and every variable stays in its range.
lockFreeTypeOK ==
  /\ Free!RingTypeOK /\ Alloc!RingTypeOK
  /\ storage \in [Indexes -> Elements \cup {Raw}]
  /\ call \in [Threads ->
       [pc : {"idle", "e_free", "e_set", "e_alloc", "d_alloc", "d_move", "d_free",
              "c_loop"},
        elem : Elements \cup {Raw}, index : Indexes \cup {Invalid},
        clear : BOOLEAN, left : Nat]]
  /\ fate \in [Elements -> {"unsent", "sent", "out", "overflow", "nullopt"}]
  /\ tornViews \in BOOLEAN

\* Where a slot index can be: in a cell of one of the rings, on its way out of
\* or into a ring, or with a thread that works on the slot.
InFree(i) == {c \in Indexes : fCell[c].value = i}
InAlloc(i) == {c \in Indexes : aCell[c].value = i}
Owners(i) == {t \in Threads :
  \/ call[t].pc \in {"e_set", "d_move"} /\ call[t].index = i
  \/ fOp[t].pc \in Free!EnqueuePcs \cup {"D_done"} /\ fOp[t].arg = i
  \/ aOp[t].pc \in Alloc!EnqueuePcs \cup {"D_done"} /\ aOp[t].arg = i}

\* Each index is in the free list, in the allocated list or with one thread.
\* With torn views this is NOT true of the code.
IndexConservation == \A i \in Indexes :
  Cardinality(InFree(i)) + Cardinality(InAlloc(i)) + Cardinality(Owners(i)) = 1

\* As long as no dequeuer of a ring has had a torn view of a cell, enqueue
\* constructs its element in a raw slot (it never overwrites a live one) and
\* dequeue moves out of a constructed one (never of a destroyed one).
SlotDiscipline == ~tornViews => \A t \in Threads :
  /\ call[t].pc = "e_set" => storage[call[t].index] = Raw
  /\ call[t].pc = "d_move" => storage[call[t].index] # Raw

\* An element that was given to enqueue and neither refused nor taken out is in
\* one place, the argument of its call or one slot.
ElementConservation == \A e \in Elements : fate[e] = "sent" =>
  Cardinality({t \in Threads : call[t].pc \in {"e_free", "e_set"} /\ call[t].elem = e})
    + Cardinality({i \in Indexes : storage[i] = e}) = 1

\* As long as no dequeuer of a ring has had a torn view of a cell, the queue
\* loses no slot and no element it accepted, and gives no slot to two users,
\* however else the steps of the calls on its two rings interleave.
QueueConserves == ~tornViews => IndexConservation /\ ElementConservation

\* When the loop of clear() ends, size() has counted down to nothing left (the
\* assertion in clear()) and, as long as no dequeuer of a ring has had a torn
\* view of a cell, no slot holds an undestroyed element that the reset of the
\* two rings would forget.
ClearDrains == \A t \in Threads :
  call[t].pc = "c_loop" /\ call[t].left = 0 =>
    size = 0 /\ (~tornViews => \A i \in Indexes : storage[i] = Raw)

\* enqueue either stores its element or throws OverflowError with it.  NOT true
\* of the code: when the ring finds no index after all, the element is gone.
EnqueueAnswers == \A e \in Elements : fate[e] # "nullopt"
=============================================================================
