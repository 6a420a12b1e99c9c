------------------------- MODULE PortableRingBuffer -------------------------
(***************************************************************************)
(* The lock-free ring of storage indexes of                                *)
(* zisc/structure/portable_ring_buffer-inl.hpp (the LPRQ algorithm), one   *)
(* action per access to shared memory.  All accesses are acquire/release   *)
(* atomics on one word; the model interleaves them.                        *)
(*                                                                         *)
(* The module has no client: LockFreeQueue and RingClient start calls with *)
(* CallEnqueue and CallDequeue, let RingStep(t) run, and Return from the   *)
(* frame of a done call.                                                   *)
(*                                                                         *)
(* A cell is addressed by ticket % N.  The code passes that position       *)
(* through permuteIndex, a bijection on 0..N-1 that only renames cells.    *)
(***************************************************************************)
EXTENDS RingConstants

VARIABLES
  head,  \* the dequeue ticket counter
  tail,  \* the enqueue ticket counter
  cell,  \* position -> the two words of a cell (index word split in its parts)
  op     \* thread -> the frame of its call

ringVars == <<head, tail, cell, op>>

\* getThreadLocalBottom(): a mark of the thread, the hash of its id with the
\* top bit set.  Distinct threads have distinct marks.
Bottom(t) == t
isBottom(v) == v \in Threads
Element(v) == v # Invalid /\ ~isBottom(v)

\* A frame: the argument, and the local variables of the loop.
Frame(pc, arg) ==
  [pc |-> pc, arg |-> arg, ticket |-> 0, node |-> 0, unsafe |-> FALSE,
   value |-> Invalid, attempt |-> 0, tt |-> 0]
Idle == Frame("idle", Invalid)
Enqueued(v) == Frame("E_done", v)
Answer(v) == Frame("D_done", v)

\* Back to the top of a loop: the loaded cell is forgotten.
Forget(f, pc) ==
  [f EXCEPT !.pc = pc, !.node = 0, !.unsafe = FALSE, !.value = Invalid]
\* A dequeuer leaves its ticket's cell without an element.
Leave(f) == [Frame("D_last", Invalid) EXCEPT !.ticket = f.ticket]

Pos(t) == op[t].ticket % N
Become(t, f) == op' = [op EXCEPT ![t] = f]
Goto(t, pc) == Become(t, [op[t] EXCEPT !.pc = pc])

\* The index word still is the one the thread loaded (the test of a CAS).
SameIndex(t) == /\ cell[Pos(t)].node = op[t].node
                /\ cell[Pos(t)].unsafe = op[t].unsafe
SetIndex(t, unsafe, node) ==
  cell' = [cell EXCEPT ![Pos(t)].unsafe = unsafe, ![Pos(t)].node = node]
SetValue(t, v) == cell' = [cell EXCEPT ![Pos(t)].value = v]

-----------------------------------------------------------------------------
(* clear() and full(): the two states a ring starts in.                    *)

ClearedCells == [i \in 0..(N - 1) |->
                   [node |-> i, unsafe |-> FALSE, value |-> Invalid]]
FullCells == [i \in 0..(N - 1) |->
                [node |-> i + N, unsafe |-> FALSE, value |-> i]]

InitCleared == /\ head = 0 /\ tail = 0 /\ cell = ClearedCells
               /\ op = [t \in Threads |-> Idle]
InitFull == /\ head = 0 /\ tail = N /\ cell = FullCells
            /\ op = [t \in Threads |-> Idle]

Clear == head' = 0 /\ tail' = 0 /\ cell' = ClearedCells /\ UNCHANGED op
Full == head' = 0 /\ tail' = N /\ cell' = FullCells /\ UNCHANGED op

-----------------------------------------------------------------------------
(* enqueue(index)                                                          *)

CallEnqueue(t, v) ==
  /\ op[t] = Idle
  /\ Become(t, Frame("E_ticket", v))
  /\ UNCHANGED <<head, tail, cell>>

EnqTicket(t) ==
  /\ op[t].pc = "E_ticket" /\ tail < MaxTicket
  /\ Become(t, [op[t] EXCEPT !.pc = "E_index", !.ticket = tail])
  /\ tail' = tail + 1
  /\ UNCHANGED <<head, cell>>

EnqIndex(t) ==
  /\ op[t].pc = "E_index"
  /\ LET i == cell[Pos(t)] IN
       Become(t, [op[t] EXCEPT !.pc = "E_value", !.node = i.node, !.unsafe = i.unsafe])
  /\ UNCHANGED <<head, tail, cell>>

NewTicket(t) == Become(t, Frame("E_ticket", op[t].arg))

\* MUTANT: any empty cell is taken for the ticket.
VacantAnyTicket(t, v) == v = Invalid
\* The cell is usable when it is empty and its index is not beyond the ticket.
Vacant(t, v) == v = Invalid /\ op[t].node <= op[t].ticket

EnqValue(t) ==
  /\ op[t].pc = "E_value"
  /\ LET v == cell[Pos(t)].value IN
       \/ Vacant(t, v) /\ ~op[t].unsafe /\ Goto(t, "E_reserve")
       \/ Vacant(t, v) /\ op[t].unsafe /\ Goto(t, "E_head")
       \/ ~Vacant(t, v) /\ NewTicket(t)
  /\ UNCHANGED <<head, tail, cell>>

\* MUTANT: a cell marked unsafe is used although its dequeuer may be gone.
EnqHeadUnchecked(t) ==
  /\ op[t].pc = "E_head"
  /\ Goto(t, "E_reserve")
  /\ UNCHANGED <<head, tail, cell>>

\* A cell marked unsafe may be used if no dequeuer had the ticket yet.
EnqHead(t) ==
  /\ op[t].pc = "E_head"
  /\ IF head <= op[t].ticket THEN Goto(t, "E_reserve") ELSE NewTicket(t)
  /\ UNCHANGED <<head, tail, cell>>

EnqReserve(t) ==
  /\ op[t].pc = "E_reserve"
  /\ IF cell[Pos(t)].value = Invalid
       THEN SetValue(t, Bottom(t)) /\ Goto(t, "E_advance")
       ELSE NewTicket(t) /\ UNCHANGED cell
  /\ UNCHANGED <<head, tail>>

EnqAdvance(t) ==
  /\ op[t].pc = "E_advance"
  /\ IF SameIndex(t)
       THEN SetIndex(t, FALSE, op[t].ticket + N) /\ Goto(t, "E_commit")
       ELSE Goto(t, "E_undo") /\ UNCHANGED cell
  /\ UNCHANGED <<head, tail>>

\* MUTANT: the element is stored without looking if the cell is still reserved.
EnqCommitStore(t) ==
  /\ op[t].pc = "E_commit"
  /\ SetValue(t, op[t].arg) /\ Become(t, Enqueued(op[t].arg))
  /\ UNCHANGED <<head, tail>>

EnqCommit(t) ==
  /\ op[t].pc = "E_commit"
  /\ IF cell[Pos(t)].value = Bottom(t)
       THEN SetValue(t, op[t].arg) /\ Become(t, Enqueued(op[t].arg))
       ELSE NewTicket(t) /\ UNCHANGED cell
  /\ UNCHANGED <<head, tail>>

EnqUndo(t) ==
  /\ op[t].pc = "E_undo"
  /\ IF cell[Pos(t)].value = Bottom(t) THEN SetValue(t, Invalid) ELSE UNCHANGED cell
  /\ NewTicket(t)
  /\ UNCHANGED <<head, tail>>

EnqueueStep(t) ==
  \/ EnqTicket(t) \/ EnqIndex(t) \/ EnqValue(t) \/ EnqHead(t)
  \/ EnqReserve(t) \/ EnqAdvance(t) \/ EnqCommit(t) \/ EnqUndo(t)

-----------------------------------------------------------------------------
(* dequeue(nonempty)                                                       *)

CallDequeue(t, nonempty) ==
  /\ op[t] = Idle
  /\ Become(t, Frame(IF nonempty THEN "D_size_tail" ELSE "D_ticket", Invalid))
  /\ UNCHANGED <<head, tail, cell>>

\* distance(tail, head) == 0, from two loads.
DeqSizeTail(t) ==
  /\ op[t].pc = "D_size_tail"
  /\ Become(t, [op[t] EXCEPT !.pc = "D_size_head", !.tt = tail])
  /\ UNCHANGED <<head, tail, cell>>

DeqSizeHead(t) ==
  /\ op[t].pc = "D_size_head"
  /\ IF head < op[t].tt THEN Become(t, Frame("D_ticket", Invalid))
                        ELSE Become(t, Answer(Overflow))
  /\ UNCHANGED <<head, tail, cell>>

DeqTicket(t) ==
  /\ op[t].pc = "D_ticket" /\ head < MaxTicket
  /\ Become(t, [Frame("D_index", Invalid) EXCEPT !.ticket = head])
  /\ head' = head + 1
  /\ UNCHANGED <<tail, cell>>

DeqIndex(t) ==
  /\ op[t].pc = "D_index"
  /\ LET i == cell[Pos(t)] IN
       Become(t, [op[t] EXCEPT !.pc = "D_value", !.node = i.node, !.unsafe = i.unsafe])
  /\ UNCHANGED <<head, tail, cell>>

\* What to do with an empty or reserved cell, once the tail is known.
GivesUp(f) == f.unsafe \/ f.tt < f.ticket + 1 \/ AMax < f.attempt
Patience(f) ==
  IF GivesUp(f)
    THEN [f EXCEPT !.pc = IF isBottom(f.value) THEN "D_unbottom" ELSE "D_poison"]
    ELSE [Forget(f, "D_index") EXCEPT !.attempt = @ + 1]

\* MUTANT: an element of a later lap is taken as well.
DeqValueAnyLap(t) ==
  /\ op[t].pc = "D_value"
  /\ LET v == cell[Pos(t)].value
         f == [op[t] EXCEPT !.value = v]
     IN \/ Element(v) /\ f.node >= f.ticket + N /\ Become(t, [f EXCEPT !.pc = "D_take"])
        \/ Element(v) /\ f.node < f.ticket + N /\ Become(t, Leave(f))
        \/ ~Element(v) /\ Become(t, Patience([f EXCEPT !.tt = tail]))
  /\ UNCHANGED <<head, tail, cell>>

DeqValue(t) ==
  /\ op[t].pc = "D_value"
  /\ LET v == cell[Pos(t)].value
         f == [op[t] EXCEPT !.value = v]
         last == f.ticket + N
     IN \/ last < f.node /\ Become(t, Leave(f))
        \/ /\ f.node <= last /\ Element(v)
           /\ \/ f.node = last /\ Become(t, [f EXCEPT !.pc = "D_take"])
              \/ f.node # last /\ f.unsafe /\ Become(t, [f EXCEPT !.pc = "D_recheck"])
              \/ f.node # last /\ ~f.unsafe /\ Become(t, [f EXCEPT !.pc = "D_mark"])
        \/ /\ f.node <= last /\ ~Element(v)
           /\ Become(t, IF f.attempt % UpdateInterval = 0
                          THEN [f EXCEPT !.pc = "D_tail"] ELSE Patience(f))
  /\ UNCHANGED <<head, tail, cell>>

DeqTake(t) ==
  /\ op[t].pc = "D_take"
  /\ SetValue(t, Invalid) /\ Become(t, Answer(op[t].value))
  /\ UNCHANGED <<head, tail>>

DeqRecheck(t) ==
  /\ op[t].pc = "D_recheck"
  /\ Become(t, IF SameIndex(t) THEN Leave(op[t]) ELSE Forget(op[t], "D_index"))
  /\ UNCHANGED <<head, tail, cell>>

DeqMark(t) ==
  /\ op[t].pc = "D_mark"
  /\ IF SameIndex(t)
       THEN SetIndex(t, TRUE, op[t].node) /\ Become(t, Leave(op[t]))
       ELSE Become(t, Forget(op[t], "D_index")) /\ UNCHANGED cell
  /\ UNCHANGED <<head, tail>>

DeqTail(t) ==
  /\ op[t].pc = "D_tail"
  /\ Become(t, Patience([op[t] EXCEPT !.tt = tail]))
  /\ UNCHANGED <<head, tail, cell>>

DeqUnbottom(t) ==
  /\ op[t].pc = "D_unbottom"
  /\ IF cell[Pos(t)].value = op[t].value
       THEN SetValue(t, Invalid) /\ Goto(t, "D_poison")
       ELSE Become(t, Forget(op[t], "D_index")) /\ UNCHANGED cell
  /\ UNCHANGED <<head, tail>>

DeqPoison(t) ==
  /\ op[t].pc = "D_poison"
  /\ IF SameIndex(t)
       THEN SetIndex(t, TRUE, op[t].ticket + N) /\ Become(t, Leave(op[t]))
       ELSE /\ Become(t, [Forget(op[t], "D_index") EXCEPT !.attempt = @ + 1])
            /\ UNCHANGED cell
  /\ UNCHANGED <<head, tail>>

\* MUTANT: empty although the tail is one further.
DeqLastEarly(t) ==
  /\ op[t].pc = "D_last"
  /\ Become(t, Frame(IF tail <= op[t].ticket + 2 THEN "F_tail" ELSE "D_ticket", Invalid))
  /\ UNCHANGED <<head, tail, cell>>

\* No element for this ticket: empty if the tail is not beyond it.
DeqLast(t) ==
  /\ op[t].pc = "D_last"
  /\ Become(t, Frame(IF tail <= op[t].ticket + 1 THEN "F_tail" ELSE "D_ticket", Invalid))
  /\ UNCHANGED <<head, tail, cell>>

\* fixState(): raise a tail the dequeuers have overtaken.
FixTail(t) ==
  /\ op[t].pc = "F_tail"
  /\ Become(t, [op[t] EXCEPT !.pc = "F_head", !.tt = tail])
  /\ UNCHANGED <<head, tail, cell>>

FixHead(t) ==
  /\ op[t].pc = "F_head"
  /\ Become(t, [op[t] EXCEPT !.pc = "F_again", !.ticket = head])
  /\ UNCHANGED <<head, tail, cell>>

FixAgain(t) ==
  /\ op[t].pc = "F_again"
  /\ \/ tail # op[t].tt /\ Become(t, Frame("F_tail", Invalid))
     \/ tail = op[t].tt /\ op[t].tt < op[t].ticket /\ Goto(t, "F_cas")
     \/ tail = op[t].tt /\ op[t].ticket <= op[t].tt /\ Become(t, Answer(Invalid))
  /\ UNCHANGED <<head, tail, cell>>

FixCas(t) ==
  /\ op[t].pc = "F_cas"
  /\ IF tail = op[t].tt THEN tail' = op[t].ticket /\ Become(t, Answer(Invalid))
                        ELSE UNCHANGED tail /\ Become(t, Frame("F_tail", Invalid))
  /\ UNCHANGED <<head, cell>>

DequeueStep(t) ==
  \/ DeqSizeTail(t) \/ DeqSizeHead(t) \/ DeqTicket(t) \/ DeqIndex(t)
  \/ DeqValue(t) \/ DeqTake(t) \/ DeqRecheck(t) \/ DeqMark(t) \/ DeqTail(t)
  \/ DeqUnbottom(t) \/ DeqPoison(t) \/ DeqLast(t)
  \/ FixTail(t) \/ FixHead(t) \/ FixAgain(t) \/ FixCas(t)

RingStep(t) == EnqueueStep(t) \/ DequeueStep(t)

\* The caller takes the answer.
Return(t) ==
  /\ op[t].pc \in {"E_done", "D_done"}
  /\ Become(t, Idle)
  /\ UNCHANGED <<head, tail, cell>>

-----------------------------------------------------------------------------
EnqueuePcs == {"E_ticket", "E_index", "E_value", "E_head", "E_reserve",
               "E_advance", "E_commit", "E_undo"}
DequeuePcs == {"D_size_tail", "D_size_head", "D_ticket", "D_index", "D_value",
               "D_take", "D_recheck", "D_mark", "D_tail", "D_unbottom",
               "D_poison", "D_last", "F_tail", "F_head", "F_again", "F_cas"}
\* Points of dequeue at which the call is bound to its ticket's cell.
TicketPcs == {"D_index", "D_value", "D_take", "D_recheck", "D_mark", "D_tail",
              "D_unbottom", "D_poison"}

RingTypeOK ==
  /\ head \in Nat /\ tail \in Nat
  /\ cell \in [0..(N - 1) -> [node : Nat, unsafe : BOOLEAN,
                              value : Values \cup Threads \cup {Invalid}]]
  /\ op \in [Threads ->
       [pc : {"idle", "E_done", "D_done"} \cup EnqueuePcs \cup DequeuePcs,
        arg : Values \cup {Invalid, Overflow}, ticket : Nat, node : Nat,
        unsafe : BOOLEAN, value : Values \cup Threads \cup {Invalid},
        attempt : Nat, tt : Nat]]
=============================================================================
