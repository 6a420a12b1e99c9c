-------------------------- MODULE RingClientProofs --------------------------
(* Theorems about the ring under the calls of LockFreeQueue, for any number *)
(* of threads and cells, with and without torn views, of both rings.        *)
EXTENDS RingClient, TLAPS, FiniteSetTheorems

Pcs == {"idle", "E_done", "D_done"} \cup EnqueuePcs \cup DequeuePcs
Words == Values \cup Threads \cup {Invalid}
Cells == [node : Nat, unsafe : BOOLEAN, value : Words]
Frames == [pc : Pcs, arg : Values \cup {Invalid, Overflow}, ticket : Nat, node : Nat,
           unsafe : BOOLEAN, value : Words, attempt : Nat, tt : Nat]

\* What a thread knows of its locals where it is: an enqueuer carries an index,
\* the index word it is about to replace is not beyond the one it will store,
\* and what a dequeuer takes is an index.
Sound(f) ==
  /\ f.pc \in EnqueuePcs => f.arg \in Values
  /\ f.pc \in {"E_head", "E_reserve", "E_advance"} => f.node <= f.ticket
  /\ f.pc \in {"D_tail", "D_unbottom", "D_poison"} => f.node <= f.ticket + N
  /\ f.pc = "D_take" => f.value \in Values
  /\ f.pc = "D_tail" => f.value \in Threads \cup {Invalid}
  /\ f.pc = "D_unbottom" => f.value \in Threads
  /\ f.pc = "F_cas" => f.tt < f.ticket
Good == {f \in Frames : Sound(f)}

RingInv ==
  /\ head \in Nat /\ tail \in Nat
  /\ cell \in [0..(N - 1) -> Cells]
  /\ op \in [Threads -> Good]
Grows == \A i \in DOMAIN cell : cell'[i].node >= cell[i].node

\* A position is a cell.
LEMMA Position ==
  ASSUME RingInv, NEW t \in Threads
  PROVE  Pos(t) \in 0..(N - 1)
<1>1. op[t].ticket \in Nat
  BY DEF RingInv, Good, Frames
<1> QED
  BY <1>1, NAssumption DEF Pos

\* A fresh frame is good, and so is one that begins a loop again.
LEMMA Fresh ==
  /\ \A pc \in Pcs \ (EnqueuePcs \cup {"D_tail", "D_unbottom", "D_poison", "D_take", "F_cas"}) :
       \A a \in Values \cup {Invalid, Overflow} : Frame(pc, a) \in Good
  /\ \A a \in Values : Frame("E_ticket", a) \in Good
  /\ \A pc \in Pcs : \A a : /\ Frame(pc, a).pc = pc /\ Frame(pc, a).arg = a
                              /\ Frame(pc, a).ticket = 0
BY DEF Frame, Good, Frames, Sound, Words, Pcs, EnqueuePcs, DequeuePcs

\* Where a loop begins again, or a dequeuer leaves its cell, the frame is good.
LEMMA Forgotten ==
  ASSUME NEW f \in Frames
  PROVE  /\ Forget(f, "D_index") \in Good
         /\ [Forget(f, "D_index") EXCEPT !.attempt = @ + 1] \in Good
         /\ Leave(f) \in Good
<1> DEFINE g == Forget(f, "D_index")
           h == [g EXCEPT !.attempt = @ + 1]
<1>1. g \in Frames /\ g.pc = "D_index"
  BY DEF Forget, Frames, Words, Pcs, DequeuePcs
<1>2. h \in Frames /\ h.pc = "D_index"
  <2> HIDE DEF g
  <2> QED
    BY <1>1 DEF Frames
<1>3. Leave(f) \in Frames /\ Leave(f).pc = "D_last"
  BY DEF Leave, Frame, Frames, Words, Pcs, DequeuePcs
<1>4. \A e \in Frames : e.pc \in {"D_index", "D_last"} => e \in Good
  BY DEF Good, Sound, EnqueuePcs
<1> QED
  BY <1>1, <1>2, <1>3, <1>4

\* A step that gives one thread a good frame and keeps the cells.
LEMMA Local ==
  ASSUME RingInv, NEW t \in Threads, NEW f \in Good, Become(t, f),
         head' \in Nat, tail' \in Nat, UNCHANGED cell
  PROVE  RingInv' /\ Grows
<1>1. op' \in [Threads -> Good]
  BY DEF RingInv, Become
<1>2. \A i \in DOMAIN cell : cell[i].node \in Nat
  BY DEF RingInv, Cells
<1> QED
  BY <1>1, <1>2 DEF RingInv, Grows

\* A step that stores a value, or an index word that is not smaller.
LEMMA Store ==
  ASSUME RingInv, NEW t \in Threads, NEW f \in Good, Become(t, f),
         UNCHANGED <<head, tail>>,
         \/ \E v \in Words : SetValue(t, v)
         \/ \E n \in Nat, u \in BOOLEAN : SetIndex(t, u, n) /\ cell[Pos(t)].node <= n
  PROVE  RingInv' /\ Grows
<1>1. op' \in [Threads -> Good]
  BY DEF RingInv, Become
<1>2. Pos(t) \in 0..(N - 1)
  BY Position
<1>3. cell' \in [0..(N - 1) -> Cells] /\ Grows
  <2> DEFINE i == Pos(t)
  <2>0. i \in 0..(N - 1) /\ cell[i] \in Cells /\ \A k \in 0..(N - 1) : cell[k].node \in Nat
    BY <1>2 DEF RingInv, Cells
  <2>1. CASE \E v \in Words : SetValue(t, v)
    <3>1. PICK v \in Words : cell' = [cell EXCEPT ![i] = [cell[i] EXCEPT !.value = v]]
      BY <2>1 DEF SetValue
    <3> DEFINE e == [cell[i] EXCEPT !.value = v]
    <3>2. e \in Cells /\ e.node = cell[i].node
      BY <2>0 DEF Cells
    <3>3. cell' = [cell EXCEPT ![i] = e]
      BY <3>1
    <3> HIDE DEF e, i
    <3> QED
      BY <2>0, <3>2, <3>3 DEF RingInv, Grows
  <2>2. CASE \E n \in Nat, u \in BOOLEAN : SetIndex(t, u, n) /\ cell[Pos(t)].node <= n
    <3>1. PICK n \in Nat, u \in BOOLEAN :
            /\ cell' = [cell EXCEPT ![i] = [cell[i] EXCEPT !.unsafe = u, !.node = n]]
            /\ cell[i].node <= n
      BY <1>2, <2>2 DEF SetIndex, RingInv
    <3> DEFINE e == [cell[i] EXCEPT !.unsafe = u, !.node = n]
    <3>2. e \in Cells /\ e.node = n
      BY <2>0 DEF Cells
    <3>3. cell' = [cell EXCEPT ![i] = e]
      BY <3>1
    <3> HIDE DEF e, i
    <3> QED
      BY <2>0, <3>1, <3>2, <3>3 DEF RingInv, Grows
  <2> QED
    BY <2>1, <2>2
<1> QED
  BY <1>1, <1>3 DEF RingInv, Grows
-----------------------------------------------------------------------------
(* One lemma per group of steps, one case per step.                         *)

\* What is known before a step.
LEMMA Before ==
  ASSUME RingInv, NEW t \in Threads
  PROVE  /\ op[t] \in Frames /\ Sound(op[t]) /\ op[t] \in Good
         /\ cell[Pos(t)] \in Cells /\ head \in Nat /\ tail \in Nat
BY Position DEF RingInv, Good

\* Changing the place only.
LEMMA Moved ==
  ASSUME NEW f \in Frames, NEW pc \in Pcs
  PROVE  LET g == [f EXCEPT !.pc = pc]
         IN  /\ g \in Frames /\ g.pc = pc /\ g.arg = f.arg /\ g.node = f.node
             /\ g.ticket = f.ticket /\ g.value = f.value
BY DEF Frames

\* The steps of enqueue.
LEMMA EnqueueKept ==
  ASSUME RingInv, NEW t \in Threads, EnqueueStep(t)
  PROVE  RingInv' /\ Grows
<1>0. /\ op[t] \in Frames /\ Sound(op[t]) /\ op[t] \in Good
      /\ cell[Pos(t)] \in Cells /\ head \in Nat /\ tail \in Nat
  BY Before
<1>1. op[t].pc \in EnqueuePcs /\ op[t].arg \in Values
  BY <1>0 DEF EnqueueStep, EnqTicket, EnqIndex, EnqValue, EnqHead, EnqReserve,
              EnqAdvance, EnqCommit, EnqUndo, Sound, EnqueuePcs
<1> DEFINE again == Frame("E_ticket", op[t].arg)
           done == Enqueued(op[t].arg)
           to(pc) == [op[t] EXCEPT !.pc = pc]
<1>2. again \in Good /\ done \in Good
  BY <1>1, Fresh DEF Enqueued, Pcs, EnqueuePcs
<1>3. NewTicket(t) => Become(t, again)
  BY DEF NewTicket
<1>4. \A pc : Goto(t, pc) => Become(t, to(pc))
  BY DEF Goto
<1>5. ASSUME op[t].node <= op[t].ticket
      PROVE  to("E_reserve") \in Good /\ to("E_head") \in Good /\ to("E_advance") \in Good
  <2>1. to("E_reserve") \in Good
    BY <1>0, <1>1, <1>5 DEF Good, Frames, Sound, Pcs, EnqueuePcs
  <2>2. to("E_head") \in Good
    BY <1>0, <1>1, <1>5 DEF Good, Frames, Sound, Pcs, EnqueuePcs
  <2>3. to("E_advance") \in Good
    BY <1>0, <1>1, <1>5 DEF Good, Frames, Sound, Pcs, EnqueuePcs
  <2> QED
    BY <2>1, <2>2, <2>3
<1>6. to("E_commit") \in Good /\ to("E_undo") \in Good
  BY <1>0, <1>1, Moved DEF Good, Sound, Pcs, EnqueuePcs
<1> HIDE DEF again, done, to
<1>7. CASE EnqTicket(t)
  <2> DEFINE f == [op[t] EXCEPT !.pc = "E_index", !.ticket = tail]
  <2>1. f \in Good
    BY <1>0, <1>1 DEF Good, Frames, Sound, Pcs, EnqueuePcs
  <2>2. Become(t, f) /\ head' \in Nat /\ tail' \in Nat /\ UNCHANGED cell
    BY <1>0, <1>7 DEF EnqTicket
  <2> HIDE DEF f
  <2> QED
    BY <2>1, <2>2, Local
<1>8. CASE EnqIndex(t)
  <2> DEFINE c == cell[Pos(t)]
             f == [op[t] EXCEPT !.pc = "E_value", !.node = c.node, !.unsafe = c.unsafe]
  <2>0. c.node \in Nat /\ c.unsafe \in BOOLEAN
    BY <1>0 DEF Cells
  <2>2. Become(t, f) /\ head' \in Nat /\ tail' \in Nat /\ UNCHANGED cell
    BY <1>0, <1>8 DEF EnqIndex
  <2> HIDE DEF c
  <2>1. f \in Good
    BY <1>0, <1>1, <2>0 DEF Good, Frames, Sound, Pcs, EnqueuePcs
  <2> HIDE DEF f
  <2> QED
    BY <2>1, <2>2, Local
<1>9. CASE EnqValue(t)
  <2>1. /\ \/ op[t].node <= op[t].ticket /\ Become(t, to("E_reserve"))
           \/ op[t].node <= op[t].ticket /\ Become(t, to("E_head"))
           \/ Become(t, again)
        /\ UNCHANGED <<head, tail, cell>>
    BY <1>3, <1>4, <1>9 DEF EnqValue, Vacant
  <2> QED
    BY <1>0, <1>2, <1>5, <2>1, Local
<1>10. CASE EnqHead(t)
  <2>1. op[t].node <= op[t].ticket
    BY <1>0, <1>10 DEF EnqHead, Sound
  <2>2. (Become(t, to("E_reserve")) \/ Become(t, again)) /\ UNCHANGED <<head, tail, cell>>
    BY <1>3, <1>4, <1>10 DEF EnqHead
  <2> QED
    BY <1>0, <1>2, <1>5, <2>1, <2>2, Local
<1>11. CASE EnqReserve(t)
  <2>1. op[t].node <= op[t].ticket
    BY <1>0, <1>11 DEF EnqReserve, Sound
  <2>2. \/ SetValue(t, t) /\ Become(t, to("E_advance"))
        \/ UNCHANGED cell /\ Become(t, again)
    BY <1>3, <1>4, <1>11 DEF EnqReserve, Bottom
  <2>3. UNCHANGED <<head, tail>> /\ t \in Words
    BY <1>11 DEF EnqReserve, Words
  <2> QED
    BY <1>0, <1>2, <1>5, <2>1, <2>2, <2>3, Local, Store
<1>12. CASE EnqAdvance(t)
  <2>1. op[t].node <= op[t].ticket /\ op[t].ticket + N \in Nat /\ op[t].node \in Nat
    BY <1>0, <1>12, NAssumption DEF EnqAdvance, Sound, Frames
  <2>2. \/ /\ SetIndex(t, FALSE, op[t].ticket + N) /\ Become(t, to("E_commit"))
           /\ cell[Pos(t)].node = op[t].node
        \/ UNCHANGED cell /\ Become(t, to("E_undo"))
    BY <1>4, <1>12 DEF EnqAdvance, SameIndex
  <2>3. UNCHANGED <<head, tail>>
    BY <1>12 DEF EnqAdvance
  <2>4. op[t].node <= op[t].ticket + N
    BY <1>0, <2>1, NAssumption DEF Frames
  <2> QED
    BY <1>0, <1>6, <2>1, <2>2, <2>3, <2>4, Local, Store
<1>13. CASE EnqCommit(t)
  <2>1. \/ SetValue(t, op[t].arg) /\ Become(t, done)
        \/ UNCHANGED cell /\ Become(t, again)
    BY <1>3, <1>13 DEF EnqCommit, done
  <2>2. UNCHANGED <<head, tail>> /\ op[t].arg \in Words
    BY <1>1, <1>13 DEF EnqCommit, Words
  <2> QED
    BY <1>0, <1>2, <2>1, <2>2, Local, Store
<1>14. CASE EnqUndo(t)
  <2>1. /\ SetValue(t, Invalid) \/ UNCHANGED cell
        /\ Become(t, again) /\ UNCHANGED <<head, tail>>
    BY <1>3, <1>14 DEF EnqUndo
  <2>2. Invalid \in Words
    BY DEF Words
  <2> QED
    BY <1>0, <1>2, <2>1, <2>2, Local, Store
<1> QED
  BY <1>7, <1>8, <1>9, <1>10, <1>11, <1>12, <1>13, <1>14 DEF EnqueueStep
\* What Patience makes of a frame that may be poisoned.
LEMMA PatienceGood ==
  ASSUME NEW f \in Frames, f.node <= f.ticket + N, f.value \in Threads \cup {Invalid}
  PROVE  Patience(f) \in Good
<1> DEFINE g == [f EXCEPT !.pc = "D_unbottom"]
           h == [f EXCEPT !.pc = "D_poison"]
           k == [Forget(f, "D_index") EXCEPT !.attempt = @ + 1]
<1>1. f.value \in Threads => g \in Good
  BY DEF Good, Frames, Sound, Pcs, EnqueuePcs, DequeuePcs
<1>2. h \in Good
  BY DEF Good, Frames, Sound, Pcs, EnqueuePcs, DequeuePcs
<1>3. k \in Good
  BY Forgotten
<1>4. (f.value \in Threads /\ Patience(f) = g) \/ Patience(f) = h \/ Patience(f) = k
  BY DEF Patience, isBottom
<1> QED
  BY <1>1, <1>2, <1>3, <1>4

\* The value a dequeuer has read.
LEMMA Seen ==
  ASSUME NEW f \in Frames, NEW v \in Words
  PROVE  LET g == [f EXCEPT !.value = v]
         IN  g \in Frames /\ g.value = v /\ g.node = f.node /\ g.ticket = f.ticket
BY DEF Frames

\* The read of the value, which decides what the dequeuer does next.
LEMMA DeqValueKept ==
  ASSUME RingInv, NEW t \in Threads, DeqValue(t)
  PROVE  RingInv' /\ Grows
<1> DEFINE v == cell[Pos(t)].value
           f == [op[t] EXCEPT !.value = v]
           to(pc) == [f EXCEPT !.pc = pc]
<1>0. head \in Nat /\ tail \in Nat /\ op[t] \in Frames /\ v \in Words
  BY Before DEF Cells
<1>1. f \in Frames /\ f.value = v
  BY <1>0, Seen
<1>2. \/ Become(t, Leave(f))
      \/ Element(v) /\ Become(t, to("D_take"))
      \/ Become(t, to("D_recheck"))
      \/ Become(t, to("D_mark"))
      \/ f.node <= f.ticket + N /\ ~Element(v) /\ Become(t, to("D_tail"))
      \/ f.node <= f.ticket + N /\ ~Element(v) /\ Become(t, Patience(f))
  BY DEF DeqValue
<1>3. UNCHANGED <<head, tail, cell>>
  BY DEF DeqValue
<1> HIDE DEF v, f
<1>4. Leave(f) \in Good
  BY <1>1, Forgotten
<1>5. Element(v) => to("D_take") \in Good
  <2>1. Element(v) => v \in Values
    BY <1>0 DEF Element, isBottom, Words
  <2>2. to("D_take") \in Frames /\ to("D_take").pc = "D_take" /\ to("D_take").value = v
    BY <1>1 DEF Frames, Pcs, DequeuePcs
  <2>3. to("D_take").pc \notin EnqueuePcs
    BY <2>2 DEF EnqueuePcs
  <2> HIDE DEF to
  <2> QED
    BY <2>1, <2>2, <2>3 DEF Good, Sound
<1>6. to("D_recheck") \in Good
  BY <1>1 DEF Good, Frames, Sound, Pcs, EnqueuePcs, DequeuePcs
<1>7. to("D_mark") \in Good
  BY <1>1 DEF Good, Frames, Sound, Pcs, EnqueuePcs, DequeuePcs
<1>8. ~Element(v) => v \in Threads \cup {Invalid}
  BY <1>0 DEF Element, isBottom, Words
<1>9. f.node <= f.ticket + N /\ ~Element(v) => to("D_tail") \in Good
  BY <1>1, <1>8 DEF Good, Frames, Sound, Pcs, EnqueuePcs, DequeuePcs
<1>10. f.node <= f.ticket + N /\ ~Element(v) => Patience(f) \in Good
  BY <1>1, <1>8, PatienceGood
<1> HIDE DEF to
<1> QED
  BY <1>0, <1>2, <1>3, <1>4, <1>5, <1>6, <1>7, <1>9, <1>10, Local

\* The steps of dequeue that only look: at the counters, or again at the cell.
LEMMA LookKept ==
  ASSUME RingInv, NEW t \in Threads,
         \/ DeqSizeTail(t) \/ DeqSizeHead(t) \/ DeqTicket(t) \/ DeqIndex(t)
         \/ DeqRecheck(t) \/ DeqTail(t) \/ DeqLast(t)
         \/ FixTail(t) \/ FixHead(t) \/ FixAgain(t) \/ FixCas(t)
  PROVE  RingInv' /\ Grows
<1>0. /\ op[t] \in Frames /\ Sound(op[t]) /\ op[t] \in Good
      /\ cell[Pos(t)] \in Cells /\ head \in Nat /\ tail \in Nat
  BY Before
<1> SUFFICES \E f \in Good : /\ Become(t, f) /\ head' \in Nat /\ tail' \in Nat
                             /\ UNCHANGED cell
  BY Local
<1>1. /\ \A pc \in {"D_ticket", "F_tail"} : Frame(pc, Invalid) \in Good
      /\ Answer(Overflow) \in Good /\ Answer(Invalid) \in Good
  BY Fresh DEF Answer, Pcs, DequeuePcs, EnqueuePcs
<1>2. CASE DeqSizeTail(t)
  <2> DEFINE f == [op[t] EXCEPT !.pc = "D_size_head", !.tt = tail]
  <2>1. f \in Good
    BY <1>0 DEF Good, Frames, Sound, Pcs, EnqueuePcs, DequeuePcs
  <2> QED
    BY <1>0, <1>2, <2>1 DEF DeqSizeTail
<1>3. CASE DeqSizeHead(t)
  BY <1>0, <1>1, <1>3 DEF DeqSizeHead
<1>4. CASE DeqTicket(t)
  <2> DEFINE f == [Frame("D_index", Invalid) EXCEPT !.ticket = head]
  <2>1. f \in Good
    BY <1>0 DEF Frame, Good, Frames, Sound, Words, Pcs, EnqueuePcs, DequeuePcs
  <2> QED
    BY <1>0, <1>4, <2>1 DEF DeqTicket
<1>5. CASE DeqIndex(t)
  <2> DEFINE c == cell[Pos(t)]
             f == [op[t] EXCEPT !.pc = "D_value", !.node = c.node, !.unsafe = c.unsafe]
  <2>1. c.node \in Nat /\ c.unsafe \in BOOLEAN
    BY <1>0 DEF Cells
  <2>2. Become(t, f) /\ UNCHANGED <<head, tail, cell>>
    BY <1>5 DEF DeqIndex
  <2> HIDE DEF c
  <2>3. f \in Good
    BY <1>0, <2>1 DEF Good, Frames, Sound, Pcs, EnqueuePcs, DequeuePcs
  <2> QED
    BY <1>0, <2>2, <2>3
<1>6. CASE DeqRecheck(t)
  BY <1>0, <1>6, Forgotten DEF DeqRecheck
<1>7. CASE DeqTail(t)
  <2> DEFINE f == [op[t] EXCEPT !.tt = tail]
  <2>1. /\ f \in Frames /\ f.node = op[t].node /\ f.ticket = op[t].ticket
        /\ f.value = op[t].value
    BY <1>0 DEF Frames
  <2>2. op[t].value \in Threads \cup {Invalid} /\ op[t].node <= op[t].ticket + N /\ Become(t, Patience(f)) /\ UNCHANGED <<head, tail, cell>>
    BY <1>0, <1>7 DEF DeqTail, Sound
  <2> HIDE DEF f
  <2>3. Patience(f) \in Good
    BY <2>1, <2>2, PatienceGood
  <2> QED
    BY <1>0, <2>2, <2>3
<1>8. CASE DeqLast(t)
  BY <1>0, <1>1, <1>8 DEF DeqLast
<1>9. CASE FixTail(t)
  <2> DEFINE f == [op[t] EXCEPT !.pc = "F_head", !.tt = tail]
  <2>1. f \in Good
    BY <1>0 DEF Good, Frames, Sound, Pcs, EnqueuePcs, DequeuePcs
  <2> QED
    BY <1>0, <1>9, <2>1 DEF FixTail
<1>10. CASE FixHead(t)
  <2> DEFINE f == [op[t] EXCEPT !.pc = "F_again", !.ticket = head]
  <2>1. f \in Good
    BY <1>0 DEF Good, Frames, Sound, Pcs, EnqueuePcs, DequeuePcs
  <2> QED
    BY <1>0, <1>10, <2>1 DEF FixHead
<1>11. CASE FixAgain(t)
  <2> DEFINE f == [op[t] EXCEPT !.pc = "F_cas"]
  <2>1. op[t].tt < op[t].ticket => f \in Good
    BY <1>0 DEF Good, Frames, Sound, Pcs, EnqueuePcs, DequeuePcs
  <2>2. /\ UNCHANGED <<head, tail, cell>>
        /\ \/ Become(t, Frame("F_tail", Invalid)) \/ Become(t, Answer(Invalid))
           \/ op[t].tt < op[t].ticket /\ Become(t, f)
    BY <1>11 DEF FixAgain, Goto
  <2> QED
    BY <1>0, <1>1, <2>1, <2>2
<1>12. CASE FixCas(t)
  <2>1. op[t].ticket \in Nat
    BY <1>0 DEF Frames
  <2> QED
    BY <1>0, <1>1, <1>12, <2>1 DEF FixCas
<1> QED
  BY <1>2, <1>3, <1>4, <1>5, <1>6, <1>7, <1>8, <1>9, <1>10, <1>11, <1>12
\* The steps of dequeue that change a cell.
LEMMA DequeueKept ==
  ASSUME RingInv, NEW t \in Threads, DequeueStep(t)
  PROVE  RingInv' /\ Grows
<1>0. /\ op[t] \in Frames /\ Sound(op[t]) /\ op[t] \in Good
      /\ cell[Pos(t)] \in Cells /\ head \in Nat /\ tail \in Nat
  BY Before
<1>1. /\ Leave(op[t]) \in Good /\ Forget(op[t], "D_index") \in Good
      /\ [Forget(op[t], "D_index") EXCEPT !.attempt = @ + 1] \in Good
  BY <1>0, Forgotten
<1>2. op[t].ticket + N \in Nat /\ op[t].node \in Nat /\ Invalid \in Words
  BY <1>0, NAssumption DEF Frames, Words
<1>3. CASE DeqTake(t)
  <2>1. op[t].value \in Values
    BY <1>0, <1>3 DEF DeqTake, Sound
  <2>2. Answer(op[t].value) \in Good
    BY <2>1, Fresh DEF Answer, Pcs, EnqueuePcs
  <2> QED
    BY <1>2, <1>3, <2>2, Store DEF DeqTake
<1>4. CASE DeqMark(t)
  <2>1. \/ /\ SetIndex(t, TRUE, op[t].node) /\ cell[Pos(t)].node = op[t].node
           /\ Become(t, Leave(op[t]))
        \/ UNCHANGED cell /\ Become(t, Forget(op[t], "D_index"))
    BY <1>4 DEF DeqMark, SameIndex
  <2>2. UNCHANGED <<head, tail>>
    BY <1>4 DEF DeqMark
  <2>3. op[t].node <= op[t].node
    BY <1>2
  <2> QED
    BY <1>0, <1>1, <1>2, <2>1, <2>2, <2>3, Local, Store
<1>5. CASE DeqUnbottom(t)
  <2> DEFINE f == [op[t] EXCEPT !.pc = "D_poison"]
  <2>1. op[t].node <= op[t].ticket + N
    BY <1>0, <1>5 DEF DeqUnbottom, Sound
  <2>2. f \in Good
    BY <1>0, <2>1 DEF Good, Frames, Sound, Pcs, EnqueuePcs, DequeuePcs
  <2>3. \/ SetValue(t, Invalid) /\ Become(t, f)
        \/ UNCHANGED cell /\ Become(t, Forget(op[t], "D_index"))
    BY <1>5 DEF DeqUnbottom, Goto
  <2>4. UNCHANGED <<head, tail>>
    BY <1>5 DEF DeqUnbottom
  <2> HIDE DEF f
  <2> QED
    BY <1>0, <1>1, <1>2, <2>2, <2>3, <2>4, Local, Store
<1>6. CASE DeqPoison(t)
  <2> DEFINE f == [Forget(op[t], "D_index") EXCEPT !.attempt = @ + 1]
  <2>1. op[t].node <= op[t].ticket + N
    BY <1>0, <1>6 DEF DeqPoison, Sound
  <2>2. \/ /\ SetIndex(t, TRUE, op[t].ticket + N) /\ cell[Pos(t)].node = op[t].node
           /\ Become(t, Leave(op[t]))
        \/ UNCHANGED cell /\ Become(t, f)
    BY <1>6 DEF DeqPoison, SameIndex
  <2>3. UNCHANGED <<head, tail>> /\ f \in Good
    BY <1>1, <1>6 DEF DeqPoison
  <2> HIDE DEF f
  <2> QED
    BY <1>0, <1>1, <1>2, <2>1, <2>2, <2>3, Local, Store
<1>7. DeqValue(t) => RingInv' /\ Grows
  BY DeqValueKept
<1> QED
  BY <1>3, <1>4, <1>5, <1>6, <1>7, LookKept DEF DequeueStep

\* The calls and the returns of the client.
LEMMA CallKept ==
  ASSUME RingInv, NEW t \in Threads,
         \/ \E v \in Values : CallEnqueue(t, v)
         \/ \E nonempty \in BOOLEAN : CallDequeue(t, nonempty)
         \/ Return(t)
  PROVE  RingInv' /\ Grows
<1>1. /\ \A v \in Values : Frame("E_ticket", v) \in Good
      /\ \A pc \in {"D_size_tail", "D_ticket", "idle"} : Frame(pc, Invalid) \in Good
  BY Fresh DEF Pcs, EnqueuePcs, DequeuePcs
<1>2. \E f \in Good : Become(t, f) /\ UNCHANGED <<head, tail, cell>>
  BY <1>1 DEF CallEnqueue, CallDequeue, Return, Idle
<1>3. head \in Nat /\ tail \in Nat
  BY DEF RingInv
<1> QED
  BY <1>2, <1>3, Local

-----------------------------------------------------------------------------
(* The theorems.                                                            *)

\* The observers and the pool, too, stay in their ranges.
ClientInv ==
  /\ freeList \in BOOLEAN /\ torn \in BOOLEAN
  /\ pool \subseteq Values /\ overtaken \subseteq Values
  /\ before \in [Values -> SUBSET Values]
  /\ late \in [Threads -> SUBSET Values]
  /\ sawEmpty \in [Threads -> BOOLEAN]

\* Types alone are not inductive: an enqueuer could store what is no index, and
\* a stale index word could be replaced by a smaller one.
IInv == RingInv /\ ClientInv

\* The invariant holds at first,
LEMMA InitIInv == Init => IInv
<1> SUFFICES ASSUME Init PROVE IInv
  OBVIOUS
<1>1. Idle \in Good
  BY Fresh DEF Idle, Pcs, EnqueuePcs, DequeuePcs
<1>2. ClearedCells \in [0..(N - 1) -> Cells] /\ FullCells \in [0..(N - 1) -> Cells]
  BY NAssumption DEF ClearedCells, FullCells, Cells, Words, Values
<1>3. RingInv
  BY <1>1, <1>2, NAssumption DEF Init, InitFull, InitCleared, RingInv
<1>4. \A v \in Values : 0..(v - 1) \subseteq Values
  BY NAssumption DEF Values
<1>5. ClientInv
  BY <1>4 DEF Init, ClientInv
<1> QED
  BY <1>3, <1>5 DEF IInv

\* is kept by every step,
LEMMA NextKept ==
  ASSUME IInv, Next
  PROVE  IInv' /\ Grows
<1>1. PICK t \in Threads : ThreadStep(t)
  BY DEF Next
<1>2. RingInv' /\ Grows
  <2>1. BeginEnqueue(t) => \E v \in Values : CallEnqueue(t, v)
    BY DEF BeginEnqueue, IInv, ClientInv
  <2>2. BeginDequeue(t) => \E nonempty \in BOOLEAN : CallDequeue(t, nonempty)
    BY DEF BeginDequeue, IInv, ClientInv
  <2>3. EndEnqueue(t) \/ EndDequeue(t) => Return(t)
    BY DEF EndEnqueue, EndDequeue
  <2>4. Step(t) => EnqueueStep(t) \/ DequeueStep(t)
    BY DEF Step, RingStep
  <2> QED
    BY <1>1, <2>1, <2>2, <2>3, <2>4, CallKept, EnqueueKept, DequeueKept DEF IInv, ThreadStep
<1>3. /\ sawEmpty' \in [Threads -> BOOLEAN]
      /\ freeList' \in BOOLEAN /\ torn' \in BOOLEAN
  BY DEF Next, Observe, IInv, ClientInv
<1>4. /\ pool' \subseteq Values /\ overtaken' \subseteq Values
      /\ before' \in [Values -> SUBSET Values]
      /\ late' \in [Threads -> SUBSET Values]
  <2>0. ClientInv
    BY DEF IInv
  <2>1. CASE BeginEnqueue(t)
    <3>1. InRing \in SUBSET Values
      BY DEF InRing, Committed
    <3> QED
      BY <2>0, <2>1, <3>1 DEF BeginEnqueue, ClientInv
  <2>2. CASE BeginDequeue(t)
    BY <2>0, <2>2 DEF BeginDequeue, ClientInv
  <2>3. CASE EndEnqueue(t) \/ Step(t)
    BY <2>0, <2>3 DEF EndEnqueue, Step, ClientInv
  <2>4. CASE EndDequeue(t)
    BY <2>0, <2>4 DEF EndDequeue, ClientInv
  <2> QED
    BY <1>1, <2>1, <2>2, <2>3, <2>4 DEF ThreadStep
<1> QED
  BY <1>2, <1>3, <1>4 DEF IInv, ClientInv

\* and by stuttering.
LEMMA StutterKept ==
  ASSUME IInv, UNCHANGED vars
  PROVE  IInv'
BY DEF vars, IInv, RingInv, ClientInv

\* So the steps of any number of threads keep locals and cells sound.
THEOREM Invariance == Spec => []IInv
<1>1. IInv /\ [Next]_vars => IInv'
  BY NextKept, StutterKept
<1> QED
  BY <1>1, InitIInv, PTL DEF Spec

\* Type correctness of the ring and its client: in particular a cell holds an
\* index, a reservation or nothing, never the "overflow" answer.
THEOREM TypeCorrect == Spec => []TypeOK
<1>1. IInv => TypeOK
  BY DEF IInv, RingInv, ClientInv, TypeOK, RingTypeOK, Good, Frames, Cells, Words, Pcs
<1> QED
  BY <1>1, Invariance, PTL

\* The index word of a cell never goes back, however stale the word an enqueuer
\* or a poisoning dequeuer has loaded, torn views included: no ticket is served
\* by a cell after a later one was.
THEOREM NodesOnlyGrow == Spec => NodeNeverDecreases
<1> DEFINE Growing == [\A i \in DOMAIN cell : cell'[i].node >= cell[i].node]_vars
<1>1. IInv /\ [Next]_vars => Growing
  BY NextKept DEF Grows
<1> QED
  BY <1>1, Invariance, PTL DEF Spec, NodeNeverDecreases
-----------------------------------------------------------------------------
(* What a step can do, seen from its thread: the frame before and after, and *)
(* the cell of its ticket.  One disjunct per step or group of steps.         *)

Cell(T) == T % N
\* A step of the thread t: the frame keeps its ticket and the loaded index word.
KeepsTicket(t) == op'[t].ticket = op[t].ticket
KeepsWord(t) ==
  KeepsTicket(t) /\ op'[t].node = op[t].node /\ op'[t].unsafe = op[t].unsafe
KeepsCall(t) == KeepsWord(t) /\ op'[t].arg = op[t].arg
Quiet == UNCHANGED <<head, tail, cell>>
Stores(t, v) ==
  /\ UNCHANGED <<head, tail>>
  /\ \A i \in 0..(N - 1) :
       /\ cell'[i].node = cell[i].node /\ cell'[i].unsafe = cell[i].unsafe
       /\ cell'[i].value = IF i = Cell(op[t].ticket) THEN v ELSE cell[i].value
Indexes(t, u, n) ==
  /\ UNCHANGED <<head, tail>>
  /\ \A i \in 0..(N - 1) :
       /\ cell'[i].value = cell[i].value
       /\ i = Cell(op[t].ticket) => cell'[i].node = n /\ cell'[i].unsafe = u
       /\ i # Cell(op[t].ticket) =>
            cell'[i].node = cell[i].node /\ cell'[i].unsafe = cell[i].unsafe
Here(t) == cell[Cell(op[t].ticket)]
SameWord(t) == Here(t).node = op[t].node /\ Here(t).unsafe = op[t].unsafe

Enters(t) ==
  /\ op[t].pc \in {"idle", "E_done", "D_done"}
  /\ op'[t].pc \in {"idle", "E_ticket", "D_size_tail", "D_ticket"} /\ Quiet
Draws(t) ==
  /\ op[t].pc = "E_ticket" /\ op'[t].pc = "E_index" /\ op'[t].arg = op[t].arg
  /\ op'[t].ticket = tail /\ tail' = tail + 1 /\ UNCHANGED <<head, cell>>
Loads(t) ==
  /\ \/ op[t].pc = "E_index" /\ op'[t].pc = "E_value" /\ op'[t].arg = op[t].arg
     \/ op[t].pc = "D_index" /\ op'[t].pc = "D_value"
  /\ op'[t].node = Here(t).node /\ op'[t].unsafe = Here(t).unsafe
  /\ KeepsTicket(t) /\ Quiet
Approves(t) ==
  /\ op[t].pc = "E_value" /\ op'[t].pc = (IF op[t].unsafe THEN "E_head" ELSE "E_reserve")
  /\ Here(t).value = Invalid /\ KeepsCall(t) /\ Quiet
Dares(t) ==
  /\ op[t].pc = "E_head" /\ op'[t].pc = "E_reserve"
  /\ head <= op[t].ticket /\ KeepsCall(t) /\ Quiet
Restarts(t) ==
  /\ op[t].pc \in {"E_value", "E_head", "E_reserve", "E_commit", "E_undo"}
  /\ op'[t].pc = "E_ticket" /\ op'[t].arg = op[t].arg /\ Quiet
  /\ op[t].pc \in {"E_commit", "E_undo"} => Here(t).value # t
Reserves(t) ==
  /\ op[t].pc = "E_reserve" /\ op'[t].pc = "E_advance"
  /\ Here(t).value = Invalid /\ Stores(t, t) /\ KeepsCall(t)
Advances(t) ==
  /\ op[t].pc = "E_advance" /\ op'[t].pc = "E_commit"
  /\ SameWord(t) /\ Indexes(t, FALSE, op[t].ticket + N) /\ KeepsCall(t)
Yields(t) == op[t].pc = "E_advance" /\ op'[t].pc = "E_undo" /\ KeepsCall(t) /\ Quiet
Commits(t) ==
  /\ op[t].pc = "E_commit" /\ op'[t].pc = "E_done" /\ op'[t].arg = op[t].arg
  /\ Here(t).value = t /\ Stores(t, op[t].arg)
Withdraws(t) ==
  /\ op[t].pc = "E_undo" /\ op'[t].pc = "E_ticket" /\ op'[t].arg = op[t].arg
  /\ Here(t).value = t /\ Stores(t, Invalid)
EnqueueOutcome(t) ==
  \/ Draws(t) \/ (op[t].pc = "E_index" /\ Loads(t)) \/ Approves(t) \/ Dares(t)
  \/ Restarts(t) \/ Reserves(t) \/ Advances(t) \/ Yields(t) \/ Commits(t) \/ Withdraws(t)

Claims(t) ==
  /\ op[t].pc = "D_ticket" /\ op'[t].pc = "D_index"
  /\ op'[t].ticket = head /\ head' = head + 1 /\ UNCHANGED <<tail, cell>>
Sees(t) ==
  /\ op[t].pc = "D_value" /\ op'[t].pc = "D_take" /\ op[t].node = op[t].ticket + N
  /\ op'[t].value = Here(t).value /\ Here(t).value \in Values
  /\ KeepsWord(t) /\ Quiet
Wonders(t) ==
  /\ op[t].pc = "D_value"
  /\ op'[t].pc = (IF op[t].unsafe THEN "D_recheck" ELSE "D_mark")
  /\ op[t].node < op[t].ticket + N /\ Here(t).value \in Values
  /\ KeepsWord(t) /\ Quiet
Waits(t) ==
  /\ op[t].pc = "D_value" /\ op'[t].pc = "D_tail"
  /\ op'[t].value = Here(t).value /\ Here(t).value \notin Values
  /\ KeepsWord(t) /\ Quiet
GoesOn(t) ==
  /\ \/ op[t].pc = "D_value" /\ op'[t].value = Here(t).value /\ Here(t).value \notin Values
     \/ op[t].pc = "D_tail" /\ op'[t].value = op[t].value
  /\ op'[t].pc = (IF op'[t].value \in Threads THEN "D_unbottom" ELSE "D_poison")
  /\ KeepsWord(t) /\ Quiet
Again(t) ==
  /\ op[t].pc \in {"D_value", "D_tail", "D_recheck", "D_mark", "D_unbottom", "D_poison"}
  /\ op'[t].pc = "D_index" /\ KeepsTicket(t) /\ Quiet
Passes(t) ==
  /\ \/ op[t].pc = "D_value" /\ op[t].ticket + N < op[t].node
     \/ op[t].pc = "D_recheck" /\ SameWord(t)
  /\ op'[t].pc = "D_last" /\ KeepsTicket(t) /\ Quiet
Takes(t) ==
  /\ op[t].pc = "D_take" /\ op'[t].pc = "D_done" /\ op'[t].arg = op[t].value
  /\ Stores(t, Invalid)
MarksUnsafe(t) ==
  /\ op[t].pc = "D_mark" /\ op'[t].pc = "D_last" /\ KeepsTicket(t)
  /\ SameWord(t) /\ Indexes(t, TRUE, op[t].node)
Evicts(t) ==
  /\ op[t].pc = "D_unbottom" /\ op'[t].pc = "D_poison" /\ KeepsWord(t)
  /\ Here(t).value = op[t].value /\ Stores(t, Invalid)
Poisons(t) ==
  /\ op[t].pc = "D_poison" /\ op'[t].pc = "D_last" /\ KeepsTicket(t)
  /\ SameWord(t) /\ Indexes(t, TRUE, op[t].ticket + N)
FixPcs == {"F_tail", "F_head", "F_again", "F_cas"}
Searches(t) ==
  /\ op[t].pc \in {"D_size_tail", "D_size_head", "D_last"} \cup FixPcs
  /\ op'[t].pc \in {"D_size_head", "D_ticket", "D_done"} \cup FixPcs
  /\ op'[t].pc = "D_done" => op'[t].arg \in {Invalid, Overflow}
  /\ op'[t].pc \in FixPcs \/ (op'[t].pc = "D_done" /\ op'[t].arg = Invalid) =>
       op[t].pc \in FixPcs \/ (op[t].pc = "D_last" /\ tail <= op[t].ticket + 1)
  /\ UNCHANGED <<head, cell>> /\ tail <= tail'
DequeueOutcome(t) ==
  \/ Claims(t) \/ (op[t].pc = "D_index" /\ Loads(t)) \/ Sees(t) \/ Wonders(t) \/ Waits(t)
  \/ GoesOn(t) \/ Again(t) \/ Passes(t) \/ Takes(t) \/ MarksUnsafe(t) \/ Evicts(t)
  \/ Poisons(t) \/ Searches(t)

Outcome(t) ==
  /\ \A u \in Threads \ {t} : op'[u] = op[u]
  /\ Enters(t) \/ EnqueueOutcome(t) \/ DequeueOutcome(t)

\* The one frame that changes.
LEMMA Becomes ==
  ASSUME RingInv, NEW t \in Threads, NEW f, Become(t, f)
  PROVE  op'[t] = f /\ \A u \in Threads \ {t} : op'[u] = op[u]
BY DEF Become, RingInv

\* Where the two kinds of stores go.
LEMMA ValueStored ==
  ASSUME RingInv, NEW t \in Threads, NEW v, SetValue(t, v), UNCHANGED <<head, tail>>
  PROVE  Stores(t, v)
<1> DEFINE i == Pos(t)
           e == [cell[i] EXCEPT !.value = v]
<1>1. i \in 0..(N - 1) /\ cell[i] \in Cells /\ DOMAIN cell = 0..(N - 1)
  BY Position DEF RingInv
<1>2. e.node = cell[i].node /\ e.unsafe = cell[i].unsafe /\ e.value = v
  BY <1>1 DEF Cells
<1>3. cell' = [cell EXCEPT ![i] = e]
  BY DEF SetValue
<1>4. i = Cell(op[t].ticket)
  BY DEF Pos, Cell
<1> HIDE DEF e, i
<1> QED
  BY <1>1, <1>2, <1>3, <1>4 DEF Stores

\* The same of the index word.
LEMMA IndexStored ==
  ASSUME RingInv, NEW t \in Threads, NEW u, NEW n, SetIndex(t, u, n),
         UNCHANGED <<head, tail>>
  PROVE  Indexes(t, u, n)
<1> DEFINE i == Pos(t)
           e == [cell[i] EXCEPT !.unsafe = u, !.node = n]
<1>1. i \in 0..(N - 1) /\ cell[i] \in Cells /\ DOMAIN cell = 0..(N - 1)
  BY Position DEF RingInv
<1>2. e.node = n /\ e.unsafe = u /\ e.value = cell[i].value
  BY <1>1 DEF Cells
<1>3. cell' = [cell EXCEPT ![i] = e]
  BY <1>1 DEF SetIndex
<1>4. i = Cell(op[t].ticket)
  BY DEF Pos, Cell
<1> HIDE DEF e, i
<1> QED
  BY <1>1, <1>2, <1>3, <1>4 DEF Indexes

\* The fields of the frames a step builds.
LEMMA Fields ==
  ASSUME NEW f \in Frames
  PROVE  /\ \A pc : LET g == [f EXCEPT !.pc = pc]
                    IN  /\ g.pc = pc /\ g.arg = f.arg /\ g.ticket = f.ticket
                        /\ g.node = f.node /\ g.unsafe = f.unsafe /\ g.value = f.value
         /\ LET g == Forget(f, "D_index")
            IN  g.pc = "D_index" /\ g.ticket = f.ticket
         /\ LET g == [Forget(f, "D_index") EXCEPT !.attempt = @ + 1]
            IN  g.pc = "D_index" /\ g.ticket = f.ticket
         /\ Leave(f).pc = "D_last" /\ Leave(f).ticket = f.ticket
<1>1. \A pc : LET g == [f EXCEPT !.pc = pc]
              IN  /\ g.pc = pc /\ g.arg = f.arg /\ g.ticket = f.ticket
                  /\ g.node = f.node /\ g.unsafe = f.unsafe /\ g.value = f.value
  BY DEF Frames
<1> DEFINE h == Forget(f, "D_index")
<1>2. /\ h.pc = "D_index" /\ h.ticket = f.ticket
      /\ DOMAIN h = {"pc", "arg", "ticket", "node", "unsafe", "value", "attempt", "tt"}
  BY DEF Forget, Frames
<1>3. LET g == [h EXCEPT !.attempt = @ + 1] IN g.pc = "D_index" /\ g.ticket = f.ticket
  <2> HIDE DEF h
  <2> QED
    BY <1>2
<1>4. Leave(f).pc = "D_last" /\ Leave(f).ticket = f.ticket
  BY DEF Leave, Frame
<1> QED
  BY <1>1, <1>2, <1>3, <1>4

\* Every step of enqueue is one of the outcomes above.
LEMMA EnqueueOutcomes ==
  ASSUME RingInv, NEW t \in Threads, EnqueueStep(t)
  PROVE  EnqueueOutcome(t)
<1> DEFINE f == op[t]
           again == Frame("E_ticket", f.arg)
           to(pc) == [f EXCEPT !.pc = pc]
<1>0. f \in Frames /\ Here(t) = cell[Pos(t)] /\ Here(t) \in Cells
  BY Before DEF Here, Pos, Cell
<1>1. again.pc = "E_ticket" /\ again.arg = f.arg
  BY DEF Frame
<1>2. \A pc : /\ to(pc).pc = pc /\ to(pc).arg = f.arg /\ to(pc).ticket = f.ticket
              /\ to(pc).node = f.node /\ to(pc).unsafe = f.unsafe
  BY <1>0, Fields
<1>3. NewTicket(t) => op'[t].pc = "E_ticket" /\ op'[t].arg = op[t].arg
  BY <1>1, Becomes DEF NewTicket
<1>4. \A pc : Goto(t, pc) => op'[t].pc = pc /\ KeepsCall(t)
  <2> SUFFICES ASSUME NEW pc, Goto(t, pc) PROVE op'[t].pc = pc /\ KeepsCall(t)
    OBVIOUS
  <2>1. op'[t] = to(pc)
    BY Becomes DEF Goto
  <2> HIDE DEF to
  <2> QED
    BY <1>2, <2>1 DEF KeepsCall, KeepsWord, KeepsTicket
<1>5. CASE EnqTicket(t)
  <2> DEFINE g == [f EXCEPT !.pc = "E_index", !.ticket = tail]
  <2>1. g.pc = "E_index" /\ g.ticket = tail /\ g.arg = f.arg
    BY <1>0 DEF Frames
  <2>2. op'[t] = g
    BY <1>5, Becomes DEF EnqTicket
  <2> HIDE DEF g
  <2> QED
    BY <1>5, <2>1, <2>2 DEF EnqTicket, Draws, EnqueueOutcome
<1>6. CASE EnqIndex(t)
  <2> DEFINE c == Here(t)
             g == [f EXCEPT !.pc = "E_value", !.node = c.node, !.unsafe = c.unsafe]
  <2>1. /\ g.pc = "E_value" /\ g.ticket = f.ticket /\ g.arg = f.arg
        /\ g.node = c.node /\ g.unsafe = c.unsafe
    BY <1>0 DEF Frames
  <2>2. op'[t] = g
    BY <1>0, <1>6, Becomes DEF EnqIndex
  <2> HIDE DEF g
  <2> QED
    BY <1>6, <2>1, <2>2 DEF EnqIndex, Loads, KeepsTicket, Quiet, EnqueueOutcome
<1>7. CASE EnqValue(t)
  BY <1>0, <1>3, <1>4, <1>7
     DEF EnqValue, Vacant, Approves, Restarts, Quiet, EnqueueOutcome, Frames
<1>8. CASE EnqHead(t)
  BY <1>3, <1>4, <1>8 DEF EnqHead, Dares, Restarts, Quiet, EnqueueOutcome
<1>9. CASE EnqReserve(t)
  BY <1>0, <1>3, <1>4, <1>9, ValueStored
     DEF EnqReserve, Bottom, Reserves, Restarts, Quiet, EnqueueOutcome
<1>10. CASE EnqAdvance(t)
  BY <1>0, <1>4, <1>10, IndexStored
     DEF EnqAdvance, SameIndex, SameWord, Advances, Yields, Quiet, EnqueueOutcome
<1>11. CASE EnqCommit(t)
  <2>1. Become(t, Enqueued(f.arg)) => op'[t].pc = "E_done" /\ op'[t].arg = op[t].arg
    BY Becomes DEF Enqueued, Frame
  <2> QED
    BY <1>0, <1>3, <1>11, <2>1, ValueStored
       DEF EnqCommit, Bottom, Commits, Restarts, Quiet, EnqueueOutcome
<1>12. CASE EnqUndo(t)
  BY <1>0, <1>3, <1>12, ValueStored
     DEF EnqUndo, Bottom, Withdraws, Restarts, Quiet, EnqueueOutcome
<1> QED
  BY <1>5, <1>6, <1>7, <1>8, <1>9, <1>10, <1>11, <1>12 DEF EnqueueStep

\* What Patience says of the cell that holds no index.
LEMMA Patient ==
  ASSUME NEW f \in Frames, f.value \in Threads \cup {Invalid}
  PROVE  LET g == Patience(f)
         IN  /\ g.ticket = f.ticket
             /\ \/ g.pc = "D_index"
                \/ /\ g.pc = (IF f.value \in Threads THEN "D_unbottom" ELSE "D_poison")
                   /\ g.node = f.node /\ g.unsafe = f.unsafe /\ g.value = f.value
<1> DEFINE g == [f EXCEPT !.pc = IF isBottom(f.value) THEN "D_unbottom" ELSE "D_poison"]
           h == [Forget(f, "D_index") EXCEPT !.attempt = @ + 1]
<1>1. Patience(f) = g \/ Patience(f) = h
  BY DEF Patience
<1>2. h.pc = "D_index" /\ h.ticket = f.ticket
  BY Fields
<1>3. /\ g.pc = (IF f.value \in Threads THEN "D_unbottom" ELSE "D_poison")
      /\ g.ticket = f.ticket /\ g.node = f.node /\ g.unsafe = f.unsafe /\ g.value = f.value
  BY DEF Frames, isBottom
<1> HIDE DEF g, h
<1> QED
  BY <1>1, <1>2, <1>3

\* So is the read of the value in dequeue,
LEMMA DeqValueOutcomes ==
  ASSUME RingInv, NEW t \in Threads, DeqValue(t)
  PROVE  DequeueOutcome(t)
<1> DEFINE v == cell[Pos(t)].value
           f == [op[t] EXCEPT !.value = v]
           to(pc) == [f EXCEPT !.pc = pc]
<1>0. /\ op[t] \in Frames /\ Here(t) = cell[Pos(t)] /\ v \in Words
      /\ op[t].node \in Nat /\ op[t].ticket \in Nat /\ op[t].unsafe \in BOOLEAN
  BY Before DEF Here, Pos, Cell, Cells, Frames
<1>1. /\ f \in Frames /\ f.value = v /\ f.node = op[t].node /\ f.ticket = op[t].ticket
      /\ f.unsafe = op[t].unsafe
  BY <1>0 DEF Frames
<1>2. Element(v) <=> v \in Values
  BY <1>0, WordAssumption DEF Element, isBottom, Words
<1>3. /\ op[t].pc = "D_value" /\ Quiet
      /\ \/ f.ticket + N < f.node /\ Become(t, Leave(f))
         \/ Element(v) /\ f.node = f.ticket + N /\ Become(t, to("D_take"))
         \/ /\ Element(v) /\ f.node <= f.ticket + N /\ f.node # f.ticket + N
            /\ f.unsafe /\ Become(t, to("D_recheck"))
         \/ /\ Element(v) /\ f.node <= f.ticket + N /\ f.node # f.ticket + N
            /\ ~f.unsafe /\ Become(t, to("D_mark"))
         \/ ~Element(v) /\ Become(t, to("D_tail"))
         \/ ~Element(v) /\ Become(t, Patience(f))
  BY DEF DeqValue, Quiet
<1>4. Here(t).value = v
  BY <1>0
<1> HIDE DEF v, f
<1>5. \A pc : /\ to(pc).pc = pc /\ to(pc).ticket = f.ticket /\ to(pc).node = f.node
              /\ to(pc).unsafe = f.unsafe /\ to(pc).value = f.value
  BY <1>1, Fields
<1> HIDE DEF to
<1>6. CASE f.ticket + N < f.node /\ Become(t, Leave(f))
  <2>1. op'[t] = Leave(f)
    BY <1>6, Becomes
  <2> QED
    BY <1>1, <1>3, <1>6, <2>1, Fields DEF Passes, KeepsTicket, DequeueOutcome
<1>7. CASE Element(v) /\ f.node = f.ticket + N /\ Become(t, to("D_take"))
  <2>1. op'[t] = to("D_take")
    BY <1>7, Becomes
  <2> QED
    BY <1>1, <1>2, <1>3, <1>4, <1>5, <1>7, <2>1
       DEF Sees, KeepsWord, KeepsTicket, DequeueOutcome
<1>8. ASSUME NEW pc \in {"D_recheck", "D_mark"}, f.unsafe <=> pc = "D_recheck", Element(v),
             f.node <= f.ticket + N /\ f.node # f.ticket + N, Become(t, to(pc))
      PROVE  DequeueOutcome(t)
  <2>1. op'[t] = to(pc)
    BY <1>8, Becomes
  <2>2. op'[t].pc = IF op[t].unsafe THEN "D_recheck" ELSE "D_mark"
    BY <1>1, <1>5, <1>8, <2>1
  <2>3. op[t].node < op[t].ticket + N
    BY <1>0, <1>1, <1>8, NAssumption
  <2> QED
    BY <1>1, <1>2, <1>3, <1>4, <1>5, <1>8, <2>1, <2>2, <2>3
       DEF Wonders, KeepsWord, KeepsTicket, DequeueOutcome
<1>9. CASE ~Element(v) /\ Become(t, to("D_tail"))
  <2>1. op'[t] = to("D_tail")
    BY <1>9, Becomes
  <2> QED
    BY <1>1, <1>2, <1>3, <1>4, <1>5, <1>9, <2>1
       DEF Waits, KeepsWord, KeepsTicket, DequeueOutcome
<1>10. CASE ~Element(v) /\ Become(t, Patience(f))
  <2>1. op'[t] = Patience(f)
    BY <1>10, Becomes
  <2>2. f.value \in Threads \cup {Invalid}
    BY <1>0, <1>1, <1>2, <1>10 DEF Words
  <2>3. \/ op'[t].pc = "D_index" /\ KeepsTicket(t)
        \/ /\ op'[t].pc = (IF op'[t].value \in Threads THEN "D_unbottom" ELSE "D_poison")
           /\ KeepsWord(t) /\ op'[t].value = v
    BY <1>1, <2>1, <2>2, Patient DEF KeepsWord, KeepsTicket
  <2> QED
    BY <1>2, <1>3, <1>4, <1>10, <2>3 DEF GoesOn, Again, DequeueOutcome
<1> QED
  BY <1>3, <1>6, <1>7, <1>8, <1>9, <1>10

\* and every other step of dequeue.
LEMMA DequeueOutcomes ==
  ASSUME RingInv, NEW t \in Threads, DequeueStep(t)
  PROVE  DequeueOutcome(t)
<1> DEFINE f == op[t]
<1>0. /\ f \in Frames /\ Sound(f) /\ Here(t) = cell[Pos(t)] /\ Here(t) \in Cells
      /\ head \in Nat /\ tail \in Nat /\ f.ticket \in Nat /\ f.tt \in Nat
  BY Before DEF Here, Pos, Cell, Frames
<1>1. \A g : Become(t, g) => op'[t] = g
  BY Becomes
<1>2. /\ \A pc : LET g == Frame(pc, Invalid) IN g.pc = pc /\ g.arg = Invalid
      /\ \A a : Answer(a).pc = "D_done" /\ Answer(a).arg = a
  BY DEF Frame, Answer
<1>3. /\ Become(t, Leave(f)) => op'[t].pc = "D_last" /\ KeepsTicket(t)
      /\ Become(t, Forget(f, "D_index")) => op'[t].pc = "D_index" /\ KeepsTicket(t)
      /\ Become(t, [Forget(f, "D_index") EXCEPT !.attempt = @ + 1])
           => op'[t].pc = "D_index" /\ KeepsTicket(t)
  <2> DEFINE a == Leave(f)
             b == Forget(f, "D_index")
             c == [Forget(f, "D_index") EXCEPT !.attempt = @ + 1]
  <2>1. /\ a.pc = "D_last" /\ a.ticket = f.ticket
        /\ b.pc = "D_index" /\ b.ticket = f.ticket
        /\ c.pc = "D_index" /\ c.ticket = f.ticket
    BY <1>0, Fields
  <2> SUFFICES /\ Become(t, a) => op'[t].pc = "D_last" /\ KeepsTicket(t)
               /\ Become(t, b) => op'[t].pc = "D_index" /\ KeepsTicket(t)
               /\ Become(t, c) => op'[t].pc = "D_index" /\ KeepsTicket(t)
    OBVIOUS
  <2> HIDE DEF a, b, c
  <2> QED
    BY <1>1, <2>1 DEF KeepsTicket
<1>4. CASE DeqSizeTail(t)
  <2> DEFINE g == [f EXCEPT !.pc = "D_size_head", !.tt = tail]
  <2>1. g.pc = "D_size_head"
    BY <1>0 DEF Frames
  <2>2. op'[t] = g
    BY <1>1, <1>4 DEF DeqSizeTail
  <2> HIDE DEF g
  <2> QED
    BY <1>0, <1>4, <2>1, <2>2 DEF DeqSizeTail, Searches, FixPcs, DequeueOutcome
<1>5. CASE DeqSizeHead(t)
  <2>1. op'[t] = Frame("D_ticket", Invalid) \/ op'[t] = Answer(Overflow)
    BY <1>1, <1>5 DEF DeqSizeHead
  <2>2. op'[t].pc = "D_ticket" \/ (op'[t].pc = "D_done" /\ op'[t].arg = Overflow)
    BY <1>2, <2>1
  <2>3. f.pc = "D_size_head" /\ UNCHANGED <<head, tail, cell>>
    BY <1>5 DEF DeqSizeHead
  <2> QED
    BY <1>0, <2>2, <2>3, WordAssumption DEF Searches, FixPcs, DequeueOutcome
<1>6. CASE DeqTicket(t)
  <2> DEFINE g == [Frame("D_index", Invalid) EXCEPT !.ticket = head]
  <2>1. g.pc = "D_index" /\ g.ticket = head
    BY DEF Frame
  <2>2. op'[t] = g
    BY <1>1, <1>6 DEF DeqTicket
  <2> HIDE DEF g
  <2> QED
    BY <1>6, <2>1, <2>2 DEF DeqTicket, Claims, DequeueOutcome
<1>7. CASE DeqIndex(t)
  <2> DEFINE c == Here(t)
             g == [f EXCEPT !.pc = "D_value", !.node = c.node, !.unsafe = c.unsafe]
  <2>1. g.pc = "D_value" /\ g.ticket = f.ticket /\ g.node = c.node /\ g.unsafe = c.unsafe
    BY <1>0 DEF Frames
  <2>2. op'[t] = g
    BY <1>0, <1>1, <1>7 DEF DeqIndex
  <2> HIDE DEF g
  <2> QED
    BY <1>7, <2>1, <2>2 DEF DeqIndex, Loads, KeepsTicket, Quiet, DequeueOutcome
<1>8. CASE DeqTake(t)
  BY <1>1, <1>2, <1>8, ValueStored DEF DeqTake, Takes, DequeueOutcome
<1>9. CASE DeqRecheck(t)
  BY <1>0, <1>3, <1>9
     DEF DeqRecheck, SameIndex, SameWord, Passes, Again, Quiet, DequeueOutcome
<1>10. CASE DeqMark(t)
  BY <1>0, <1>3, <1>10, IndexStored
     DEF DeqMark, SameIndex, SameWord, MarksUnsafe, Again, Quiet, DequeueOutcome
<1>11. CASE DeqTail(t)
  <2> DEFINE g == [f EXCEPT !.tt = tail]
  <2>1. /\ g \in Frames /\ g.node = f.node /\ g.unsafe = f.unsafe /\ g.ticket = f.ticket
        /\ g.value = f.value
    BY <1>0 DEF Frames
  <2>2. op'[t] = Patience(g) /\ f.pc = "D_tail" /\ Quiet
    BY <1>1, <1>11 DEF DeqTail, Quiet
  <2>3. f.value \in Threads \cup {Invalid}
    BY <1>0, <2>2 DEF Sound
  <2> HIDE DEF g
  <2>4. \/ op'[t].pc = "D_index" /\ KeepsTicket(t)
        \/ /\ op'[t].pc = (IF op'[t].value \in Threads THEN "D_unbottom" ELSE "D_poison")
           /\ KeepsWord(t) /\ op'[t].value = op[t].value
    BY <2>1, <2>2, <2>3, Patient DEF KeepsWord, KeepsTicket
  <2> QED
    BY <2>2, <2>4 DEF GoesOn, Again, DequeueOutcome
<1>12. CASE DeqUnbottom(t)
  <2> DEFINE g == [f EXCEPT !.pc = "D_poison"]
  <2>0. g.pc = "D_poison" /\ g.ticket = f.ticket /\ g.node = f.node /\ g.unsafe = f.unsafe
    BY <1>0 DEF Frames
  <2>1. Goto(t, "D_poison") => op'[t].pc = "D_poison" /\ KeepsWord(t)
    <3>1. Goto(t, "D_poison") => Become(t, g)
      BY DEF Goto
    <3> HIDE DEF g
    <3> QED
      BY <1>1, <2>0, <3>1 DEF KeepsWord, KeepsTicket
  <2> HIDE DEF g
  <2> QED
    BY <1>0, <1>3, <1>12, <2>1, ValueStored
       DEF DeqUnbottom, Evicts, Again, Quiet, DequeueOutcome
<1>13. CASE DeqPoison(t)
  BY <1>0, <1>3, <1>13, IndexStored
     DEF DeqPoison, SameIndex, SameWord, Poisons, Again, Quiet, DequeueOutcome
<1>14. CASE DeqLast(t)
  BY <1>0, <1>1, <1>2, <1>14 DEF DeqLast, Searches, FixPcs, DequeueOutcome
<1>15. CASE FixTail(t)
  <2> DEFINE g == [f EXCEPT !.pc = "F_head", !.tt = tail]
  <2>1. g.pc = "F_head"
    BY <1>0 DEF Frames
  <2>2. op'[t] = g
    BY <1>1, <1>15 DEF FixTail
  <2> HIDE DEF g
  <2> QED
    BY <1>0, <1>15, <2>1, <2>2 DEF FixTail, Searches, FixPcs, DequeueOutcome
<1>16. CASE FixHead(t)
  <2> DEFINE g == [f EXCEPT !.pc = "F_again", !.ticket = head]
  <2>1. g.pc = "F_again"
    BY <1>0 DEF Frames
  <2>2. op'[t] = g
    BY <1>1, <1>16 DEF FixHead
  <2> HIDE DEF g
  <2> QED
    BY <1>0, <1>16, <2>1, <2>2 DEF FixHead, Searches, FixPcs, DequeueOutcome
<1>17. CASE FixAgain(t)
  <2> DEFINE g == [f EXCEPT !.pc = "F_cas"]
  <2>1. Goto(t, "F_cas") => op'[t].pc = "F_cas"
    <3>1. g.pc = "F_cas" /\ (Goto(t, "F_cas") => Become(t, g))
      BY <1>0 DEF Goto, Frames
    <3> HIDE DEF g
    <3> QED
      BY <1>1, <3>1
  <2> HIDE DEF g
  <2> QED
    BY <1>0, <1>1, <1>2, <1>17, <2>1 DEF FixAgain, Searches, FixPcs, DequeueOutcome
<1>18. CASE FixCas(t)
  <2>1. op[t].tt < op[t].ticket
    BY <1>0, <1>18 DEF FixCas, Sound
  <2> QED
    BY <1>0, <1>1, <1>2, <1>18, <2>1 DEF FixCas, Searches, FixPcs, DequeueOutcome
<1> QED
  BY <1>4, <1>5, <1>6, <1>7, <1>8, <1>9, <1>10, <1>11, <1>12, <1>13, <1>14, <1>15,
     <1>16, <1>17, <1>18, DeqValueOutcomes DEF DequeueStep
-----------------------------------------------------------------------------
(* Why a ticket's index is taken once.  A cell "fills" when an enqueuer that *)
(* still owns its mark moves the index word on; until the word moves again a *)
(* cell can only cease to be filling.  So whoever saw the cell vacant under  *)
(* an index word knows it vacant for as long as the word stays.              *)

BoundPcs == {"E_advance", "E_commit", "E_undo"}
LatePcs == EnqueuePcs \ {"E_ticket"}
LoadedPcs == {"E_value", "E_head", "E_reserve", "E_advance", "D_value", "D_take",
              "D_recheck", "D_mark", "D_tail", "D_unbottom", "D_poison"}

Filling(i) == \/ cell[i].value \in Values
              \/ \E e \in Threads : cell[i].value = e /\ op[e].pc = "E_commit"

FillingHere(t) == Filling(Cell(op[t].ticket))

\* The mark in a cell is that of an enqueuer at this cell, and the index word
\* is the one it has stored if it has.
MarksAreOwned == \A i \in 0..(N - 1), e \in Threads : cell[i].value = e =>
  /\ op[e].pc \in BoundPcs /\ Cell(op[e].ticket) = i
  /\ op[e].pc = "E_commit" => cell[i].node = op[e].ticket + N

\* A filling cell carries the ticket of an enqueuer.
FilledByTicket == \A i \in 0..(N - 1) : Filling(i) =>
  \E T \in Nat : T < tail /\ Cell(T) = i /\ cell[i].node = T + N

\* What a thread has loaded or read is old, but not wrong.
SawVacant(t) == \/ op[t].pc \in {"E_head", "E_reserve", "E_advance", "D_poison"}
                \/ op[t].pc = "D_tail" /\ op[t].value = Invalid
ViewsAreOld == \A t \in Threads : op[t].pc \in LoadedPcs =>
  /\ op[t].node <= Here(t).node
  /\ op[t].node = Here(t).node =>
       /\ op[t].unsafe => Here(t).unsafe
       /\ SawVacant(t) => ~FillingHere(t)

\* Tickets are drawn from the counters, those of dequeuers once.
TicketsAreDrawn == \A t \in Threads :
  /\ op[t].pc \in TicketPcs \cup {"D_last"} => op[t].ticket < head
  /\ op[t].pc \in LatePcs => op[t].ticket < tail
  /\ op[t].pc \in TicketPcs =>
       \A u \in Threads : op[u].pc \in TicketPcs /\ op[u].ticket = op[t].ticket => u = t

\* What dequeuers have decided on.
Decisions == \A t \in Threads :
  /\ op[t].pc = "D_take" => op[t].node = op[t].ticket + N
  /\ op[t].pc \in {"D_recheck", "D_mark"} =>
       op[t].node < op[t].ticket + N /\ (op[t].unsafe <=> op[t].pc = "D_recheck")

\* An enqueuer that may still use an unsafe index word for a ticket up to T.
Risk(T, n) == \E e \in Threads :
  /\ op[e].pc \in {"E_reserve", "E_advance"} /\ op[e].unsafe
  /\ Cell(op[e].ticket) = Cell(T) /\ op[e].ticket <= T /\ op[e].node = n
\* No enqueuer can store an index under T any more, and there is none.
Dead(T) ==
  /\ cell[Cell(T)].node = T + N => ~Filling(Cell(T))
  /\ cell[Cell(T)].node < T + N =>
       cell[Cell(T)].unsafe /\ ~Risk(T, cell[Cell(T)].node)
RiskHere(t) == Risk(op[t].ticket, op[t].node)
Served(T) == \E t \in Threads : op[t].pc \in TicketPcs /\ op[t].ticket = T
LeftIsDead == \A T \in Nat : T < head /\ ~Served(T) => Dead(T)
\* A dequeuer that is about to leave its cell unsafe leaves it dead.
LeavingIsSafe == \A t \in Threads :
  op[t].pc \in {"D_recheck", "D_mark"} /\ Here(t).node = op[t].node => ~RiskHere(t)

TicketInv == /\ MarksAreOwned /\ FilledByTicket /\ ViewsAreOld /\ TicketsAreDrawn
             /\ Decisions /\ LeftIsDead /\ LeavingIsSafe

\* The types of what the proofs below calculate with.
Typed ==
  /\ head \in Nat /\ tail \in Nat
  /\ \A i \in 0..(N - 1) : /\ cell[i].node \in Nat /\ cell[i].unsafe \in BOOLEAN
                           /\ cell[i].value \in Words
  /\ \A t \in Threads :
       /\ op[t].pc \in Pcs /\ op[t].ticket \in Nat /\ op[t].node \in Nat
       /\ op[t].unsafe \in BOOLEAN /\ Sound(op[t]) /\ op[t].value \in Words
       /\ Cell(op[t].ticket) \in 0..(N - 1)

\* A ticket's position is a cell.
LEMMA CellIsCell ==
  \A T \in Nat : Cell(T) \in 0..(N - 1)
BY NAssumption DEF Cell

\* The invariant of the theorem above gives these types,
LEMMA Types == RingInv => Typed
BY CellIsCell DEF RingInv, Typed, Good, Frames, Cells

\* also after a step.
LEMMA TypesNext == RingInv' => Typed'
BY CellIsCell DEF RingInv, Typed, Good, Frames, Cells

\* The steps that touch a cell, and those that do not.
LEMMA Touches ==
  ASSUME NEW t \in Threads, Outcome(t)
  PROVE  \/ UNCHANGED cell /\ (op'[t].pc = "E_commit" => op[t].pc = "E_commit")
         \/ Reserves(t) \/ Advances(t) \/ Commits(t) \/ Withdraws(t)
         \/ Takes(t) \/ MarksUnsafe(t) \/ Evicts(t) \/ Poisons(t)
BY DEF Outcome, Enters, EnqueueOutcome, DequeueOutcome, Draws, Loads, Approves, Dares,
       Restarts, Yields, Claims, Sees, Wonders, Waits, GoesOn, Again, Passes, Searches,
       FixPcs, Quiet

\* Within one index word a cell only ceases to be filling, and the word only
\* becomes unsafe.
Progress ==
  /\ head <= head' /\ tail <= tail'
  /\ \A i \in 0..(N - 1) :
       /\ cell[i].node <= cell'[i].node
       /\ cell'[i].node = cell[i].node =>
            /\ cell[i].unsafe => cell'[i].unsafe
            /\ Filling(i)' => Filling(i)

\* No step takes a ticket back.
LEMMA CountersGrow ==
  ASSUME Typed, NEW t \in Threads, Outcome(t)
  PROVE  head <= head' /\ tail <= tail'
<1>1. UNCHANGED <<head, tail>> \/ Draws(t) \/ Claims(t) \/ Searches(t)
  BY DEF Outcome, Enters, EnqueueOutcome, DequeueOutcome, Loads, Approves, Dares,
         Restarts, Reserves, Advances, Yields, Commits, Withdraws, Sees, Wonders,
         Waits, GoesOn, Again, Passes, Takes, MarksUnsafe, Evicts, Poisons,
         Quiet, Stores, Indexes
<1> QED
  BY <1>1 DEF Draws, Claims, Searches, Typed

\* Every step of a thread is progress in that sense.
LEMMA StepsProgress ==
  ASSUME Typed, Typed', MarksAreOwned, NEW t \in Threads, Outcome(t)
  PROVE  Progress
<1>0. \A u \in Threads \ {t} : op'[u] = op[u]
  BY DEF Outcome
<1>1. head <= head' /\ tail <= tail'
  BY CountersGrow
<1> SUFFICES ASSUME NEW i \in 0..(N - 1)
             PROVE  /\ cell[i].node <= cell'[i].node
                    /\ cell'[i].node = cell[i].node =>
                         /\ cell[i].unsafe => cell'[i].unsafe
                         /\ Filling(i)' => Filling(i)
  BY <1>1 DEF Progress
<1>2. CASE UNCHANGED cell /\ (op'[t].pc = "E_commit" => op[t].pc = "E_commit")
  BY <1>0, <1>2 DEF Filling, Typed
<1>3. CASE Reserves(t)
  BY <1>0, <1>3, WordAssumption DEF Reserves, Stores, Filling, Typed
<1>4. CASE Advances(t)
  <2>1. op[t].node <= op[t].ticket /\ Here(t).node = op[t].node
    BY <1>4 DEF Advances, Typed, Sound, SameWord
  <2>2. CASE i = Cell(op[t].ticket)
    BY <1>4, <2>1, <2>2, NAssumption DEF Advances, Indexes, Typed, Here
  <2>3. CASE i # Cell(op[t].ticket)
    <3>1. cell'[i].value = cell[i].value /\ cell'[i].node = cell[i].node
          /\ cell'[i].unsafe = cell[i].unsafe
      BY <1>4, <2>3 DEF Advances, Indexes
    <3>2. cell[i].value # t
      BY <2>3 DEF MarksAreOwned
    <3> QED
      BY <1>0, <3>1, <3>2 DEF Filling, Typed
  <2> QED
    BY <2>2, <2>3
<1>5. CASE Commits(t)
  BY <1>0, <1>5 DEF Commits, Stores, Filling, Typed, Here
<1>6. CASE Withdraws(t)
  BY <1>0, <1>6, WordAssumption DEF Withdraws, Stores, Filling, Typed
<1>7. CASE Takes(t)
  BY <1>0, <1>7, WordAssumption DEF Takes, Stores, Filling, Typed
<1>8. CASE MarksUnsafe(t)
  BY <1>0, <1>8 DEF MarksUnsafe, Indexes, Filling, Typed, SameWord, Here
<1>9. CASE Evicts(t)
  BY <1>0, <1>9, WordAssumption DEF Evicts, Stores, Filling, Typed
<1>10. CASE Poisons(t)
  <2>1. op[t].node <= op[t].ticket + N /\ Here(t).node = op[t].node
    BY <1>10 DEF Poisons, Typed, Sound, SameWord
  <2> QED
    BY <1>0, <1>10, <2>1 DEF Poisons, Indexes, Filling, Typed, Here
<1> QED
  BY <1>2, <1>3, <1>4, <1>5, <1>6, <1>7, <1>8, <1>9, <1>10, Touches

\* Where tickets, loaded index words and arguments come from.
LEMMA Sources ==
  ASSUME NEW t \in Threads, Outcome(t)
  PROVE  /\ op'[t].pc \in TicketPcs \cup {"D_last"} =>
              (op[t].pc \in TicketPcs /\ KeepsTicket(t)) \/ Claims(t)
         /\ op'[t].pc \in LatePcs => (op[t].pc \in LatePcs /\ KeepsTicket(t)) \/ Draws(t)
         /\ op'[t].pc \in LoadedPcs => (op[t].pc \in LoadedPcs /\ KeepsWord(t)) \/ Loads(t)
         /\ head' = head \/ Claims(t)
<1> USE DEF LatePcs, EnqueuePcs, LoadedPcs, TicketPcs
<1>1. Outcome(t) => Enters(t) \/ EnqueueOutcome(t) \/ DequeueOutcome(t)
  BY DEF Outcome
<1>2. CASE Enters(t)
  BY <1>2 DEF Enters, Quiet
<1>3. CASE EnqueueOutcome(t)
  BY <1>3 DEF EnqueueOutcome, Draws, Loads, Approves, Dares, Restarts, Reserves, Advances,
       Yields, Commits, Withdraws, Quiet, Stores, Indexes, KeepsCall, KeepsWord
<1>4. CASE DequeueOutcome(t)
  BY <1>4 DEF DequeueOutcome, Claims, Loads, Sees, Wonders, Waits, GoesOn, Again, Passes,
       Takes, MarksUnsafe, Evicts, Poisons, Searches, FixPcs, Quiet, Stores, Indexes,
       KeepsWord
<1> QED
  BY <1>1, <1>2, <1>3, <1>4

\* Two fetch-adds never give two dequeuers one ticket.
LEMMA TicketsKept ==
  ASSUME Typed, Typed', TicketsAreDrawn, NEW t \in Threads, Outcome(t)
  PROVE  TicketsAreDrawn'
<1>0. \A u \in Threads \ {t} : op'[u] = op[u]
  BY DEF Outcome
<1>1. head <= head' /\ tail <= tail'
  BY CountersGrow
<1>2. /\ op'[t].pc \in TicketPcs \cup {"D_last"} =>
           \/ op[t].pc \in TicketPcs /\ op'[t].ticket = op[t].ticket
           \/ op'[t].ticket = head /\ head' = head + 1
      /\ op'[t].pc \in LatePcs =>
           \/ op[t].pc \in LatePcs /\ op'[t].ticket = op[t].ticket
           \/ op'[t].ticket = tail /\ tail' = tail + 1
  BY Sources DEF KeepsTicket, Claims, Draws
<1>3. ASSUME NEW u \in Threads
      PROVE  /\ op'[u].pc \in TicketPcs \cup {"D_last"} => op'[u].ticket < head'
             /\ op'[u].pc \in LatePcs => op'[u].ticket < tail'
  BY <1>0, <1>1, <1>2 DEF Typed, TicketsAreDrawn
<1>4. ASSUME NEW u \in Threads, NEW w \in Threads,
             op'[u].pc \in TicketPcs, op'[w].pc \in TicketPcs, op'[u].ticket = op'[w].ticket
      PROVE  u = w
  BY <1>0, <1>2, <1>4 DEF Typed, TicketsAreDrawn
<1> QED
  BY <1>3, <1>4 DEF TicketsAreDrawn

\* A decision is made on the loaded index word.
LEMMA DecisionsKept ==
  ASSUME Typed, Typed', Decisions, NEW t \in Threads, Outcome(t)
  PROVE  Decisions'
<1>0. \A u \in Threads \ {t} : op'[u] = op[u]
  BY DEF Outcome
<1>1. op'[t].pc = "D_take" => Sees(t)
  BY DEF Outcome, Enters, EnqueueOutcome, DequeueOutcome, Draws, Loads, Approves, Dares,
       Restarts, Reserves, Advances, Yields, Commits, Withdraws, Claims, Wonders,
       Waits, GoesOn, Again, Passes, Takes, MarksUnsafe, Evicts, Poisons, Searches, FixPcs
<1>2. op'[t].pc \in {"D_recheck", "D_mark"} => Wonders(t)
  BY DEF Outcome, Enters, EnqueueOutcome, DequeueOutcome, Draws, Loads, Approves, Dares,
       Restarts, Reserves, Advances, Yields, Commits, Withdraws, Claims, Sees,
       Waits, GoesOn, Again, Passes, Takes, MarksUnsafe, Evicts, Poisons, Searches, FixPcs
<1> QED
  BY <1>0, <1>1, <1>2 DEF Decisions, Sees, Wonders, KeepsWord, KeepsTicket

\* Nobody but its enqueuer moves the index word of a cell under its mark
\* before the mark is gone.
LEMMA MarksKept ==
  ASSUME Typed, Typed', MarksAreOwned, ViewsAreOld, NEW t \in Threads, Outcome(t)
  PROVE  MarksAreOwned'
<1>0. \A u \in Threads \ {t} : op'[u] = op[u]
  BY DEF Outcome
<1> SUFFICES ASSUME NEW i \in 0..(N - 1), NEW e \in Threads, cell'[i].value = e
             PROVE  /\ op'[e].pc \in BoundPcs /\ Cell(op'[e].ticket) = i
                    /\ op'[e].pc = "E_commit" => cell'[i].node = op'[e].ticket + N
  BY DEF MarksAreOwned
<1>2. CASE UNCHANGED cell
  <2>1. CASE e # t
    BY <1>0, <1>2, <2>1 DEF MarksAreOwned
  <2>2. CASE e = t
    <3>1. /\ op[t].pc \in BoundPcs /\ Cell(op[t].ticket) = i
          /\ op[t].pc = "E_commit" => cell[i].node = op[t].ticket + N
      BY <1>2, <2>2 DEF MarksAreOwned
    <3>2. Here(t).value = t
      BY <1>2, <2>2, <3>1 DEF Here
    <3>3. CASE Yields(t)
      BY <2>2, <3>1, <3>3 DEF Yields, KeepsCall, KeepsWord, KeepsTicket, BoundPcs
    <3>4. Outcome(t) => Yields(t) \/ Advances(t) \/ Commits(t) \/ Withdraws(t)
      BY <3>1, <3>2 DEF Outcome, Enters, EnqueueOutcome, DequeueOutcome, Draws, Loads,
           Approves, Dares, Restarts, Reserves, Claims, Sees, Wonders, Waits,
           GoesOn, Again, Passes, Takes, MarksUnsafe, Evicts, Poisons, Searches, FixPcs,
           BoundPcs
    <3>5. CASE Advances(t)
      BY <2>2, <3>1, <3>5 DEF Advances, Indexes, KeepsCall, KeepsWord, KeepsTicket, BoundPcs
    <3>6. ~Commits(t) /\ ~Withdraws(t)
      <4>1. Stores(t, op[t].arg) => cell'[i].value = op[t].arg
        BY <3>1 DEF Stores
      <4>2. Stores(t, Invalid) => cell'[i].value = Invalid
        BY <3>1 DEF Stores
      <4>3. op[t].pc = "E_commit" => op[t].arg \in Values
        BY DEF Typed, Sound, EnqueuePcs
      <4> QED
        BY <2>2, <4>1, <4>2, <4>3, WordAssumption DEF Commits, Withdraws
    <3> QED
      BY <3>3, <3>4, <3>5, <3>6
  <2> QED
    BY <2>1, <2>2
<1>3. CASE Reserves(t)
  <2>1. op'[t].pc \in BoundPcs /\ op'[t].pc # "E_commit" /\ op'[t].ticket = op[t].ticket
    BY <1>3 DEF Reserves, BoundPcs, KeepsCall, KeepsWord, KeepsTicket
  <2>2. op[t].pc \notin BoundPcs
    BY <1>3 DEF Reserves, BoundPcs
  <2> QED
    BY <1>0, <1>3, <2>1, <2>2 DEF Reserves, Stores, MarksAreOwned
<1>4. CASE Advances(t)
  <2>1. /\ op'[t].pc = "E_commit" /\ op'[t].ticket = op[t].ticket
        /\ \A j \in 0..(N - 1) : cell'[j].value = cell[j].value
        /\ cell'[Cell(op[t].ticket)].node = op[t].ticket + N
        /\ \A j \in 0..(N - 1) : j # Cell(op[t].ticket) => cell'[j].node = cell[j].node
    BY <1>4 DEF Advances, Indexes, KeepsCall, KeepsWord, KeepsTicket, Typed
  <2>2. cell[i].value = e
    BY <2>1
  <2>3. op[e].pc \in BoundPcs /\ Cell(op[e].ticket) = i
    BY <2>2 DEF MarksAreOwned
  <2>4. CASE e = t
    BY <2>1, <2>3, <2>4 DEF BoundPcs
  <2>5. CASE e # t
    <3>1. op[e].pc = "E_commit" => cell[i].node = op[e].ticket + N /\ Filling(i)
      BY <2>2 DEF MarksAreOwned, Filling
    <3>2. ~Filling(Cell(op[t].ticket))
      BY <1>4 DEF Advances, SameWord, ViewsAreOld, LoadedPcs, SawVacant, FillingHere
    <3> QED
      BY <1>0, <2>1, <2>3, <2>5, <3>1, <3>2
  <2> QED
    BY <2>4, <2>5
<1>5. CASE Commits(t) \/ Withdraws(t)
  <2>1. PICK v : Stores(t, v) /\ v \notin Threads
    BY <1>5, WordAssumption DEF Commits, Withdraws, Typed, Sound, EnqueuePcs
  <2>2. i # Cell(op[t].ticket) /\ cell[i].value = e /\ cell'[i].node = cell[i].node
    BY <2>1 DEF Stores
  <2>3. e # t
    BY <2>2 DEF MarksAreOwned
  <2> QED
    BY <1>0, <2>2, <2>3 DEF MarksAreOwned
<1>6. CASE Takes(t) \/ Evicts(t)
  <2>1. Stores(t, Invalid) /\ op[t].pc \notin BoundPcs
    BY <1>6 DEF Takes, Evicts, BoundPcs
  <2>2. cell[i].value = e /\ cell'[i].node = cell[i].node
    BY <2>1, WordAssumption DEF Stores
  <2> QED
    BY <1>0, <2>1, <2>2 DEF MarksAreOwned
<1>7. CASE MarksUnsafe(t) \/ Poisons(t)
  <2>1. op[t].pc \notin BoundPcs /\ \A j \in 0..(N - 1) :
          /\ cell'[j].value = cell[j].value
          /\ j # Cell(op[t].ticket) => cell'[j].node = cell[j].node
    BY <1>7 DEF MarksUnsafe, Poisons, BoundPcs, Indexes
  <2>2. cell[i].value = e /\ e # t
    BY <2>1 DEF MarksAreOwned
  <2>3. /\ op[e].pc \in BoundPcs /\ Cell(op[e].ticket) = i
        /\ op[e].pc = "E_commit" => cell[i].node = op[e].ticket + N /\ Filling(i)
    BY <2>2 DEF MarksAreOwned, Filling
  <2>4. CASE i = Cell(op[t].ticket)
    <3>1. MarksUnsafe(t) => cell'[i].node = cell[i].node
      BY <2>4 DEF MarksUnsafe, Indexes, SameWord, Here
    <3>2. Poisons(t) => ~Filling(i)
      BY <2>4 DEF Poisons, SameWord, ViewsAreOld, LoadedPcs, SawVacant, FillingHere
    <3> QED
      BY <1>0, <1>7, <2>2, <2>3, <3>1, <3>2
  <2> QED
    BY <1>0, <2>1, <2>2, <2>3, <2>4
<1> QED
  BY <1>2, <1>3, <1>4, <1>5, <1>6, <1>7, Touches

\* An index is stored under the ticket its enqueuer has drawn.
LEMMA FilledKept ==
  ASSUME Typed, Typed', MarksAreOwned, FilledByTicket, ViewsAreOld, TicketsAreDrawn,
         NEW t \in Threads, Outcome(t)
  PROVE  FilledByTicket'
<1>0. \A u \in Threads \ {t} : op'[u] = op[u]
  BY DEF Outcome
<1>1. Progress /\ tail <= tail'
  BY StepsProgress, CountersGrow
<1> SUFFICES ASSUME NEW i \in 0..(N - 1), Filling(i)'
             PROVE  \E T \in Nat : T < tail' /\ Cell(T) = i /\ cell'[i].node = T + N
  BY DEF FilledByTicket
<1>2. CASE cell'[i].node = cell[i].node
  <2>1. Filling(i)
    BY <1>1, <1>2 DEF Progress
  <2> QED
    BY <1>1, <1>2, <2>1 DEF FilledByTicket, Typed
<1>3. CASE cell'[i].node # cell[i].node
  <2>1. Advances(t) \/ Poisons(t)
    <3>1. MarksUnsafe(t) => cell'[i].node = cell[i].node
      BY DEF MarksUnsafe, Indexes, SameWord, Here
    <3> QED
      BY <1>3, <3>1, Touches DEF Reserves, Commits, Withdraws, Takes, Evicts, Stores
  <2>2. i = Cell(op[t].ticket) /\ cell'[i].node = op[t].ticket + N
    BY <1>3, <2>1 DEF Advances, Poisons, Indexes
  <2>3. CASE Advances(t)
    <3>1. op[t].ticket < tail /\ op[t].ticket \in Nat
      BY <2>3 DEF Advances, TicketsAreDrawn, LatePcs, EnqueuePcs, Typed
    <3> QED
      BY <1>1, <2>2, <3>1 DEF Typed
  <2>4. CASE Poisons(t)
    <3>1. ~Filling(i)
      BY <2>2, <2>4 DEF Poisons, SameWord, ViewsAreOld, LoadedPcs, SawVacant, FillingHere
    <3>2. cell'[i].value = cell[i].value /\ (op'[t].pc # "E_commit")
      BY <2>4 DEF Poisons, Indexes
    <3> QED
      BY <1>0, <3>1, <3>2 DEF Filling
  <2> QED
    BY <2>1, <2>3, <2>4
<1> QED
  BY <1>2, <1>3

\* What was read stays right for as long as the index word is the same.
LEMMA ViewsKept ==
  ASSUME Typed, Typed', MarksAreOwned, ViewsAreOld, NEW t \in Threads, Outcome(t)
  PROVE  ViewsAreOld'
<1>0. \A u \in Threads \ {t} : op'[u] = op[u]
  BY DEF Outcome
<1>1. Progress
  BY StepsProgress
<1> SUFFICES ASSUME NEW u \in Threads, op'[u].pc \in LoadedPcs
             PROVE  /\ op'[u].node <= Here(u)'.node
                    /\ op'[u].node = Here(u)'.node =>
                         /\ op'[u].unsafe => Here(u)'.unsafe
                         /\ SawVacant(u)' => ~FillingHere(u)'
  BY DEF ViewsAreOld
\* The word that was loaded before is older now.
<1>2. ASSUME op[u].pc \in LoadedPcs, op'[u].ticket = op[u].ticket,
             op'[u].node = op[u].node, op'[u].unsafe = op[u].unsafe
      PROVE  /\ op'[u].node <= Here(u)'.node
             /\ op'[u].node = Here(u)'.node =>
                  /\ op'[u].unsafe => Here(u)'.unsafe
                  /\ SawVacant(u) => ~FillingHere(u)'
  <2>0. PICK i \in 0..(N - 1) : i = Cell(op[u].ticket)
    BY DEF Typed
  <2>1. Here(u) = cell[i] /\ Here(u)' = cell'[i]
    BY <1>2, <2>0 DEF Here
  <2>2. /\ op[u].node <= cell[i].node
        /\ op[u].node = cell[i].node =>
             /\ op[u].unsafe => cell[i].unsafe
             /\ SawVacant(u) => ~Filling(i)
    BY <1>2, <2>0, <2>1 DEF ViewsAreOld, FillingHere
  <2>3. /\ cell[i].node <= cell'[i].node
        /\ cell'[i].node = cell[i].node =>
             /\ cell[i].unsafe => cell'[i].unsafe
             /\ Filling(i)' => Filling(i)
    BY <1>1, <2>1 DEF Progress
  <2>4. op[u].node \in Nat /\ cell[i].node \in Nat /\ cell'[i].node \in Nat
    BY <2>1 DEF Typed
  <2>5. FillingHere(u)' <=> Filling(i)'
    BY <1>2, <2>0 DEF Filling, FillingHere
  <2> QED
    BY <1>2, <2>1, <2>2, <2>3, <2>4, <2>5
<1>3. CASE u # t
  BY <1>0, <1>2, <1>3 DEF SawVacant
<1>4. CASE u = t
  <2>1. (op[t].pc \in LoadedPcs /\ KeepsWord(t)) \/ Loads(t)
    BY <1>4, Sources
  <2>2. CASE Loads(t)
    <3>1. /\ op'[t].node = Here(t)'.node /\ op'[t].unsafe = Here(t)'.unsafe
          /\ op'[t].pc \in {"E_value", "D_value"}
      BY <2>2 DEF Loads, Quiet, KeepsTicket, Here
    <3>2. Here(t)'.node \in Nat
      BY DEF Typed, Here
    <3> QED
      BY <1>4, <3>1, <3>2 DEF SawVacant
  <2>3. CASE op[t].pc \in LoadedPcs /\ KeepsWord(t)
    <3>1. /\ op'[u].node <= Here(u)'.node
          /\ op'[u].node = Here(u)'.node =>
               /\ op'[u].unsafe => Here(u)'.unsafe
               /\ SawVacant(u) => ~FillingHere(u)'
      BY <1>2, <1>4, <2>3 DEF KeepsWord, KeepsTicket
    \* Who sees the cell vacant in this step sees it so after the step.
    <3>2. SawVacant(t)' => SawVacant(t) \/ Here(t)'.value = Invalid
      <4>1. SawVacant(t)' =>
              Approves(t) \/ Dares(t) \/ Reserves(t) \/ Waits(t) \/ GoesOn(t) \/ Evicts(t)
        BY DEF SawVacant, Outcome, Enters, EnqueueOutcome, DequeueOutcome, Draws, Loads,
             Restarts, Advances, Yields, Commits, Withdraws, Claims, Sees, Wonders,
             Again, Passes, Takes, MarksUnsafe, Poisons, Searches, FixPcs
      <4>2. Approves(t) => Here(t)'.value = Invalid
        BY DEF Approves, Quiet, Here, KeepsCall, KeepsWord, KeepsTicket
      <4>3. Dares(t) \/ Reserves(t) => SawVacant(t)
        BY DEF Dares, Reserves, SawVacant
      <4>4. Waits(t) /\ SawVacant(t)' => Here(t)'.value = Invalid
        BY DEF Waits, SawVacant, Quiet, Here, KeepsWord, KeepsTicket
      <4>5. GoesOn(t) /\ SawVacant(t)' => SawVacant(t) \/ Here(t)'.value = Invalid
        <5> SUFFICES ASSUME GoesOn(t), SawVacant(t)'
                     PROVE  SawVacant(t) \/ Here(t)'.value = Invalid
          OBVIOUS
        <5>1. op'[t].value \notin Threads
          BY DEF GoesOn, SawVacant
        <5>2. CASE op[t].pc = "D_value"
          <6>1. op'[t].value = Here(t).value /\ Here(t).value \notin Values
            BY <5>2 DEF GoesOn
          <6>2. Here(t).value \in Words
            BY DEF Typed, Here
          <6>3. Here(t)' = Here(t)
            BY DEF GoesOn, Quiet, Here, KeepsWord, KeepsTicket
          <6> QED
            BY <5>1, <6>1, <6>2, <6>3 DEF Words
        <5>3. CASE op[t].pc = "D_tail"
          <6>1. op'[t].value = op[t].value
            BY <5>3 DEF GoesOn
          <6>2. op[t].value \in Threads \cup {Invalid}
            BY <5>3 DEF Typed, Sound
          <6> QED
            BY <5>1, <5>3, <6>1, <6>2 DEF SawVacant
        <5> QED
          BY <5>2, <5>3 DEF GoesOn
      <4>6. Evicts(t) => Here(t)'.value = Invalid
        BY DEF Evicts, Stores, Here, KeepsWord, KeepsTicket, Typed
      <4> QED
        BY <4>1, <4>2, <4>3, <4>4, <4>5, <4>6
    <3>3. Here(t)'.value = Invalid => ~FillingHere(t)'
      BY WordAssumption DEF Here, Filling, FillingHere
    <3> QED
      BY <1>4, <3>1, <3>2, <3>3
  <2> QED
    BY <2>1, <2>2, <2>3
<1> QED
  BY <1>3, <1>4

\* An enqueuer comes to a risk only while no dequeuer has its ticket.
LEMMA RiskIsOld ==
  ASSUME Typed, Typed', TicketsAreDrawn, NEW t \in Threads, Outcome(t),
         NEW T \in Nat, T < head, NEW n, Risk(T, n)'
  PROVE  Risk(T, n)
<1>0. \A u \in Threads \ {t} : op'[u] = op[u]
  BY DEF Outcome
<1>1. PICK e \in Threads :
        /\ op'[e].pc \in {"E_reserve", "E_advance"} /\ op'[e].unsafe
        /\ Cell(op'[e].ticket) = Cell(T) /\ op'[e].ticket <= T /\ op'[e].node = n
  BY DEF Risk
<1>2. CASE e # t
  BY <1>0, <1>1, <1>2 DEF Risk
<1>3. CASE e = t
  <2>1. Approves(t) \/ Dares(t) \/ Reserves(t)
    BY <1>1, <1>3 DEF Outcome, Enters, EnqueueOutcome, DequeueOutcome, Draws, Loads,
         Restarts, Advances, Yields, Commits, Withdraws, Claims, Sees, Wonders, Waits,
         GoesOn, Again, Passes, Takes, MarksUnsafe, Evicts, Poisons, Searches, FixPcs
  <2>2. KeepsCall(t)
    BY <2>1 DEF Approves, Dares, Reserves
  <2>3. ~Approves(t)
    BY <1>1, <1>3, <2>2 DEF Approves, KeepsCall, KeepsWord
  <2>4. ~Dares(t)
    <3>1. op[t].ticket \in Nat /\ head \in Nat
      BY DEF Typed
    <3> QED
      BY <1>1, <1>3, <2>2, <3>1 DEF Dares, KeepsCall, KeepsWord, KeepsTicket
  <2>5. op[t].pc = "E_reserve"
    BY <2>1, <2>3, <2>4 DEF Reserves
  <2> QED
    BY <1>1, <1>3, <2>2, <2>5 DEF Risk, KeepsCall, KeepsWord, KeepsTicket
<1> QED
  BY <1>2, <1>3

\* The second look at the unsafe word (D_recheck), and the marking of a safe
\* one, leave no enqueuer that could still use it.
LEMMA LeavingKept ==
  ASSUME Typed, Typed', MarksAreOwned, ViewsAreOld, TicketsAreDrawn, LeavingIsSafe,
         NEW t \in Threads, Outcome(t)
  PROVE  LeavingIsSafe'
<1>0. \A u \in Threads \ {t} : op'[u] = op[u]
  BY DEF Outcome
<1>1. Progress
  BY StepsProgress
<1> SUFFICES ASSUME NEW u \in Threads, op'[u].pc \in {"D_recheck", "D_mark"},
                    Here(u)'.node = op'[u].node, RiskHere(u)'
             PROVE  FALSE
  BY DEF LeavingIsSafe
<1>2. CASE u # t
  <2>1. op'[u] = op[u] /\ op[u].ticket \in Nat /\ op[u].ticket < head
    BY <1>0, <1>2 DEF Typed, TicketsAreDrawn, TicketPcs
  <2>2. Risk(op[u].ticket, op[u].node)
    <3>0. PICK T \in Nat : T = op[u].ticket /\ T < head
      BY <2>1
    <3>1. PICK n : n = op[u].node
      OBVIOUS
    <3>2. Risk(T, n)'
      BY <2>1, <3>0, <3>0, <3>1 DEF RiskHere, Risk
    <3> QED
      BY <3>0, <3>1, <3>2, RiskIsOld
  <2>3. Here(u).node = op[u].node
    <3> DEFINE i == Cell(op[u].ticket)
    <3>1. i \in 0..(N - 1) /\ Here(u) = cell[i] /\ Here(u)' = cell'[i]
      BY <2>1 DEF Typed, Here
    <3>2. cell[i].node <= cell'[i].node /\ op[u].node <= cell[i].node
      BY <2>1, <3>1, <1>1 DEF Progress, ViewsAreOld, LoadedPcs
    <3> HIDE DEF i
    <3> QED
      BY <2>1, <3>1, <3>2 DEF Typed
  <2> QED
    BY <2>1, <2>2, <2>3 DEF LeavingIsSafe, RiskHere
<1>3. CASE u = t
  <2>1. Wonders(t)
    BY <1>3 DEF Outcome, Enters, EnqueueOutcome, DequeueOutcome, Draws, Loads, Approves, Dares,
       Restarts, Reserves, Advances, Yields, Commits, Withdraws, Claims, Sees,
       Waits, GoesOn, Again, Passes, Takes, MarksUnsafe, Evicts, Poisons, Searches, FixPcs
  <2>2. /\ op'[t].ticket = op[t].ticket /\ op'[t].node = op[t].node
        /\ Here(t)' = Here(t) /\ Filling(Cell(op[t].ticket))
    BY <2>1 DEF Wonders, KeepsWord, KeepsTicket, Quiet, Here, Filling
  <2>3. op[t].ticket \in Nat /\ op[t].ticket < head
    BY <2>1 DEF Wonders, Typed, TicketsAreDrawn, TicketPcs
  <2>4. Risk(op[t].ticket, op[t].node)
    <3>0. PICK T \in Nat : T = op[t].ticket /\ T < head
      BY <2>3
    <3>1. PICK n : n = op[t].node
      OBVIOUS
    <3>2. Risk(T, n)'
      BY <1>3, <2>2, <3>0, <3>0, <3>1 DEF RiskHere, Risk
    <3> QED
      BY <3>0, <3>1, <3>2, RiskIsOld
  <2>5. PICK e \in Threads :
          /\ op[e].pc \in {"E_reserve", "E_advance"}
          /\ Cell(op[e].ticket) = Cell(op[t].ticket) /\ op[e].node = op[t].node
    BY <2>4 DEF Risk
  <2>6. ~Filling(Cell(op[t].ticket))
    BY <1>3, <2>2, <2>5 DEF ViewsAreOld, LoadedPcs, SawVacant, Here, FillingHere
  <2> QED
    BY <2>2, <2>6
<1> QED
  BY <1>2, <1>3

\* A dequeuer leaves its cell dead.
LEMMA LeaverDies ==
  ASSUME Typed, Typed', MarksAreOwned, ViewsAreOld, TicketsAreDrawn, Decisions,
         LeavingIsSafe, NEW t \in Threads, Outcome(t), NEW T \in Nat,
         op[t].pc \in TicketPcs, op[t].ticket = T, ~Served(T)'
  PROVE  Dead(T)'
<1>0. /\ \A u \in Threads \ {t} : op'[u] = op[u]
      /\ T < head
  BY DEF Outcome, TicketsAreDrawn
<1>1. PICK i \in 0..(N - 1) : i = Cell(T)
  BY CellIsCell
<1>2. /\ Here(t) = cell[i] /\ cell[i].node \in Nat /\ cell'[i].node \in Nat
      /\ op[t].node \in Nat
  BY <1>1 DEF Here, Typed
<1>3. Passes(t) \/ Takes(t) \/ MarksUnsafe(t) \/ Poisons(t)
  <2>1. ~(op'[t].pc \in TicketPcs /\ op'[t].ticket = T)
    BY DEF Served
  <2> QED
    BY <2>1 DEF Outcome, Enters, EnqueueOutcome, DequeueOutcome, Draws, Loads, Approves,
         Dares, Restarts, Reserves, Advances, Yields, Commits, Withdraws, Claims, Sees,
         Wonders, Waits, GoesOn, Again, Evicts, Searches, FixPcs, TicketPcs,
         KeepsWord, KeepsTicket
<1>4. /\ cell'[i].node = T + N => ~Filling(i)'
      /\ cell'[i].node < T + N => cell'[i].unsafe /\ \A n : n = cell'[i].node => ~Risk(T, n)'
  <2>1. CASE Passes(t) /\ op[t].pc = "D_value"
    <3>1. cell'[i].node > T + N
      <4>1. op[t].ticket + N < op[t].node /\ cell' = cell
        BY <2>1 DEF Passes, Quiet
      <4>2. op[t].node <= cell[i].node
        BY <1>2, <2>1 DEF ViewsAreOld, LoadedPcs
      <4> QED
        BY <1>2, <4>1, <4>2, NAssumption
    <3> QED
      BY <1>2, <3>1, NAssumption
  <2>2. CASE Passes(t) /\ op[t].pc = "D_recheck"
    <3>1. /\ op[t].node = cell[i].node /\ op[t].unsafe = cell[i].unsafe /\ cell' = cell
          /\ op[t].node < T + N /\ op[t].unsafe
      BY <1>2, <2>2 DEF Passes, SameWord, Quiet, Decisions
    <3>2. ASSUME NEW n, n = cell'[i].node
          PROVE  ~Risk(T, n)'
      <4>1. ~Risk(T, n)
        BY <1>2, <2>2, <3>1, <3>2 DEF LeavingIsSafe, RiskHere
      <4> QED
        BY <1>0, <4>1, RiskIsOld
    <3> QED
      BY <1>2, <3>1, <3>2, NAssumption
  <2>3. CASE Takes(t)
    <3>1. /\ cell'[i].value = Invalid /\ cell'[i].node = cell[i].node
          /\ op[t].node = T + N /\ op[t].node <= cell[i].node
      BY <1>1, <1>2, <2>3 DEF Takes, Stores, Decisions, ViewsAreOld, LoadedPcs
    <3>2. ~Filling(i)'
      BY <3>1, WordAssumption DEF Filling
    <3> QED
      BY <1>2, <3>1, <3>2, NAssumption
  <2>4. CASE MarksUnsafe(t)
    <3>1. /\ cell'[i].node = cell[i].node /\ cell'[i].unsafe = TRUE
          /\ op[t].node = cell[i].node /\ op[t].node < T + N
      BY <1>1, <1>2, <2>4 DEF MarksUnsafe, Indexes, SameWord, Decisions
    <3>2. ASSUME NEW n, n = cell'[i].node
          PROVE  ~Risk(T, n)'
      <4>1. ~Risk(T, n)
        BY <1>2, <2>4, <3>1, <3>2 DEF LeavingIsSafe, RiskHere, MarksUnsafe
      <4> QED
        BY <1>0, <4>1, RiskIsOld
    <3> QED
      BY <1>2, <3>1, <3>2, NAssumption
  <2>5. CASE Poisons(t)
    <3>1. cell'[i].node = T + N
      BY <1>1, <2>5 DEF Poisons, Indexes
    <3>2. ~Filling(i)
      BY <1>1, <1>2, <2>5 DEF Poisons, SameWord, ViewsAreOld, LoadedPcs, SawVacant, FillingHere
    <3>3. cell'[i].value = cell[i].value /\ op'[t].pc # "E_commit"
      BY <2>5 DEF Poisons, Indexes
    <3>4. ~Filling(i)'
      BY <1>0, <3>2, <3>3 DEF Filling
    <3> QED
      BY <1>2, <3>1, <3>4, NAssumption
  <2> QED
    BY <1>3, <2>1, <2>2, <2>3, <2>4, <2>5 DEF Passes
<1> QED
  BY <1>1, <1>4 DEF Dead, Risk

\* What is dead stays dead.
LEMMA DeadStaysDead ==
  ASSUME Typed, Typed', MarksAreOwned, ViewsAreOld, TicketsAreDrawn,
         NEW t \in Threads, Outcome(t), NEW T \in Nat, T < head, ~Served(T), Dead(T)
  PROVE  Dead(T)'
<1>0. \A u \in Threads \ {t} : op'[u] = op[u]
  BY DEF Outcome
<1>1. PICK i \in 0..(N - 1) : i = Cell(T)
  BY CellIsCell
<1>2. cell[i].node \in Nat /\ cell'[i].node \in Nat /\ cell[i].unsafe \in BOOLEAN
  BY DEF Typed
<1>3. /\ cell[i].node = T + N => ~Filling(i)
      /\ cell[i].node < T + N => cell[i].unsafe /\ ~Risk(T, cell[i].node)
  BY <1>1 DEF Dead
<1> SUFFICES /\ cell'[i].node = T + N => ~Filling(i)'
             /\ cell'[i].node < T + N =>
                  cell'[i].unsafe /\ \A n : n = cell'[i].node => ~Risk(T, n)'
  BY <1>1 DEF Dead, Risk
<1>4. CASE cell'[i].node = cell[i].node
  <2>1. /\ cell[i].unsafe => cell'[i].unsafe
        /\ Filling(i)' => Filling(i)
    BY <1>4, StepsProgress DEF Progress
  <2>2. ASSUME NEW n, n = cell'[i].node, ~Risk(T, cell[i].node)
        PROVE  ~Risk(T, n)'
    BY <1>4, <2>2, RiskIsOld
  <2> QED
    BY <1>3, <1>4, <2>1, <2>2
<1>5. CASE cell'[i].node # cell[i].node
  <2>1. Advances(t) \/ Poisons(t)
    <3>1. MarksUnsafe(t) => cell'[i].node = cell[i].node
      BY DEF MarksUnsafe, Indexes, SameWord, Here
    <3> QED
      BY <1>5, <3>1, Touches DEF Reserves, Commits, Withdraws, Takes, Evicts, Stores
  <2>2. /\ i = Cell(op[t].ticket) /\ cell'[i].node = op[t].ticket + N
        /\ Here(t) = cell[i] /\ SameWord(t) /\ op[t].ticket \in Nat
    BY <1>5, <2>1 DEF Advances, Poisons, Indexes, Here, Typed
  <2>3. CASE Advances(t)
    <3>1. op[t].node <= op[t].ticket /\ op[t].pc = "E_advance" /\ op[t].node = cell[i].node
      BY <2>2, <2>3 DEF Advances, Typed, Sound, SameWord
    <3>2. T < op[t].ticket
      <4> SUFFICES ASSUME op[t].ticket <= T PROVE FALSE
        BY <2>2
      <4>1. cell[i].node < T + N
        BY <1>2, <2>2, <3>1, NAssumption
      <4>2. op[t].unsafe
        BY <1>3, <2>2, <4>1 DEF SameWord
      <4>3. Risk(T, cell[i].node)
        BY <1>1, <2>2, <3>1, <4>2 DEF Risk
      <4> QED
        BY <1>3, <4>1, <4>3
    <3> QED
      BY <1>2, <2>2, <3>2, NAssumption
  <2>4. CASE Poisons(t)
    <3>1. op[t].ticket # T
      BY <2>4 DEF Served, Poisons, TicketPcs
    <3>2. cell'[i].unsafe = TRUE /\ cell[i].node <= cell'[i].node
      BY <2>2, <2>4, StepsProgress DEF Poisons, Indexes, Progress
    <3>3. ASSUME NEW n, n = cell'[i].node, Risk(T, n)
          PROVE  FALSE
      <4>1. PICK e \in Threads :
              op[e].pc \in {"E_reserve", "E_advance"} /\ Cell(op[e].ticket) = i /\ op[e].node = n
        BY <1>1, <3>3 DEF Risk
      <4>2. op[e].node <= cell[i].node
        BY <4>1 DEF ViewsAreOld, LoadedPcs, Here
      <4> QED
        BY <1>2, <1>5, <3>2, <3>3, <4>1, <4>2
    <3>4. ASSUME NEW n, n = cell'[i].node
          PROVE  ~Risk(T, n)'
      BY <3>3, <3>4, RiskIsOld
    <3> QED
      BY <1>2, <2>2, <3>1, <3>2, <3>4, NAssumption
  <2> QED
    BY <2>1, <2>3, <2>4
<1> QED
  BY <1>4, <1>5

\* A ticket without a dequeuer is dead.
LEMMA LeftKept ==
  ASSUME Typed, Typed', TicketInv, NEW t \in Threads, Outcome(t)
  PROVE  LeftIsDead'
<1>0. \A u \in Threads \ {t} : op'[u] = op[u]
  BY DEF Outcome
<1> SUFFICES ASSUME NEW T \in Nat, T < head', ~Served(T)'
             PROVE  Dead(T)'
  BY DEF LeftIsDead
<1>1. T < head
  <2>1. CASE head' = head
    BY <2>1
  <2>2. CASE Claims(t)
    <3>1. T # head
      BY <2>2 DEF Claims, Served, TicketPcs
    <3> QED
      BY <2>2, <3>1 DEF Claims, Typed
  <2> QED
    BY <2>1, <2>2, Sources
<1>2. CASE Served(T)
  <2>1. PICK u \in Threads : op[u].pc \in TicketPcs /\ op[u].ticket = T
    BY <1>2 DEF Served
  <2>2. u = t
    BY <1>0, <2>1 DEF Served
  <2> QED
    BY <2>1, <2>2, LeaverDies DEF TicketInv
<1>3. CASE ~Served(T)
  <2>1. Dead(T)
    BY <1>1, <1>3 DEF TicketInv, LeftIsDead
  <2> QED
    BY <1>1, <1>3, <2>1, DeadStaysDead DEF TicketInv
<1> QED
  BY <1>2, <1>3

\* All of it together is inductive, whatever the views.
LEMMA TicketInvKept ==
  ASSUME Typed, Typed', TicketInv, NEW t \in Threads, Outcome(t)
  PROVE  TicketInv'
BY TicketsKept, DecisionsKept, MarksKept, FilledKept, ViewsKept, LeavingKept, LeftKept
   DEF TicketInv
-----------------------------------------------------------------------------
(* What the client sees: where an index is, and in which order they come out.*)

\* As long as no view was torn, what a dequeuer takes is what it finds.
TakesWhatItSaw == \A t \in Threads : op[t].pc = "D_take" =>
  Here(t).node = op[t].ticket + N /\ Here(t).value = op[t].value

\* Who is about to answer "empty" has seen nothing on offer.
SearchersSaw == \A t \in Threads :
  op[t].pc \in FixPcs \/ (op[t].pc = "D_done" /\ op[t].arg = Invalid) => sawEmpty[t]

\* An index is in one place: the pool, one call, or one cell.
Carries(t, v) == op[t].arg = v /\ op[t].pc \in EnqueuePcs \cup {"D_done"}
InCell(v, i) == i \in 0..(N - 1) /\ cell[i].value = v
OneCarrier(v) == \A t, u \in Threads : Carries(t, v) /\ Carries(u, v) => t = u
OneCell(v) == \A i, j : InCell(v, i) /\ InCell(v, j) => i = j
Placed(v) ==
  /\ v \in pool \/ (\E t \in Threads : Carries(t, v)) \/ (\E i : InCell(v, i))
  /\ v \in pool => (\A t \in Threads : ~Carries(t, v)) /\ (\A i : ~InCell(v, i))
  /\ (\E t \in Threads : Carries(t, v)) => \A i : ~InCell(v, i)
  /\ OneCarrier(v) /\ OneCell(v)

\* An index that was in the ring when an enqueue began is in a cell of an
\* earlier ticket or has come out, as long as that enqueue's index is not back.
Stays(a) == a \notin pool /\ \A t \in Threads : op[t].pc \in EnqueuePcs => op[t].arg # a
Below(a, n) == \A i : InCell(a, i) => cell[i].node < n
Precedes(a, b) ==
  /\ b \notin pool /\ Stays(a)
  /\ \A j : InCell(b, j) => Below(a, cell[j].node)
  /\ \A t \in Threads : op[t].arg = b =>
       /\ op[t].pc \in LatePcs => Below(a, op[t].ticket + N)
       /\ op[t].pc = "D_done" => Below(a, head + N)
Overtaken(a) == Stays(a) /\ Below(a, head + N)
Missed(a, t) ==
  /\ Overtaken(a)
  /\ op[t].pc \in TicketPcs => Below(a, op[t].ticket + N)
  /\ op[t].pc = "D_done" => op[t].arg # a
OrderInv ==
  /\ \A b \in Values : \A a \in before[b] : Precedes(a, b)
  /\ \A a \in overtaken : Overtaken(a)
  /\ \A t \in Threads : \A a \in late[t] : Dequeuing(t) /\ Missed(a, t)

\* The strengthened invariant.
ServiceInv ==
  /\ IInv /\ TicketInv /\ SearchersSaw
  /\ ~torn => SteadyView /\ TakesWhatItSaw /\ (\A v \in Values : Placed(v)) /\ OrderInv

\* What the calls and returns do.
LEMMA StepOutcome ==
  ASSUME IInv, NEW t \in Threads, ThreadStep(t)
  PROVE  Outcome(t)
<1>0. RingInv /\ freeList \in BOOLEAN /\ pool \subseteq Values
  BY DEF IInv, ClientInv
<1>1. \A u \in Threads \ {t} : op'[u] = op[u]
  <2>1. \E f : Become(t, f)
    BY DEF ThreadStep, BeginEnqueue, BeginDequeue, EndEnqueue, EndDequeue, Step,
           CallEnqueue, CallDequeue, Return, RingStep, EnqueueStep, DequeueStep, EnqTicket,
           EnqIndex, EnqValue, EnqHead, EnqReserve, EnqAdvance, EnqCommit, EnqUndo,
           DeqSizeTail, DeqSizeHead, DeqTicket, DeqIndex, DeqValue, DeqTake, DeqRecheck,
           DeqMark, DeqTail, DeqUnbottom, DeqPoison, DeqLast, FixTail, FixHead, FixAgain,
           FixCas, NewTicket, Goto
  <2> QED
    BY <1>0, <2>1, Becomes
<1>2. \A pc, a : Frame(pc, a).pc = pc
  BY DEF Frame
<1>3. CASE BeginEnqueue(t)
  <2>1. PICK v : op[t] = Idle /\ Become(t, Frame("E_ticket", v)) /\ UNCHANGED <<head, tail, cell>>
    BY <1>3 DEF BeginEnqueue, CallEnqueue
  <2>2. op'[t] = Frame("E_ticket", v)
    BY <1>0, <2>1, Becomes
  <2> QED
    BY <1>1, <1>2, <2>1, <2>2 DEF Outcome, Enters, Quiet, Idle
<1>4. CASE BeginDequeue(t)
  <2>1. PICK pc \in {"D_size_tail", "D_ticket"} :
          op[t] = Idle /\ Become(t, Frame(pc, Invalid)) /\ UNCHANGED <<head, tail, cell>>
    BY <1>4 DEF BeginDequeue, CallDequeue
  <2>2. op'[t] = Frame(pc, Invalid)
    BY <1>0, <2>1, Becomes
  <2> QED
    BY <1>1, <1>2, <2>1, <2>2 DEF Outcome, Enters, Quiet, Idle
<1>5. CASE EndEnqueue(t) \/ EndDequeue(t)
  <2>1. op[t].pc \in {"E_done", "D_done"} /\ Become(t, Idle) /\ UNCHANGED <<head, tail, cell>>
    BY <1>5 DEF EndEnqueue, EndDequeue, Return
  <2>2. op'[t] = Idle
    BY <1>0, <2>1, Becomes
  <2> QED
    BY <1>1, <1>2, <2>1, <2>2 DEF Outcome, Enters, Quiet, Idle
<1>6. CASE Step(t)
  BY <1>0, <1>1, <1>6, EnqueueOutcomes, DequeueOutcomes DEF Outcome, Step, RingStep
<1> QED
  BY <1>3, <1>4, <1>5, <1>6 DEF ThreadStep

\* The elements of the cells, before and after a step.
LEMMA Elements ==
  ASSUME Typed, Typed', TicketInv, NEW t \in Threads, Outcome(t)
  PROVE  \A i \in 0..(N - 1) :
           /\ cell'[i].value \in Values =>
                \/ cell[i].value = cell'[i].value /\ cell'[i].node = cell[i].node
                \/ /\ Commits(t) /\ i = Cell(op[t].ticket) /\ cell'[i].value = op[t].arg
                   /\ cell[i].value = t /\ cell'[i].node = op[t].ticket + N
           /\ cell[i].value \in Values =>
                \/ cell[i].value = cell'[i].value
                \/ Takes(t) /\ i = Cell(op[t].ticket) /\ cell'[i].value = Invalid
<1> SUFFICES ASSUME NEW i \in 0..(N - 1)
             PROVE  /\ cell'[i].value \in Values =>
                         \/ cell[i].value = cell'[i].value /\ cell'[i].node = cell[i].node
                         \/ /\ Commits(t) /\ i = Cell(op[t].ticket) /\ cell'[i].value = op[t].arg
                            /\ cell[i].value = t /\ cell'[i].node = op[t].ticket + N
                    /\ cell[i].value \in Values =>
                         \/ cell[i].value = cell'[i].value
                         \/ Takes(t) /\ i = Cell(op[t].ticket) /\ cell'[i].value = Invalid
  OBVIOUS
<1>1. CASE UNCHANGED cell
  BY <1>1
<1>2. CASE Reserves(t)
  BY <1>2, WordAssumption DEF Reserves, Stores, Here
<1>3. CASE Advances(t) \/ Poisons(t)
  <2>1. cell'[i].value = cell[i].value
    BY <1>3 DEF Advances, Poisons, Indexes
  <2>2. i # Cell(op[t].ticket) => cell'[i].node = cell[i].node
    BY <1>3 DEF Advances, Poisons, Indexes
  <2>3. i = Cell(op[t].ticket) => ~Filling(i)
    BY <1>3 DEF Advances, Poisons, SameWord, TicketInv, ViewsAreOld, LoadedPcs, SawVacant,
                FillingHere
  <2> QED
    BY <2>1, <2>2, <2>3 DEF Filling
<1>4. CASE Commits(t)
  <2>1. Here(t).node = op[t].ticket + N
    BY <1>4 DEF Commits, Here, TicketInv, MarksAreOwned, Typed
  <2> QED
    BY <1>4, <2>1, WordAssumption DEF Commits, Stores, Here
<1>5. CASE Withdraws(t)
  BY <1>5, WordAssumption DEF Withdraws, Stores, Here
<1>6. CASE Takes(t)
  BY <1>6, WordAssumption DEF Takes, Stores, Here
<1>7. CASE MarksUnsafe(t)
  BY <1>7 DEF MarksUnsafe, Indexes, SameWord, Here
<1>8. CASE Evicts(t)
  <2>1. op[t].value \in Threads
    BY <1>8 DEF Evicts, Typed, Sound
  <2> QED
    BY <1>8, <2>1, WordAssumption DEF Evicts, Stores, Here
<1> QED
  BY <1>1, <1>2, <1>3, <1>4, <1>5, <1>6, <1>7, <1>8, Touches

\* The plain store of a dequeuer that saw the whole cell.
LEMMA TakesKept ==
  ASSUME Typed, Typed', TicketInv, SteadyView, TakesWhatItSaw, NEW t \in Threads, Outcome(t)
  PROVE  TakesWhatItSaw'
<1>0. \A u \in Threads \ {t} : op'[u] = op[u]
  BY DEF Outcome
<1> SUFFICES ASSUME NEW u \in Threads, op'[u].pc = "D_take"
             PROVE  Here(u)'.node = op'[u].ticket + N /\ Here(u)'.value = op'[u].value
  BY DEF TakesWhatItSaw
<1>1. CASE u = t
  <2>1. Sees(t)
    BY <1>1 DEF Outcome, Enters, EnqueueOutcome, DequeueOutcome, Draws, Loads, Approves, Dares,
       Restarts, Reserves, Advances, Yields, Commits, Withdraws, Claims, Wonders,
       Waits, GoesOn, Again, Passes, Takes, MarksUnsafe, Evicts, Poisons, Searches, FixPcs
  <2>2. Here(t).node = op[t].node
    BY <2>1 DEF Sees, SteadyView, Here, Pos, Cell
  <2> QED
    BY <1>1, <2>1, <2>2 DEF Sees, KeepsWord, KeepsTicket, Quiet, Here
<1>2. CASE u # t
  <2>0. PICK i \in 0..(N - 1) : i = Cell(op[u].ticket)
    BY DEF Typed
  <2>1. /\ op'[u] = op[u] /\ Here(u) = cell[i] /\ Here(u)' = cell'[i]
        /\ cell[i].node = op[u].ticket + N /\ cell[i].value = op[u].value
        /\ op[u].value \in Values
    BY <1>0, <1>2, <2>0 DEF Here, TakesWhatItSaw, Typed, Sound
  <2>2. ~(Takes(t) /\ i = Cell(op[t].ticket))
    <3> SUFFICES ASSUME Takes(t), i = Cell(op[t].ticket) PROVE FALSE
      OBVIOUS
    <3>1. cell[i].node = op[t].ticket + N
      BY DEF Takes, Here, TakesWhatItSaw
    <3>2. op[t].ticket = op[u].ticket
      BY <2>1, <3>1, NAssumption DEF Typed
    <3> QED
      BY <1>0, <1>2, <2>1, <3>2 DEF TicketInv, TicketsAreDrawn, Takes, TicketPcs
  <2>3. cell'[i].value = cell[i].value
    BY <2>1, <2>2, Elements
  <2>4. cell'[i].node = cell[i].node
    <3>1. cell[i].value # t
      BY <2>1, WordAssumption
    <3> QED
      BY <2>1, <2>3, <3>1, Elements
  <2> QED
    BY <2>1, <2>3, <2>4
<1> QED
  BY <1>1, <1>2

\* A dequeuer that found the tail behind its ticket has seen nothing on offer:
\* every stored index has a ticket below the tail, all of them are drawn.
LEMMA SearchersKept ==
  ASSUME RingInv, Typed, Typed', TicketInv, SearchersSaw, NEW t \in Threads, Outcome(t), Observe
  PROVE  SearchersSaw'
<1>0. \A u \in Threads \ {t} : op'[u] = op[u]
  BY DEF Outcome
<1> SUFFICES ASSUME NEW u \in Threads,
                    op'[u].pc \in FixPcs \/ (op'[u].pc = "D_done" /\ op'[u].arg = Invalid)
             PROVE  sawEmpty'[u]
  BY DEF SearchersSaw
<1>1. sawEmpty'[u] <=> sawEmpty[u] \/ OnOffer' = {}
  BY DEF Observe, Dequeuing, FixPcs, DequeuePcs
<1>2. CASE u # t
  BY <1>0, <1>1, <1>2 DEF SearchersSaw
<1>3. CASE u = t
  <2>1. Searches(t)
    <3>1. Takes(t) => op'[t].arg # Invalid
      BY WordAssumption DEF Takes, Typed, Sound
    <3> QED
      BY <1>3, <3>1 DEF Outcome, Enters, EnqueueOutcome, DequeueOutcome, Draws, Loads,
         Approves, Dares, Restarts, Reserves, Advances, Yields, Commits, Withdraws, Claims,
         Sees, Wonders, Waits, GoesOn, Again, Passes, Takes, MarksUnsafe, Evicts, Poisons,
         FixPcs
  <2>2. CASE op[t].pc \in FixPcs
    BY <1>1, <1>3, <2>2 DEF SearchersSaw
  <2>3. CASE op[t].pc = "D_last" /\ tail <= op[t].ticket + 1
    <3>1. op[t].ticket < head /\ UNCHANGED <<head, cell>>
      BY <2>1, <2>3 DEF TicketInv, TicketsAreDrawn, Searches
    <3>2. tail <= head
      BY <2>3, <3>1 DEF Typed
    <3>3. ASSUME NEW j \in DOMAIN cell, Committed(j)
          PROVE  ~(head <= TicketOf(j))
      <4>1. j \in 0..(N - 1) /\ Filling(j)
        BY <3>3 DEF RingInv, Committed, Filling
      <4>2. PICK T \in Nat : T < tail /\ cell[j].node = T + N
        BY <4>1 DEF TicketInv, FilledByTicket
      <4> QED
        BY <3>2, <4>2, NAssumption DEF Typed, TicketOf
    <3>4. OnOffer' = {}
      BY <3>1, <3>3 DEF OnOffer, Committed, TicketOf
    <3> QED
      BY <1>1, <1>3, <3>4
  <2> QED
    BY <1>3, <2>1, <2>2, <2>3 DEF Searches
<1> QED
  BY <1>2, <1>3
-----------------------------------------------------------------------------
(* Where an index is.                                                       *)

Enqueues(t, v) ==
  /\ op[t].pc = "idle" /\ op'[t].pc = "E_ticket" /\ op'[t].arg = v /\ Quiet
  /\ v \in pool /\ pool' = pool \ {v}
  /\ before' = [before EXCEPT ![v] = InRing] /\ UNCHANGED <<overtaken, late>>
Dequeues(t) ==
  /\ op[t].pc = "idle" /\ op'[t].pc \in {"D_size_tail", "D_ticket"} /\ Quiet
  /\ late' = [late EXCEPT ![t] = overtaken] /\ UNCHANGED <<pool, before, overtaken>>
Returns(t) ==
  /\ op[t].pc \in {"E_done", "D_done"} /\ op'[t].pc = "idle" /\ Quiet
  /\ op[t].pc = "E_done" \/ op[t].arg \notin Values
  /\ UNCHANGED <<pool, before, overtaken>>
  /\ \A u \in Threads : late'[u] = (IF u = t /\ op[t].pc = "D_done" THEN {} ELSE late[u])
HandsOut(t, v) ==
  /\ op[t].pc = "D_done" /\ op'[t].pc = "idle" /\ op[t].arg = v /\ v \in Values /\ Quiet
  /\ pool' = pool \cup {v}
  /\ before' = [u \in Values |-> IF u = v THEN {} ELSE before[u] \ {v}]
  /\ overtaken' = (overtaken \cup before[v]) \ {v}
  /\ late' = [u \in Threads |-> IF u = t THEN {} ELSE late[u] \ {v}]
Works(t) ==
  /\ EnqueueOutcome(t) \/ DequeueOutcome(t)
  /\ UNCHANGED <<pool, before, overtaken, late>>

\* What a step is for the client.
LEMMA ClientOutcome ==
  ASSUME IInv, NEW t \in Threads, ThreadStep(t)
  PROVE  \/ Dequeues(t) \/ Returns(t) \/ Works(t)
         \/ \E v \in Values : Enqueues(t, v) \/ HandsOut(t, v)
<1>0. /\ RingInv /\ pool \subseteq Values /\ late \in [Threads -> SUBSET Values]
      /\ freeList \in BOOLEAN
  BY DEF IInv, ClientInv
<1>1. \A pc, a : Frame(pc, a).pc = pc /\ Frame(pc, a).arg = a
  BY DEF Frame
<1>2. CASE BeginEnqueue(t)
  <2>1. PICK v \in pool :
          /\ op[t] = Idle /\ Become(t, Frame("E_ticket", v)) /\ Quiet
          /\ pool' = pool \ {v}
          /\ before' = [before EXCEPT ![v] = InRing] /\ UNCHANGED <<overtaken, late>>
    BY <1>2 DEF BeginEnqueue, CallEnqueue, Quiet
  <2>2. op'[t] = Frame("E_ticket", v)
    BY <1>0, <2>1, Becomes
  <2>3. op[t].pc = "idle" /\ op'[t].pc = "E_ticket" /\ op'[t].arg = v
    BY <1>1, <2>1, <2>2 DEF Idle
  <2>4. Enqueues(t, v)
    BY <2>1, <2>3 DEF Enqueues
  <2> QED
    BY <1>0, <2>4
<1>3. CASE BeginDequeue(t)
  <2>1. PICK pc \in {"D_size_tail", "D_ticket"} :
          op[t] = Idle /\ Become(t, Frame(pc, Invalid)) /\ Quiet
    BY <1>3 DEF BeginDequeue, CallDequeue, Quiet
  <2>2. op'[t] = Frame(pc, Invalid)
    BY <1>0, <2>1, Becomes
  <2> QED
    BY <1>1, <1>3, <2>1, <2>2 DEF BeginDequeue, Dequeues, Idle
<1>4. CASE EndEnqueue(t)
  <2>1. op[t].pc = "E_done" /\ Become(t, Idle) /\ Quiet
    BY <1>4 DEF EndEnqueue, Return, Quiet
  <2>2. op'[t] = Idle
    BY <1>0, <2>1, Becomes
  <2> QED
    BY <1>0, <1>1, <1>4, <2>1, <2>2 DEF EndEnqueue, Returns, Idle
<1>5. CASE EndDequeue(t)
  <2>1. op[t].pc = "D_done" /\ Become(t, Idle) /\ Quiet
    BY <1>5 DEF EndDequeue, Return, Quiet
  <2>2. op'[t] = Idle
    BY <1>0, <2>1, Becomes
  <2>3. op'[t].pc = "idle"
    BY <1>1, <2>2 DEF Idle
  <2>4. CASE op[t].arg \in Values
    BY <1>5, <2>1, <2>3, <2>4 DEF EndDequeue, HandsOut
  <2>5. CASE op[t].arg \notin Values
    BY <1>0, <1>5, <2>1, <2>3, <2>5 DEF EndDequeue, Returns
  <2> QED
    BY <2>4, <2>5
<1>6. CASE Step(t)
  BY <1>0, <1>6, EnqueueOutcomes, DequeueOutcomes DEF Works, Step, RingStep
<1> QED
  BY <1>2, <1>3, <1>4, <1>5, <1>6 DEF ThreadStep

\* A call of enqueue carries its index until it commits it, a call of dequeue
\* has none before it takes one.
LEMMA Carrying ==
  ASSUME NEW t \in Threads, Works(t)
  PROVE  /\ op[t].pc \notin {"D_done", "E_done", "idle"}
         /\ op'[t].pc \in EnqueuePcs => op[t].pc \in EnqueuePcs /\ op'[t].arg = op[t].arg
         /\ op[t].pc \in EnqueuePcs => op'[t].pc \in EnqueuePcs \/ Commits(t)
         /\ op'[t].pc = "D_done" => Takes(t) \/ op'[t].arg \in {Invalid, Overflow}
<1> USE DEF EnqueuePcs
<1>1. CASE EnqueueOutcome(t)
  BY <1>1 DEF EnqueueOutcome, Draws, Loads, Approves, Dares, Restarts, Reserves, Advances,
       Yields, Commits, Withdraws, KeepsCall
<1>2. CASE DequeueOutcome(t)
  BY <1>2 DEF DequeueOutcome, Claims, Loads, Sees, Wonders, Waits, GoesOn, Again, Passes,
       Takes, MarksUnsafe, Evicts, Poisons, Searches, FixPcs
<1> QED
  BY <1>1, <1>2 DEF Works

\* A step of enqueue or dequeue moves an index from a call to one cell, from
\* one cell to a call, or leaves all of them where they are.
LEMMA WorkPlaces ==
  ASSUME Typed, Typed', TicketInv, TakesWhatItSaw, NEW t \in Threads, Outcome(t), Works(t),
         \A v \in Values : Placed(v), NEW v \in Values
  PROVE  Placed(v)'
<1>0. /\ \A u \in Threads \ {t} : op'[u] = op[u]
      /\ pool' = pool /\ Placed(v)
  BY DEF Outcome, Works
<1>1. v \notin Threads /\ v # Invalid /\ v # Overflow
  BY WordAssumption
<1>2. PICK c \in 0..(N - 1) : c = Cell(op[t].ticket)
  BY DEF Typed
<1>3. CASE Commits(t)
  <2>1. /\ op[t].pc = "E_commit" /\ op'[t].pc = "E_done"
        /\ \A i \in 0..(N - 1) :
             cell'[i].value = IF i = c THEN op[t].arg ELSE cell[i].value
        /\ cell[c].value = t
    BY <1>2, <1>3 DEF Commits, Stores, Here
  <2>2. CASE v = op[t].arg
    <3>1. Carries(t, v)
      BY <2>1, <2>2 DEF Carries, EnqueuePcs
    <3>2. (\A i : ~InCell(v, i)) /\ v \notin pool /\ (\A u \in Threads \ {t} : ~Carries(u, v))
      BY <1>0, <3>1 DEF Placed, OneCarrier
    <3>3. \A u \in Threads : ~Carries(u, v)'
      BY <1>0, <2>1, <3>2 DEF Carries, EnqueuePcs
    <3>4. \A i : InCell(v, i)' <=> i = c
      BY <2>1, <2>2, <3>2 DEF InCell
    <3> QED
      BY <1>0, <3>2, <3>3, <3>4 DEF Placed, OneCarrier, OneCell
  <2>3. CASE v # op[t].arg
    <3>1. \A u \in Threads : Carries(u, v)' <=> Carries(u, v)
      BY <1>0, <2>1, <2>3 DEF Carries, EnqueuePcs
    <3>2. \A i : InCell(v, i)' <=> InCell(v, i)
      BY <1>1, <2>1, <2>3 DEF InCell
    <3> QED
      BY <1>0, <3>1, <3>2 DEF Placed, OneCarrier, OneCell
  <2> QED
    BY <2>2, <2>3
<1>4. CASE Takes(t)
  <2>1. /\ op[t].pc = "D_take" /\ op'[t].pc = "D_done" /\ op'[t].arg = op[t].value
        /\ \A i \in 0..(N - 1) :
             cell'[i].value = IF i = c THEN Invalid ELSE cell[i].value
        /\ cell[c].value = op[t].value
    BY <1>2, <1>4 DEF Takes, Stores, Here, TakesWhatItSaw
  <2>2. CASE v = op[t].value
    <3>1. InCell(v, c)
      BY <1>2, <2>1, <2>2 DEF InCell
    <3>2. v \notin pool /\ (\A u \in Threads : ~Carries(u, v)) /\ (\A i : InCell(v, i) => i = c)
      BY <1>0, <3>1 DEF Placed, OneCell
    <3>3. \A i : ~InCell(v, i)'
      BY <1>1, <2>1, <3>2 DEF InCell
    <3>4. \A u \in Threads : Carries(u, v)' <=> u = t
      BY <1>0, <2>1, <2>2, <3>2 DEF Carries
    <3> QED
      BY <1>0, <3>2, <3>3, <3>4 DEF Placed, OneCarrier, OneCell
  <2>3. CASE v # op[t].value
    <3>1. \A u \in Threads : Carries(u, v)' <=> Carries(u, v)
      BY <1>0, <2>1, <2>3 DEF Carries, EnqueuePcs
    <3>2. \A i : InCell(v, i)' <=> InCell(v, i)
      BY <1>1, <2>1, <2>3 DEF InCell
    <3> QED
      BY <1>0, <3>1, <3>2 DEF Placed, OneCarrier, OneCell
  <2> QED
    BY <2>2, <2>3
<1>5. CASE ~Commits(t) /\ ~Takes(t)
  <2>1. \A u \in Threads : Carries(u, v)' <=> Carries(u, v)
    BY <1>0, <1>1, <1>5, Carrying DEF Carries
  <2>2. \A i : InCell(v, i)' <=> InCell(v, i)
    BY <1>5, Elements DEF InCell
  <2> QED
    BY <1>0, <2>1, <2>2 DEF Placed, OneCarrier, OneCell
<1> QED
  BY <1>3, <1>4, <1>5

\* So do the calls and returns, between the pool and a call.
LEMMA PlacesKept ==
  ASSUME IInv, Typed, Typed', TicketInv, TakesWhatItSaw, NEW t \in Threads, ThreadStep(t),
         \A v \in Values : Placed(v), NEW v \in Values
  PROVE  Placed(v)'
<1>0. Outcome(t) /\ \A u \in Threads \ {t} : op'[u] = op[u]
  BY StepOutcome DEF Outcome
<1>1. Quiet => \A i : InCell(v, i)' <=> InCell(v, i)
  BY DEF Quiet, InCell
<1>2. Placed(v)
  OBVIOUS
<1>3. CASE Dequeues(t) \/ Returns(t)
  <2>1. Quiet /\ pool' = pool
    BY <1>3 DEF Dequeues, Returns
  <2>2. \A u \in Threads : Carries(u, v)' <=> Carries(u, v)
    BY <1>0, <1>3 DEF Dequeues, Returns, Carries, EnqueuePcs
  <2> QED
    BY <1>1, <1>2, <2>1, <2>2 DEF Placed, OneCarrier, OneCell
<1>4. ASSUME NEW a \in Values, Enqueues(t, a)
      PROVE  Placed(v)'
  <2>1. CASE v = a
    <3>1. \A u \in Threads : Carries(u, v)' <=> u = t
      BY <1>0, <1>2, <1>4, <2>1 DEF Enqueues, Placed, Carries, EnqueuePcs
    <3> QED
      BY <1>1, <1>2, <1>4, <2>1, <3>1 DEF Enqueues, Placed, OneCarrier, OneCell
  <2>2. CASE v # a
    <3>1. \A u \in Threads : Carries(u, v)' <=> Carries(u, v)
      BY <1>0, <1>4, <2>2 DEF Enqueues, Carries, EnqueuePcs
    <3> QED
      BY <1>1, <1>2, <1>4, <2>2, <3>1 DEF Enqueues, Placed, OneCarrier, OneCell
  <2> QED
    BY <2>1, <2>2
<1>5. ASSUME NEW a \in Values, HandsOut(t, a)
      PROVE  Placed(v)'
  <2>1. CASE v = a
    <3>1. Carries(t, v)
      BY <1>5, <2>1 DEF HandsOut, Carries
    <3>2. \A u \in Threads : ~Carries(u, v)'
      BY <1>0, <1>2, <1>5, <3>1 DEF HandsOut, Placed, OneCarrier, Carries, EnqueuePcs
    <3> QED
      BY <1>1, <1>2, <1>5, <2>1, <3>1, <3>2 DEF HandsOut, Placed, OneCarrier, OneCell
  <2>2. CASE v # a
    <3>1. \A u \in Threads : Carries(u, v)' <=> Carries(u, v)
      BY <1>0, <1>5, <2>2 DEF HandsOut, Carries, EnqueuePcs
    <3> QED
      BY <1>1, <1>2, <1>5, <2>2, <3>1 DEF HandsOut, Placed, OneCarrier, OneCell
  <2> QED
    BY <2>1, <2>2
<1> QED
  BY <1>0, <1>3, <1>4, <1>5, WorkPlaces, ClientOutcome
-----------------------------------------------------------------------------
(* The ring under another client, which observes nothing: LockFreeQueueProofs*)
(* takes these facts twice, each ring with the rest of the queue as its pool.*)

Inside(v) == (\E t \in Threads : Carries(t, v)) \/ \E i : InCell(v, i)
\* A thread that is about to raise the tail does not raise it beyond the head.
RaisesToHead == \A t \in Threads :
  op[t].pc \in {"F_again", "F_cas"} => op[t].ticket <= head
RingSound ==
  /\ RingInv /\ TicketInv /\ TakesWhatItSaw /\ RaisesToHead
  /\ \A v \in Values : Placed(v)

\* The pool holds what is neither in a cell nor in a call.
LEMMA PoolIsOutside == RingSound => \A v \in Values : Inside(v) <=> v \notin pool
BY DEF RingSound, Placed, Inside

\* After a step as before it.
LEMMA PoolIsOutsideNext == RingSound' => \A v \in Values : Inside(v)' <=> v \notin pool'
BY DEF RingSound, Placed, Inside

\* A call in progress goes on, the others stand still.
LEMMA OthersWait ==
  ASSUME RingInv, NEW t \in Threads, RingStep(t)
  PROVE  \A u \in Threads \ {t} : op'[u] = op[u]
<1>1. \E f : Become(t, f)
  BY DEF RingStep, EnqueueStep, DequeueStep, EnqTicket,
         EnqIndex, EnqValue, EnqHead, EnqReserve, EnqAdvance, EnqCommit, EnqUndo,
         DeqSizeTail, DeqSizeHead, DeqTicket, DeqIndex, DeqValue, DeqTake, DeqRecheck,
         DeqMark, DeqTail, DeqUnbottom, DeqPoison, DeqLast, FixTail, FixHead, FixAgain,
         FixCas, NewTicket, Goto
<1> QED
  BY <1>1, Becomes

\* What a step of a call can do, without its client.
LEMMA WorkOutcome ==
  ASSUME RingInv, NEW t \in Threads, RingStep(t)
  PROVE  Outcome(t) /\ (EnqueueOutcome(t) \/ DequeueOutcome(t)) /\ RingInv'
BY OthersWait, EnqueueOutcomes, DequeueOutcomes, EnqueueKept, DequeueKept DEF RingStep, Outcome

\* A call of enqueue stays one until it is done, and so does a call of dequeue.
LEMMA CallGoesOn ==
  ASSUME RingInv, NEW t \in Threads, RingStep(t)
  PROVE  \/ op[t].pc \in EnqueuePcs /\ op'[t].pc \in EnqueuePcs \cup {"E_done"}
         \/ op[t].pc \in DequeuePcs /\ op'[t].pc \in DequeuePcs \cup {"D_done"}
<1> USE DEF EnqueuePcs, DequeuePcs
<1>1. CASE EnqueueOutcome(t)
  BY <1>1 DEF EnqueueOutcome, Draws, Loads, Approves, Dares, Restarts, Reserves, Advances,
       Yields, Commits, Withdraws, KeepsCall
<1>2. CASE DequeueOutcome(t)
  BY <1>2 DEF DequeueOutcome, Claims, Loads, Sees, Wonders, Waits, GoesOn, Again, Passes,
       Takes, MarksUnsafe, Evicts, Poisons, Searches, FixPcs
<1> QED
  BY <1>1, <1>2, WorkOutcome

\* Where the steps of a dequeue lead that look at the counters only.
LEMMA Looks ==
  ASSUME RingInv, NEW t \in Threads
  PROVE  /\ DeqSizeTail(t) => op'[t].pc = "D_size_head"
         /\ DeqSizeHead(t) \/ DeqLast(t) => op'[t].pc \in {"D_ticket", "D_done", "F_tail"}
         /\ FixTail(t) => op'[t].pc = "F_head"
         /\ FixHead(t) => op'[t].pc = "F_again" /\ op'[t].ticket = head
         /\ FixAgain(t) => \/ op'[t].pc \in {"F_tail", "D_done"}
                           \/ op'[t].pc = "F_cas" /\ op'[t].ticket = op[t].ticket
         /\ FixCas(t) => op'[t].pc \in {"F_tail", "D_done"}
<1> DEFINE f == op[t]
           seen == [f EXCEPT !.pc = "F_again", !.ticket = head]
           kept == [f EXCEPT !.pc = "F_cas"]
           read == [f EXCEPT !.pc = "F_head", !.tt = tail]
           sized == [f EXCEPT !.pc = "D_size_head", !.tt = tail]
<1>1. \A g : Become(t, g) => op'[t] = g
  BY Becomes
<1>2. /\ seen.pc = "F_again" /\ seen.ticket = head /\ kept.pc = "F_cas" /\ kept.ticket = f.ticket
      /\ read.pc = "F_head" /\ sized.pc = "D_size_head"
  BY Before DEF Frames
<1>3. \A pc, a : Frame(pc, a).pc = pc /\ Answer(a).pc = "D_done"
  BY DEF Frame, Answer
<1>4. /\ DeqSizeTail(t) => Become(t, sized)
      /\ FixTail(t) => Become(t, read)
      /\ FixHead(t) => Become(t, seen)
      /\ Goto(t, "F_cas") => Become(t, kept)
  BY DEF DeqSizeTail, FixTail, FixHead, Goto
<1> HIDE DEF seen, kept, read, sized
<1>5. (DeqSizeTail(t) => op'[t] = sized) /\ (FixTail(t) => op'[t] = read)
      /\ (FixHead(t) => op'[t] = seen) /\ (Goto(t, "F_cas") => op'[t] = kept)
  BY <1>1, <1>4
<1>6. DeqSizeHead(t) \/ DeqLast(t) => op'[t].pc \in {"D_ticket", "D_done", "F_tail"}
  BY <1>1, <1>3 DEF DeqSizeHead, DeqLast
<1>7. FixAgain(t) => op'[t].pc \in {"F_tail", "D_done"} \/ op'[t] = kept
  BY <1>1, <1>3, <1>5 DEF FixAgain
<1>8. FixCas(t) => op'[t].pc \in {"F_tail", "D_done"}
  BY <1>1, <1>3 DEF FixCas
<1> QED
  BY <1>2, <1>5, <1>6, <1>7, <1>8

\* The last load of the head was not beyond it.
LEMMA RaisesKept ==
  ASSUME RingInv, RaisesToHead, NEW t \in Threads, RingStep(t)
  PROVE  /\ RaisesToHead'
         /\ op'[t].pc \in {"D_size_tail", "D_size_head"} => op[t].pc \in {"D_size_tail", "D_size_head"}
<1>0. Typed /\ Typed' /\ Outcome(t) /\ head \in Nat /\ head' \in Nat
  BY WorkOutcome, Types, TypesNext DEF RingInv
<1>1. head <= head' /\ \A u \in Threads \ {t} : op'[u] = op[u]
  BY <1>0, CountersGrow, OthersWait
<1>2. ASSUME op'[t].pc \in {"F_again", "F_cas", "D_size_tail", "D_size_head"}
      PROVE  /\ head' = head
             /\ \/ DeqSizeTail(t) \/ DeqSizeHead(t) \/ DeqLast(t)
                \/ FixTail(t) \/ FixHead(t) \/ FixAgain(t) \/ FixCas(t)
  <2>1. Searches(t)
    BY <1>0, <1>2, WorkOutcome DEF EnqueueOutcome, DequeueOutcome, Draws, Loads, Approves,
       Dares, Restarts, Reserves, Advances, Yields, Commits, Withdraws, Claims, Sees, Wonders,
       Waits, GoesOn, Again, Passes, Takes, MarksUnsafe, Evicts, Poisons
  <2> QED
    BY <2>1 DEF Searches, FixPcs, RingStep, EnqueueStep, DequeueStep, EnqTicket, EnqIndex,
       EnqValue, EnqHead, EnqReserve, EnqAdvance, EnqCommit, EnqUndo, DeqTicket, DeqIndex,
       DeqValue, DeqTake, DeqRecheck, DeqMark, DeqTail, DeqUnbottom, DeqPoison
<1>3. ASSUME op'[t].pc \in {"F_again", "F_cas"}
      PROVE  op'[t].ticket <= head'
  <2>1. FixHead(t) \/ (FixAgain(t) /\ op'[t].ticket = op[t].ticket)
    BY <1>2, <1>3, Looks
  <2>2. FixAgain(t) => op[t].pc = "F_again"
    BY DEF FixAgain
  <2> QED
    BY <1>0, <1>2, <1>3, <2>1, <2>2, Looks DEF RaisesToHead
<1>4. op'[t].pc \in {"D_size_tail", "D_size_head"} => op[t].pc \in {"D_size_tail", "D_size_head"}
  <2> SUFFICES ASSUME op'[t].pc \in {"D_size_tail", "D_size_head"} PROVE DeqSizeTail(t)
    BY DEF DeqSizeTail
  <2> QED
    BY <1>2, Looks
<1> QED
  BY <1>0, <1>1, <1>3, <1>4 DEF RaisesToHead, Typed

\* A dequeuer that draws a ticket brings head and tail together; a dequeuer that
\* raises the tail leaves nothing between them.
LEMMA Approaches ==
  ASSUME RingInv, RaisesToHead, NEW t \in Threads, DequeueStep(t)
  PROVE  \/ op[t].pc = "D_ticket" /\ head' = head + 1 /\ tail' = tail
         \/ op[t].pc # "D_ticket" /\ head' = head /\ (tail' = tail \/ tail' <= head)
<1>1. CASE DeqTicket(t)
  BY <1>1 DEF DeqTicket
<1>2. CASE FixCas(t)
  BY <1>2 DEF FixCas, RaisesToHead
<1> QED
  BY <1>1, <1>2 DEF DequeueStep, DeqSizeTail, DeqSizeHead, DeqIndex, DeqValue, DeqTake,
     DeqRecheck, DeqMark, DeqTail, DeqUnbottom, DeqPoison, DeqLast, FixTail, FixHead, FixAgain

\* Every step of a call keeps the ring sound.
LEMMA WorkIsSound ==
  ASSUME RingSound, SteadyView, NEW t \in Threads, RingStep(t),
         UNCHANGED <<pool, before, overtaken, late>>
  PROVE  RingSound'
<1>1. RingInv /\ RingInv' /\ Typed /\ Typed' /\ Outcome(t) /\ Works(t)
  BY WorkOutcome, Types, TypesNext DEF RingSound, Works
<1>2. TicketInv' /\ TakesWhatItSaw'
  BY <1>1, TicketInvKept, TakesKept DEF RingSound
<1>3. \A v \in Values : Placed(v)'
  BY <1>1, WorkPlaces DEF RingSound
<1>4. RaisesToHead'
  BY RaisesKept DEF RingSound
<1> QED
  BY <1>1, <1>2, <1>3, <1>4 DEF RingSound

\* A call or a return changes one frame, of a thread that is in no loop.
LEMMA CallOutcome ==
  ASSUME RingSound, NEW t \in Threads, NEW f, Become(t, f), UNCHANGED <<head, tail, cell>>,
         op[t].pc \in {"idle", "E_done", "D_done"},
         f.pc \in {"idle", "E_ticket", "D_size_tail", "D_ticket"}, RingInv'
  PROVE  /\ TicketInv' /\ TakesWhatItSaw' /\ RaisesToHead'
         /\ op'[t] = f /\ \A u \in Threads \ {t} : op'[u] = op[u]
         /\ \A v, i : InCell(v, i)' <=> InCell(v, i)
<1>1. op'[t] = f /\ \A u \in Threads \ {t} : op'[u] = op[u]
  BY Becomes DEF RingSound
<1>2. Typed /\ Typed' /\ Outcome(t)
  BY <1>1, Types, TypesNext DEF RingSound, Outcome, Enters, Quiet
<1>3. TicketInv'
  BY <1>2, TicketInvKept DEF RingSound
<1>4. TakesWhatItSaw' /\ RaisesToHead'
  BY <1>1 DEF RingSound, TakesWhatItSaw, RaisesToHead, Here
<1> QED
  BY <1>1, <1>3, <1>4 DEF InCell

\* The ring stays sound under a call of enqueue, which takes its index out of the pool,
LEMMA EnqueueCallIsSound ==
  ASSUME RingSound, NEW t \in Threads, NEW a \in pool \cap Values, CallEnqueue(t, a),
         pool' = pool \ {a}
  PROVE  RingSound'
<1>0. RingInv'
  BY CallKept DEF RingSound
<1>1. /\ op[t].pc = "idle" /\ Become(t, Frame("E_ticket", a)) /\ UNCHANGED <<head, tail, cell>>
      /\ Frame("E_ticket", a).pc = "E_ticket" /\ Frame("E_ticket", a).arg = a
  BY DEF CallEnqueue, Idle, Frame
<1>2. /\ TicketInv' /\ TakesWhatItSaw' /\ RaisesToHead' /\ op'[t] = Frame("E_ticket", a)
      /\ \A u \in Threads \ {t} : op'[u] = op[u]
      /\ \A v, i : InCell(v, i)' <=> InCell(v, i)
  BY <1>0, <1>1, CallOutcome
<1>3. ASSUME NEW v \in Values PROVE Placed(v)'
  <2>0. Placed(v)
    BY DEF RingSound
  <2>1. CASE v = a
    <3>1. \A u \in Threads : Carries(u, v)' <=> u = t
      BY <1>1, <1>2, <2>0, <2>1 DEF Placed, Carries, EnqueuePcs
    <3> QED
      BY <1>2, <2>0, <2>1, <3>1 DEF Placed, OneCarrier, OneCell
  <2>2. CASE v # a
    <3>1. \A u \in Threads : Carries(u, v)' <=> Carries(u, v)
      BY <1>1, <1>2, <2>2 DEF Carries, EnqueuePcs
    <3> QED
      BY <1>2, <2>0, <2>2, <3>1 DEF Placed, OneCarrier, OneCell
  <2> QED
    BY <2>1, <2>2
<1> QED
  BY <1>0, <1>2, <1>3 DEF RingSound

\* under a call of dequeue, which begins at the counters or at its ticket,
LEMMA DequeueCallIsSound ==
  ASSUME RingSound, NEW t \in Threads, NEW nonempty \in BOOLEAN, CallDequeue(t, nonempty),
         UNCHANGED pool
  PROVE  RingSound' /\ op'[t].pc = (IF nonempty THEN "D_size_tail" ELSE "D_ticket")
<1>0. RingInv'
  BY CallKept DEF RingSound
<1> DEFINE pc == IF nonempty THEN "D_size_tail" ELSE "D_ticket"
<1>1. /\ op[t].pc = "idle" /\ Become(t, Frame(pc, Invalid)) /\ UNCHANGED <<head, tail, cell>>
      /\ Frame(pc, Invalid).pc = pc /\ pc \in {"D_size_tail", "D_ticket"}
  BY DEF CallDequeue, Idle, Frame
<1> HIDE DEF pc
<1>2. /\ TicketInv' /\ TakesWhatItSaw' /\ RaisesToHead' /\ op'[t] = Frame(pc, Invalid)
      /\ \A u \in Threads \ {t} : op'[u] = op[u]
      /\ \A v, i : InCell(v, i)' <=> InCell(v, i)
  BY <1>0, <1>1, CallOutcome
<1>3. ASSUME NEW v \in Values PROVE Placed(v)'
  <2>1. \A u \in Threads : Carries(u, v)' <=> Carries(u, v)
    BY <1>1, <1>2 DEF Carries, EnqueuePcs
  <2> QED
    BY <1>2, <2>1 DEF RingSound, Placed, OneCarrier, OneCell
<1> QED
  BY <1>0, <1>1, <1>2, <1>3 DEF RingSound, pc

\* under a return, after which the index dequeue answered is in the pool.
LEMMA ReturnIsSound ==
  ASSUME RingSound, NEW t \in Threads, Return(t),
         pool' = (IF op[t].pc = "D_done" /\ op[t].arg \in Values
                    THEN pool \cup {op[t].arg} ELSE pool)
  PROVE  RingSound'
<1>0. RingInv'
  BY CallKept DEF RingSound
<1>1. /\ op[t].pc \in {"E_done", "D_done"} /\ Become(t, Idle) /\ UNCHANGED <<head, tail, cell>>
      /\ Idle.pc = "idle"
  BY DEF Return, Idle, Frame
<1>2. /\ TicketInv' /\ TakesWhatItSaw' /\ RaisesToHead' /\ op'[t] = Idle
      /\ \A u \in Threads \ {t} : op'[u] = op[u]
      /\ \A v, i : InCell(v, i)' <=> InCell(v, i)
  BY <1>0, <1>1, CallOutcome
<1>3. ASSUME NEW v \in Values PROVE Placed(v)'
  <2>0. Placed(v)
    BY DEF RingSound
  <2>1. CASE op[t].pc = "D_done" /\ op[t].arg = v
    <3>1. Carries(t, v) /\ v \in pool'
      BY <2>1 DEF Carries
    <3>2. \A u \in Threads : ~Carries(u, v)'
      BY <1>1, <1>2, <2>0, <3>1 DEF Placed, OneCarrier, Carries, EnqueuePcs
    <3> QED
      BY <1>2, <2>0, <3>1, <3>2 DEF Placed, OneCarrier, OneCell
  <2>2. CASE ~(op[t].pc = "D_done" /\ op[t].arg = v)
    <3>1. \A u \in Threads : Carries(u, v)' <=> Carries(u, v)
      BY <1>1, <1>2, <2>2 DEF Carries, EnqueuePcs
    <3>2. v \in pool' <=> v \in pool
      BY <2>2
    <3> QED
      BY <1>2, <2>0, <3>1, <3>2 DEF Placed, OneCarrier, OneCell
  <2> QED
    BY <2>1, <2>2
<1> QED
  BY <1>0, <1>2, <1>3 DEF RingSound

\* and under a step elsewhere.
LEMMA RestIsSound ==
  ASSUME RingSound, UNCHANGED <<head, tail, cell, op, pool>>
  PROVE  RingSound'
<1>1. RingInv' /\ TakesWhatItSaw' /\ RaisesToHead' /\ \A v \in Values : Placed(v)'
  BY DEF RingSound, RingInv, TakesWhatItSaw, RaisesToHead, Here, Placed, Carries, InCell,
     OneCarrier, OneCell
<1>2. TicketInv'
  BY DEF RingSound, TicketInv, MarksAreOwned, FilledByTicket, ViewsAreOld, TicketsAreDrawn,
     Decisions, LeftIsDead, LeavingIsSafe, Filling, FillingHere, SawVacant, Here, Served, Dead,
     Risk, RiskHere
<1> QED
  BY <1>1, <1>2 DEF RingSound

\* A new ring, full or cleared, and sound: nobody is in a call, and the cells hold
\* all indexes or none.
New == (InitFull /\ pool = {}) \/ (InitCleared /\ pool = Values)
LEMMA NewIsSound == New => RingSound
<1> SUFFICES ASSUME New PROVE RingSound
  OBVIOUS
<1>1. RingInv
  <2>1. Idle \in Good
    BY Fresh DEF Idle, Pcs, EnqueuePcs, DequeuePcs
  <2>2. ClearedCells \in [0..(N - 1) -> Cells] /\ FullCells \in [0..(N - 1) -> Cells]
    BY NAssumption DEF ClearedCells, FullCells, Cells, Words, Values
  <2> QED
    BY <2>1, <2>2, NAssumption DEF New, InitFull, InitCleared, RingInv
<1>2. \A t \in Threads : op[t].pc = "idle"
  BY DEF New, InitFull, InitCleared, Idle, Frame
<1>3. \A i \in 0..(N - 1) : Cell(i) = i
  BY NAssumption DEF Cell
<1>4. /\ head = 0
      /\ \/ /\ tail = N /\ pool = {}
            /\ \A i \in 0..(N - 1) : cell[i].node = i + N /\ cell[i].value = i
         \/ /\ tail = 0 /\ pool = Values
            /\ \A i \in 0..(N - 1) : cell[i].value = Invalid
  <2>1. CASE InitFull /\ pool = {}
    BY <2>1 DEF InitFull, FullCells
  <2>2. CASE InitCleared /\ pool = Values
    BY <2>2 DEF InitCleared, ClearedCells
  <2> QED
    BY <2>1, <2>2 DEF New
<1>5. \A i \in 0..(N - 1) : i \in Values /\ i \notin Threads /\ Invalid \notin Threads \cup Values
  BY WordAssumption DEF Values
<1>6. TicketInv
  <2>1. MarksAreOwned /\ ViewsAreOld /\ TicketsAreDrawn /\ Decisions /\ LeavingIsSafe
    BY <1>2, <1>4, <1>5 DEF MarksAreOwned, ViewsAreOld, TicketsAreDrawn, Decisions,
       LeavingIsSafe, LoadedPcs, TicketPcs, LatePcs, EnqueuePcs
  <2>2. FilledByTicket
    <3> SUFFICES ASSUME NEW i \in 0..(N - 1), Filling(i)
                 PROVE  \E T \in Nat : T < tail /\ Cell(T) = i /\ cell[i].node = T + N
      BY DEF FilledByTicket
    <3>1. tail = N /\ cell[i].node = i + N
      BY <1>2, <1>4, <1>5 DEF Filling
    <3> QED
      BY <1>3, <3>1, NAssumption
  <2>3. LeftIsDead
    BY <1>4 DEF LeftIsDead
  <2> QED
    BY <2>1, <2>2, <2>3 DEF TicketInv
<1>7. TakesWhatItSaw /\ RaisesToHead
  BY <1>2 DEF TakesWhatItSaw, RaisesToHead
<1>8. ASSUME NEW v \in Values PROVE Placed(v)
  <2>1. \A t \in Threads : ~Carries(t, v)
    BY <1>2 DEF Carries, EnqueuePcs
  <2>2. \/ pool = {} /\ \A i : InCell(v, i) <=> i = v
        \/ pool = Values /\ \A i : ~InCell(v, i)
    BY <1>4, <1>5 DEF InCell, Values
  <2> QED
    BY <2>1, <2>2 DEF Placed, OneCarrier, OneCell
<1> QED
  BY <1>1, <1>6, <1>7, <1>8 DEF RingSound

\* After a step as before it.
LEMMA RenewedIsSound == New' => RingSound'
BY NewIsSound, PTL

\* Once nobody dequeues and the head has reached the tail, no cell holds an index.
LEMMA DrainedIsEmpty ==
  ASSUME RingSound, tail <= head, \A t \in Threads : op[t].pc \notin TicketPcs
  PROVE  \A v \in Values : \A i : ~InCell(v, i)
<1> SUFFICES ASSUME NEW i \in 0..(N - 1), cell[i].value \in Values PROVE FALSE
  BY DEF InCell
<1>1. Filling(i)
  BY DEF Filling
<1>2. PICK T \in Nat : T < tail /\ Cell(T) = i /\ cell[i].node = T + N
  BY <1>1 DEF RingSound, TicketInv, FilledByTicket
<1>3. T < head /\ ~Served(T)
  BY <1>2 DEF Served, RingSound, RingInv
<1> QED
  BY <1>1, <1>2, <1>3 DEF RingSound, TicketInv, LeftIsDead, Dead

-----------------------------------------------------------------------------
(* In which order the indexes come out.                                     *)

\* Who dequeues goes on dequeuing.
LEMMA DequeuesOn ==
  ASSUME NEW t \in Threads, Works(t), Dequeuing(t)
  PROVE  Dequeuing(t)'
<1>1. op[t].pc \in DequeuePcs
  BY Carrying DEF Dequeuing
<1>2. ~EnqueueOutcome(t)
  BY <1>1 DEF EnqueueOutcome, Draws, Loads, Approves, Dares, Restarts, Reserves, Advances,
       Yields, Commits, Withdraws, DequeuePcs
<1>3. DequeueOutcome(t)
  BY <1>2 DEF Works
<1> QED
  BY <1>1, <1>3 DEF DequeueOutcome, Claims, Loads, Sees, Wonders, Waits, GoesOn, Again, Passes,
       Takes, MarksUnsafe, Evicts, Poisons, Searches, FixPcs, Dequeuing, DequeuePcs

\* What has left the pool and the enqueuers comes back to them by a return only.
LEMMA StaysOn ==
  ASSUME NEW t \in Threads, Outcome(t), Works(t), NEW a, Stays(a)
  PROVE  Stays(a)'
BY Carrying DEF Outcome, Works, Stays

\* An index that is not being enqueued only leaves its cell.
LEMMA BelowKept ==
  ASSUME Typed, Typed', TicketInv, NEW t \in Threads, Outcome(t), Works(t),
         NEW a \in Values, Stays(a), NEW n, Below(a, n)
  PROVE  Below(a, n)'
<1>1. ~(Commits(t) /\ op[t].arg = a)
  BY DEF Commits, Stays, EnqueuePcs
<1> QED
  BY <1>1, Elements DEF Below, InCell

\* An index below a ticket is below a later one.
LEMMA BelowMore ==
  ASSUME Typed, NEW a, NEW m \in Int, NEW n \in Int, m <= n, Below(a, m)
  PROVE  Below(a, n)
BY DEF Typed, Below, InCell

\* A dequeuer takes an index of its ticket.
LEMMA TakesItsTicket ==
  ASSUME Typed, TicketInv, TakesWhatItSaw, NEW t \in Threads, Takes(t)
  PROVE  /\ InCell(op[t].value, Cell(op[t].ticket))
         /\ Here(t).node = op[t].ticket + N /\ op[t].ticket < head
BY DEF Takes, TakesWhatItSaw, TicketInv, TicketsAreDrawn, TicketPcs, InCell, Here, Typed

\* The arithmetic of the laps.
LEMMA Shifted ==
  ASSUME NEW m \in Int, NEW n \in Int, m <= n
  PROVE  m + N \in Int /\ n + N \in Int /\ m + N <= n + N
BY NAssumption

\* An overtaken index stays below the dequeuers' counter.
LEMMA OvertakenKept ==
  ASSUME Typed, Typed', TicketInv, NEW t \in Threads, Outcome(t), Works(t),
         NEW a \in Values, Overtaken(a)
  PROVE  Overtaken(a)'
<1>1. Below(a, head + N)'
  <2>0. PICK n : n = head + N
    OBVIOUS
  <2>1. Below(a, n)'
    BY <2>0, BelowKept DEF Overtaken
  <2>2. head <= head' /\ head \in Int /\ head' \in Int
    BY CountersGrow DEF Typed
  <2>3. head' + N \in Int /\ n \in Int /\ n <= head' + N
    BY <2>0, <2>2, Shifted
  <2> QED
    BY <2>1, <2>3 DEF Typed, Below, InCell
<1> QED
  BY <1>1, StaysOn DEF Overtaken

\* A dequeuer that began after an index was overtaken has a later ticket, and
\* does not take it.
LEMMA MissedKept ==
  ASSUME Typed, Typed', TicketInv, TakesWhatItSaw, NEW t \in Threads, Outcome(t), Works(t),
         NEW a \in Values, NEW u \in Threads, Missed(a, u)
  PROVE  Missed(a, u)'
<1>0. \A w \in Threads \ {t} : op'[w] = op[w]
  BY DEF Outcome
<1>1. Overtaken(a)' /\ Overtaken(a)
  BY OvertakenKept DEF Missed
<1>2. ASSUME op'[u].pc \in TicketPcs
      PROVE  Below(a, op[u].ticket + N)'
  <2>0. PICK n : n = op'[u].ticket + N
    OBVIOUS
  <2>1. Below(a, n)
    BY <1>0, <1>1, <1>2, <2>0, Sources DEF Missed, Overtaken, Claims, KeepsTicket
  <2>2. Below(a, n)'
    BY <1>1, <2>1, BelowKept DEF Overtaken
  <2> QED
    BY <2>0, <2>2
<1>3. ASSUME op'[u].pc = "D_done"
      PROVE  op'[u].arg # a
  <2>1. CASE u # t
    BY <1>0, <1>3, <2>1 DEF Missed
  <2>2. CASE u = t /\ Takes(t)
    <3>1. InCell(op[t].value, Cell(op[t].ticket)) /\ Here(t).node = op[t].ticket + N
      BY <2>2, TakesItsTicket
    <3>2. Below(a, op[t].ticket + N)
      BY <2>2 DEF Missed, Takes, TicketPcs
    <3>3. op[t].value # a
      BY <3>1, <3>2, NAssumption DEF Below, Here, Typed
    <3> QED
      BY <2>2, <3>3 DEF Takes
  <2>3. CASE u = t /\ op'[t].arg \in {Invalid, Overflow}
    BY <2>3, WordAssumption
  <2> QED
    BY <1>3, <2>1, <2>2, <2>3, Carrying
<1> QED
  BY <1>1, <1>2, <1>3 DEF Missed

\* An enqueuer that began when an index was in the ring draws a later ticket,
\* and stores its own index under it.
LEMMA PrecedesKept ==
  ASSUME Typed, Typed', TicketInv, TakesWhatItSaw, NEW t \in Threads, Outcome(t), Works(t),
         NEW a \in Values, NEW b \in Values, Precedes(a, b)
  PROVE  Precedes(a, b)'
<1>0. /\ \A u \in Threads \ {t} : op'[u] = op[u]
      /\ pool' = pool /\ b \notin pool /\ Stays(a) /\ Stays(a)'
  BY StaysOn DEF Outcome, Works, Precedes
<1>1. ASSUME NEW j, InCell(b, j)'
      PROVE  Below(a, cell[j].node)'
  <2>0. PICK n : n = cell'[j].node
    OBVIOUS
  <2>1. \/ InCell(b, j) /\ cell'[j].node = cell[j].node
        \/ Commits(t) /\ op[t].arg = b /\ cell'[j].node = op[t].ticket + N
    BY <1>1, Elements DEF InCell
  <2>2. Below(a, n)
    BY <2>0, <2>1 DEF Precedes, Commits, LatePcs, EnqueuePcs
  <2>3. Below(a, n)'
    BY <1>0, <2>2, BelowKept
  <2> QED
    BY <2>0, <2>3
<1>2. ASSUME NEW u \in Threads, op'[u].arg = b, op'[u].pc \in LatePcs
      PROVE  Below(a, op[u].ticket + N)'
  <2>0. PICK n : n = op'[u].ticket + N
    OBVIOUS
  <2>1. Below(a, n)
    <3>1. CASE u # t
      BY <1>0, <1>2, <2>0, <3>1 DEF Precedes
    <3>2. CASE u = t /\ Draws(t)
      <4> SUFFICES ASSUME NEW i, InCell(a, i) PROVE cell[i].node < n
        BY DEF Below
      <4>1. Filling(i) /\ i \in 0..(N - 1)
        BY DEF InCell, Filling
      <4>2. PICK T \in Nat : T < tail /\ cell[i].node = T + N
        BY <4>1 DEF TicketInv, FilledByTicket
      <4> QED
        BY <2>0, <3>2, <4>2, NAssumption DEF Draws, Typed
    <3>3. CASE u = t /\ op[t].pc \in LatePcs /\ KeepsTicket(t)
      <4>1. op[t].arg = b
        BY <1>2, <3>3, Carrying DEF LatePcs
      <4> QED
        BY <2>0, <3>3, <4>1 DEF Precedes, KeepsTicket
    <3> QED
      BY <1>2, <3>1, <3>2, <3>3, Sources
  <2>2. Below(a, n)'
    BY <1>0, <2>1, BelowKept
  <2> QED
    BY <2>0, <2>2
<1>3. ASSUME NEW u \in Threads, op'[u].arg = b, op'[u].pc = "D_done"
      PROVE  Below(a, head + N)'
  <2>0. PICK n : n = head + N
    OBVIOUS
  <2>1. Below(a, n)
    <3>1. CASE u # t
      BY <1>0, <1>3, <2>0, <3>1 DEF Precedes
    <3>2. CASE u = t
      <4>1. Takes(t) /\ op[t].value = b
        BY <1>3, <3>2, Carrying, WordAssumption DEF Takes
      <4>2. /\ InCell(b, Cell(op[t].ticket)) /\ Here(t).node = op[t].ticket + N
            /\ op[t].ticket < head
        BY <4>1, TakesItsTicket
      <4>3. Below(a, op[t].ticket + N)
        BY <4>2 DEF Precedes, Here
      <4>4. op[t].ticket + N \in Int /\ n \in Int /\ op[t].ticket + N <= n
        BY <2>0, <4>2, NAssumption DEF Typed
      <4> QED
        BY <4>3, <4>4, BelowMore
    <3> QED
      BY <3>1, <3>2
  <2>2. Below(a, n)'
    BY <1>0, <2>1, BelowKept
  <2>3. head <= head' /\ head \in Int /\ head' \in Int
    BY CountersGrow DEF Typed
  <2>4. head' + N \in Int /\ n \in Int /\ n <= head' + N
    BY <2>0, <2>3, Shifted
  <2> QED
    BY <2>2, <2>4 DEF Typed, Below, InCell
<1> QED
  BY <1>0, <1>1, <1>2, <1>3 DEF Precedes

\* The calls and the returns leave the ring alone.
LEMMA OrderKept ==
  ASSUME IInv, Typed, Typed', TicketInv, TakesWhatItSaw, NEW t \in Threads, ThreadStep(t),
         \A v \in Values : Placed(v), OrderInv
  PROVE  OrderInv'
<1>0. /\ Outcome(t) /\ \A u \in Threads \ {t} : op'[u] = op[u]
      /\ overtaken \subseteq Values /\ before \in [Values -> SUBSET Values]
      /\ late \in [Threads -> SUBSET Values]
  BY StepOutcome DEF Outcome, IInv, ClientInv
<1>1. CASE Works(t)
  <2>1. \A u \in Threads : Dequeuing(u) => Dequeuing(u)'
    BY <1>0, <1>1, DequeuesOn DEF Dequeuing
  <2>2. before' = before /\ overtaken' = overtaken /\ late' = late
    BY <1>1 DEF Works
  <2>3. \A b \in Values : \A a \in before[b] : Precedes(a, b)'
    BY <1>0, <1>1, PrecedesKept DEF OrderInv
  <2>4. \A a \in overtaken : Overtaken(a)'
    BY <1>0, <1>1, OvertakenKept DEF OrderInv
  <2>5. \A u \in Threads : \A a \in late[u] : Dequeuing(u)' /\ Missed(a, u)'
    BY <1>0, <1>1, <2>1, MissedKept DEF OrderInv
  <2> QED
    BY <2>2, <2>3, <2>4, <2>5 DEF OrderInv
\* Of an index that stays, the other calls and returns change nothing.
<1>2. ASSUME Quiet, op'[t].pc \notin LatePcs \cup DequeuePcs \cup {"D_done"} \/ Dequeues(t),
             NEW a, Stays(a), a \notin pool', op'[t].pc = "E_ticket" => op'[t].arg # a
      PROVE  /\ Stays(a)'
             /\ \A b \in Values : b \notin pool' /\ Precedes(a, b) => Precedes(a, b)'
             /\ Overtaken(a) => Overtaken(a)'
             /\ \A u \in Threads \ {t} : Missed(a, u) => Missed(a, u)'
  <2>1. UNCHANGED <<head, cell>>
    BY <1>2 DEF Quiet
  <2>2. \A i : InCell(a, i)' <=> InCell(a, i)
    BY <2>1 DEF InCell
  <2>3. op'[t].pc \notin LatePcs \cup {"D_done"}
    BY <1>2 DEF Dequeues, LatePcs, EnqueuePcs
  <2>4. Stays(a)'
    BY <1>0, <1>2, <2>3 DEF Stays, LatePcs
  <2>5. Overtaken(a) => Overtaken(a)'
    BY <2>1, <2>2, <2>4 DEF Overtaken, Below
  <2>6. ASSUME NEW b \in Values, b \notin pool', Precedes(a, b)
        PROVE  Precedes(a, b)'
    <3>1. ASSUME NEW j, InCell(b, j)' PROVE Below(a, cell[j].node)'
      BY <2>1, <2>6, <3>1 DEF Precedes, Below, InCell
    <3>2. ASSUME NEW u \in Threads, op'[u].arg = b
          PROVE  /\ op'[u].pc \in LatePcs => Below(a, op[u].ticket + N)'
                 /\ op'[u].pc = "D_done" => Below(a, head + N)'
      BY <1>0, <2>1, <2>3, <2>6, <3>2 DEF Precedes, Below, InCell
    <3> QED
      BY <2>4, <2>6, <3>1, <3>2 DEF Precedes
  <2>7. ASSUME NEW u \in Threads \ {t}, Missed(a, u) PROVE Missed(a, u)'
    <3>1. op'[u] = op[u]
      BY <1>0
    <3> QED
      BY <2>1, <2>5, <2>7, <3>1 DEF Missed, Below, InCell
  <2> QED
    BY <2>4, <2>5, <2>6, <2>7
<1>3. \A u \in Threads \ {t} : Dequeuing(u) => Dequeuing(u)'
  BY <1>0 DEF Dequeuing
<1>4. /\ \A b \in Values : \A a \in before[b] : Precedes(a, b)
      /\ \A a \in overtaken : Overtaken(a)
      /\ \A u \in Threads : \A a \in late[u] : Dequeuing(u) /\ Missed(a, u)
  BY DEF OrderInv
<1>5. op[t].pc \in {"idle", "E_done"} => late[t] = {}
  BY <1>4 DEF Dequeuing, DequeuePcs
<1>6. CASE Dequeues(t)
  <2>1. Quiet /\ UNCHANGED <<pool, before, overtaken>> /\ op'[t].pc \in {"D_size_tail", "D_ticket"}
        /\ late' = [late EXCEPT ![t] = overtaken]
    BY <1>6 DEF Dequeues
  <2>2. \A b \in Values : \A a \in before[b] : Precedes(a, b)'
    BY <1>2, <1>4, <1>6, <2>1 DEF Precedes, Stays
  <2>3. \A a \in overtaken : Overtaken(a)'
    BY <1>2, <1>4, <1>6, <2>1 DEF Overtaken, Stays
  <2>4. \A a \in overtaken : Dequeuing(t)' /\ Missed(a, t)'
    BY <2>1, <2>3 DEF Missed, Dequeuing, DequeuePcs, TicketPcs
  <2>5. \A u \in Threads \ {t} : \A a \in late[u] : Dequeuing(u)' /\ Missed(a, u)'
    BY <1>2, <1>3, <1>4, <1>6, <2>1 DEF Missed, Overtaken, Stays
  <2>6. \A u \in Threads : late'[u] = (IF u = t THEN overtaken ELSE late[u])
    BY <1>0, <2>1
  <2> QED
    BY <2>1, <2>2, <2>3, <2>4, <2>5, <2>6 DEF OrderInv
<1>7. CASE Returns(t)
  <2>1. Quiet /\ UNCHANGED <<pool, before, overtaken>> /\ op'[t].pc = "idle"
    BY <1>7 DEF Returns
  <2>2. op'[t].pc \notin LatePcs \cup DequeuePcs \cup {"D_done"}
    BY <2>1 DEF LatePcs, EnqueuePcs, DequeuePcs
  <2>3. \A b \in Values : \A a \in before[b] : Precedes(a, b)'
    BY <1>2, <1>4, <2>1, <2>2 DEF Precedes, Stays
  <2>4. \A a \in overtaken : Overtaken(a)'
    BY <1>2, <1>4, <2>1, <2>2 DEF Overtaken, Stays
  <2>5. \A u \in Threads \ {t} : \A a \in late[u] : Dequeuing(u)' /\ Missed(a, u)'
    BY <1>2, <1>3, <1>4, <2>1, <2>2 DEF Missed, Overtaken, Stays
  <2>6. late'[t] = {} /\ \A u \in Threads \ {t} : late'[u] = late[u]
    BY <1>5, <1>7 DEF Returns
  <2> QED
    BY <2>1, <2>3, <2>4, <2>5, <2>6 DEF OrderInv
<1>8. ASSUME NEW v \in Values, Enqueues(t, v)
      PROVE  OrderInv'
  <2>1. /\ Quiet /\ op[t].pc = "idle" /\ op'[t].pc = "E_ticket" /\ op'[t].arg = v
        /\ v \in pool /\ pool' = pool \ {v} /\ UNCHANGED <<overtaken, late>>
        /\ \A b \in Values : before'[b] = (IF b = v THEN InRing ELSE before[b])
    BY <1>0, <1>8 DEF Enqueues
  <2>2. op'[t].pc \notin LatePcs \cup DequeuePcs \cup {"D_done"}
    BY <2>1 DEF LatePcs, DequeuePcs
  <2>3. \A b \in Values \ {v} : \A a \in before[b] : Precedes(a, b)'
    BY <1>2, <1>4, <2>1, <2>2 DEF Precedes, Stays
  <2>4. \A a \in overtaken : Overtaken(a)'
    BY <1>2, <1>4, <2>1, <2>2 DEF Overtaken, Stays
  <2>5. \A u \in Threads \ {t} : \A a \in late[u] : Dequeuing(u)' /\ Missed(a, u)'
    BY <1>2, <1>3, <1>4, <2>1, <2>2 DEF Missed, Overtaken, Stays
  <2>6. ASSUME NEW a \in InRing
        PROVE  Precedes(a, v)'
    <3>1. PICK i : a \in Values /\ InCell(a, i)
      BY DEF InRing, Committed, InCell, IInv, RingInv
    <3>2. a \notin pool /\ (\A u \in Threads : ~Carries(u, a)) /\ a # v
      BY <2>1, <3>1 DEF Placed
    <3>3. Stays(a)
      BY <3>2 DEF Stays, Carries
    <3>4. Stays(a)'
      BY <1>2, <2>1, <2>2, <3>2, <3>3
    <3>5. (\A j : ~InCell(v, j)) /\ (\A u \in Threads : ~Carries(u, v))
      BY <2>1 DEF Placed
    <3>6. \A j : ~InCell(v, j)'
      BY <2>1, <3>5 DEF Quiet, InCell
    <3>7. \A u \in Threads : op'[u].arg = v => op'[u].pc \notin LatePcs \cup {"D_done"}
      BY <1>0, <2>2, <3>5 DEF Carries, LatePcs
    <3> QED
      BY <2>1, <3>4, <3>6, <3>7 DEF Precedes
  <2>7. late[t] = {}
    BY <1>5, <2>1
  <2>8. \A b \in Values : \A a \in before'[b] : Precedes(a, b)'
    BY <2>1, <2>3, <2>6
  <2>9. \A a \in overtaken' : Overtaken(a)'
    BY <2>1, <2>4
  <2>10. \A u \in Threads : \A a \in late'[u] : Dequeuing(u)' /\ Missed(a, u)'
    BY <2>1, <2>5, <2>7
  <2> QED
    BY <2>8, <2>9, <2>10 DEF OrderInv
<1>9. ASSUME NEW v \in Values, HandsOut(t, v)
      PROVE  OrderInv'
  <2>1. /\ Quiet /\ op[t].pc = "D_done" /\ op[t].arg = v /\ op'[t].pc = "idle"
        /\ pool' = pool \cup {v} /\ overtaken' = (overtaken \cup before[v]) \ {v}
        /\ \A b \in Values : before'[b] = (IF b = v THEN {} ELSE before[b] \ {v})
        /\ \A u \in Threads : late'[u] = (IF u = t THEN {} ELSE late[u] \ {v})
    BY <1>9 DEF HandsOut
  <2>2. op'[t].pc \notin LatePcs \cup DequeuePcs \cup {"D_done"}
    BY <2>1 DEF LatePcs, EnqueuePcs, DequeuePcs
  <2>3. \A b \in Values \ {v} : \A a \in before[b] \ {v} : Precedes(a, b)'
    BY <1>2, <1>4, <2>1, <2>2 DEF Precedes, Stays
  <2>4. \A a \in overtaken \ {v} : Overtaken(a)'
    BY <1>2, <1>4, <2>1, <2>2 DEF Overtaken, Stays
  <2>5. \A a \in before[v] \ {v} : Overtaken(a)'
    BY <1>2, <1>4, <2>1, <2>2 DEF Precedes, Overtaken, Stays
  <2>6. \A u \in Threads \ {t} : \A a \in late[u] \ {v} : Dequeuing(u)' /\ Missed(a, u)'
    BY <1>2, <1>3, <1>4, <2>1, <2>2 DEF Missed, Overtaken, Stays
  <2>7. \A b \in Values : \A a \in before'[b] : Precedes(a, b)'
    BY <2>1, <2>3
  <2>8. \A a \in overtaken' : Overtaken(a)'
    BY <2>1, <2>4, <2>5
  <2>9. \A u \in Threads : \A a \in late'[u] : Dequeuing(u)' /\ Missed(a, u)'
    BY <2>1, <2>6
  <2> QED
    BY <2>7, <2>8, <2>9 DEF OrderInv
<1> QED
  BY <1>1, <1>6, <1>7, <1>8, <1>9, ClientOutcome
-----------------------------------------------------------------------------
(* The theorems about the order and the place of the indexes.               *)

\* The strengthened invariant holds at first, of both rings,
LEMMA InitService == Init => ServiceInv
<1> SUFFICES ASSUME Init PROVE ServiceInv
  OBVIOUS
<1>1. IInv /\ RingInv
  BY InitIInv DEF IInv
<1>2. \A t \in Threads : op[t].pc = "idle"
  BY DEF Init, InitFull, InitCleared, Idle, Frame
<1>3. /\ head = 0
      /\ \/ /\ tail = N /\ pool = {} /\ \A v \in Values : before[v] = 0..(v - 1)
            /\ \A i \in 0..(N - 1) : cell[i].node = i + N /\ cell[i].value = i
         \/ /\ tail = 0 /\ pool = Values /\ \A v \in Values : before[v] = {}
            /\ \A i \in 0..(N - 1) : cell[i].value = Invalid
  <2>1. CASE freeList
    BY <2>1 DEF Init, InitFull, FullCells
  <2>2. CASE ~freeList
    BY <2>2 DEF Init, InitCleared, ClearedCells
  <2> QED
    BY <2>1, <2>2
<1>4. overtaken = {} /\ \A t \in Threads : late[t] = {}
  BY DEF Init
<1>5. RingSound
  BY NewIsSound DEF New, Init
<1>6. SearchersSaw /\ SteadyView
  BY <1>2 DEF SearchersSaw, SteadyView, FixPcs
<1>7. OrderInv
  <2>1. ASSUME NEW b \in Values, NEW a \in before[b]
        PROVE  Precedes(a, b)
    <3>1. /\ pool = {} /\ a \in 0..(b - 1) /\ b \in 0..(N - 1)
          /\ \A i \in 0..(N - 1) : cell[i].node = i + N /\ cell[i].value = i
      BY <1>3, <2>1 DEF Values
    <3>2. \A i, j : InCell(a, i) /\ InCell(b, j) => cell[i].node < cell[j].node
      BY <3>1, NAssumption DEF InCell
    <3> QED
      BY <1>2, <3>1, <3>2 DEF Precedes, Stays, Below, LatePcs, EnqueuePcs
  <2> QED
    BY <1>4, <2>1 DEF OrderInv
<1> QED
  BY <1>1, <1>5, <1>6, <1>7 DEF ServiceInv, RingSound

\* is kept by every step,
LEMMA ServiceKept ==
  ASSUME ServiceInv, Next
  PROVE  ServiceInv'
<1>1. PICK t \in Threads : ThreadStep(t)
  BY DEF Next
<1>2. /\ IInv /\ IInv' /\ RingInv /\ RingInv' /\ TicketInv /\ SearchersSaw
      /\ Observe /\ (~torn' => ~torn /\ SteadyView')
  BY NextKept DEF ServiceInv, IInv, Next
<1>3. Typed /\ Typed'
  BY <1>2, Types, TypesNext
<1>4. Outcome(t)
  BY <1>1, <1>2, StepOutcome
<1>5. TicketInv' /\ SearchersSaw'
  BY <1>2, <1>3, <1>4, TicketInvKept, SearchersKept
<1>6. ASSUME ~torn'
      PROVE  TakesWhatItSaw' /\ (\A v \in Values : Placed(v)') /\ OrderInv'
  <2>1. SteadyView /\ TakesWhatItSaw /\ (\A v \in Values : Placed(v)) /\ OrderInv
    BY <1>2, <1>6 DEF ServiceInv
  <2>2. TakesWhatItSaw'
    BY <1>2, <1>3, <1>4, <2>1, TakesKept
  <2>3. \A v \in Values : Placed(v)'
    BY <1>1, <1>2, <1>3, <2>1, PlacesKept
  <2>4. OrderInv'
    BY <1>1, <1>2, <1>3, <2>1, OrderKept
  <2> QED
    BY <2>2, <2>3, <2>4
<1> QED
  BY <1>2, <1>5, <1>6 DEF ServiceInv

\* and by stuttering.
LEMMA ServiceStutters ==
  ASSUME ServiceInv, UNCHANGED vars
  PROVE  ServiceInv'
<1>1. IInv'
  BY StutterKept DEF ServiceInv
<1>2. UNCHANGED <<head, tail, cell, op, torn, pool, before, overtaken, late, sawEmpty>>
  BY DEF vars
<1>3. TicketInv'
  BY <1>2 DEF ServiceInv, TicketInv, MarksAreOwned, FilledByTicket, Filling, ViewsAreOld, Here,
     SawVacant, FillingHere, TicketsAreDrawn, Decisions, LeftIsDead, Served, Dead, Risk,
     LeavingIsSafe, RiskHere
<1>4. SearchersSaw' /\ (SteadyView => SteadyView') /\ (TakesWhatItSaw => TakesWhatItSaw')
  BY <1>2 DEF ServiceInv, SearchersSaw, SteadyView, TakesWhatItSaw, Pos, Here
<1>5. (\A v \in Values : Placed(v)) => \A v \in Values : Placed(v)'
  BY <1>2 DEF Placed, Carries, InCell, OneCarrier, OneCell
<1>6. OrderInv => OrderInv'
  BY <1>2 DEF OrderInv, Precedes, Stays, Below, InCell, Overtaken, Missed, Dequeuing
<1> QED
  BY <1>1, <1>2, <1>3, <1>4, <1>5, <1>6 DEF ServiceInv

\* The strengthened invariant of the ring and its client.
THEOREM Service == Spec => []ServiceInv
<1>1. ServiceInv /\ [Next]_vars => ServiceInv'
  BY ServiceKept, ServiceStutters
<1> QED
  BY <1>1, InitService, PTL DEF Spec

\* The size of a set with at most one element.
LEMMA OneOrNone ==
  ASSUME NEW S, \A x, y \in S : x = y
  PROVE  Cardinality(S) = (IF S = {} THEN 0 ELSE 1)
<1>1. CASE S = {}
  BY <1>1, FS_EmptySet
<1>2. CASE S # {}
  <2>1. PICK x \in S : TRUE
    BY <1>2
  <2>2. S = {x}
    BY <2>1
  <2> QED
    BY <1>2, <2>2, FS_Singleton
<1> QED
  BY <1>1, <1>2

\* An index is in exactly one place - the pool, a call of enqueue, a cell, or the
\* answer of dequeue - as long as no dequeuer has had a torn view of a cell,
\* whatever else interleaves: no index is lost, stored twice or dequeued twice.
THEOREM IndexesAreConserved == Spec => []RingConserves
<1>1. ServiceInv => RingConserves
  <2> SUFFICES ASSUME ServiceInv, ~torn, NEW v \in Values
               PROVE  (IF v \in pool THEN 1 ELSE 0) + Cardinality(Enqueuers(v))
                        + Cardinality(Holders(v)) + Cardinality(CellsWith(v)) = 1
    BY DEF RingConserves, Conservation
  <2>1. Placed(v) /\ DOMAIN cell = 0..(N - 1)
    BY DEF ServiceInv, IInv, RingInv
  <2>2. /\ \A t \in Threads : Carries(t, v) <=> t \in Enqueuers(v) \/ t \in Holders(v)
        /\ Enqueuers(v) \subseteq Threads /\ Holders(v) \subseteq Threads
        /\ Enqueuers(v) \cap Holders(v) = {}
    BY DEF Carries, Enqueuers, Holders, EnqueuePcs
  <2>3. \A i : InCell(v, i) <=> i \in CellsWith(v)
    BY <2>1 DEF InCell, CellsWith
  <2>4. /\ \A x, y \in Enqueuers(v) : x = y
        /\ \A x, y \in Holders(v) : x = y
        /\ \A x, y \in CellsWith(v) : x = y
    BY <2>1, <2>2, <2>3 DEF Placed, OneCarrier, OneCell
  <2>5. /\ Cardinality(Enqueuers(v)) = (IF Enqueuers(v) = {} THEN 0 ELSE 1)
        /\ Cardinality(Holders(v)) = (IF Holders(v) = {} THEN 0 ELSE 1)
        /\ Cardinality(CellsWith(v)) = (IF CellsWith(v) = {} THEN 0 ELSE 1)
    BY <2>4, OneOrNone
  <2>6. Enqueuers(v) = {} \/ Holders(v) = {}
    <3> SUFFICES ASSUME NEW x \in Enqueuers(v), NEW y \in Holders(v) PROVE FALSE
      OBVIOUS
    <3>1. x = y
      BY <2>1, <2>2 DEF Placed, OneCarrier
    <3> QED
      BY <2>2, <3>1
  <2>7. (Enqueuers(v) # {} \/ Holders(v) # {}) <=> \E t \in Threads : Carries(t, v)
    BY <2>2
  <2>8. CellsWith(v) # {} <=> \E i : InCell(v, i)
    BY <2>3
  <2>9. CASE v \in pool
    BY <2>1, <2>5, <2>7, <2>8, <2>9 DEF Placed
  <2>10. CASE v \notin pool /\ \E t \in Threads : Carries(t, v)
    BY <2>1, <2>5, <2>6, <2>7, <2>8, <2>10 DEF Placed
  <2>11. CASE v \notin pool /\ ~ \E t \in Threads : Carries(t, v)
    BY <2>1, <2>5, <2>7, <2>8, <2>11 DEF Placed
  <2> QED
    BY <2>9, <2>10, <2>11
<1> QED
  BY <1>1, Service, PTL

\* A stored index whose ticket is drawn has exactly one dequeuer working on its
\* cell, with torn views too; and the plain store of dequeue hits the index the
\* dequeuer decided to take, as long as no view was torn.
THEOREM TicketsAreServedOnce == Spec => []TicketsAreExclusive
<1>1. ServiceInv => ClaimedIsTaken
  <2> SUFFICES ASSUME ServiceInv, NEW i \in DOMAIN cell, Committed(i), TicketOf(i) < head
               PROVE  Cardinality({t \in Threads : op[t].pc \in TicketPcs
                                     /\ op[t].ticket = TicketOf(i)}) = 1
    BY DEF ClaimedIsTaken
  <2>1. i \in 0..(N - 1) /\ Filling(i) /\ TicketInv /\ Typed
    BY Types DEF ServiceInv, IInv, RingInv, Committed, Filling
  <2>2. PICK T \in Nat : Cell(T) = i /\ cell[i].node = T + N
    BY <2>1 DEF TicketInv, FilledByTicket
  <2>3. TicketOf(i) = T
    BY <2>1, <2>2, NAssumption DEF TicketOf
  <2>4. Served(T)
    BY <2>1, <2>2, <2>3 DEF TicketInv, LeftIsDead, Dead
  <2>5. PICK t \in Threads : op[t].pc \in TicketPcs /\ op[t].ticket = T
    BY <2>4 DEF Served
  <2>6. {u \in Threads : op[u].pc \in TicketPcs /\ op[u].ticket = TicketOf(i)} = {t}
    BY <2>1, <2>3, <2>5 DEF TicketInv, TicketsAreDrawn
  <2> QED
    BY <2>6, FS_Singleton
<1>2. ServiceInv => (~torn => TakeIsExclusive)
  <2> SUFFICES ASSUME ServiceInv, ~torn, NEW t \in Threads, op[t].pc = "D_take"
               PROVE  cell[Pos(t)].value = op[t].value /\ TicketOf(Pos(t)) = op[t].ticket
    BY DEF TakeIsExclusive
  <2>1. TakesWhatItSaw /\ Typed /\ Pos(t) = Cell(op[t].ticket)
    BY Types DEF ServiceInv, IInv, Pos, Cell
  <2> QED
    BY <2>1, NAssumption DEF TakesWhatItSaw, Here, TicketOf, Typed
<1>3. ServiceInv => TicketsAreExclusive
  BY <1>1, <1>2 DEF TicketsAreExclusive
<1> QED
  BY <1>3, Service, PTL

\* If enqueue(a) ended before enqueue(b) began, no dequeue that begins after b
\* came out returns a: the answers follow the order of the calls, as long
\* as no dequeuer has had a torn view of a cell.
THEOREM FirstInFirstOut == Spec => []RingIsFifo
<1>1. ServiceInv => RingIsFifo
  BY DEF ServiceInv, OrderInv, Missed, RingIsFifo, FifoOrder
<1> QED
  BY <1>1, Service, PTL

\* dequeue answers "empty" only if at some time during the call every index in
\* the ring was promised to another dequeuer, with torn views too.
THEOREM EmptyWasSeen == Spec => []EmptyIsHonest
<1>1. ServiceInv => EmptyIsHonest
  BY DEF ServiceInv, SearchersSaw, EmptyIsHonest
<1> QED
  BY <1>1, Service, PTL
=============================================================================
