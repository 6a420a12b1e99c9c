---------------------------- MODULE ScalableRing ----------------------------
(***************************************************************************)
(* The other lock-free ring of storage indexes,                            *)
(* zisc/structure/scalable_circular_ring_buffer-inl.hpp (the SCQ           *)
(* algorithm), one action per access to shared memory.  A client starts    *)
(* calls with CallEnqueue and CallDequeue, lets RingStep(t) run, and takes *)
(* the answer with RingReturn.                                                 *)
(*                                                                         *)
(* A cell is one word: the low bits are an index (all ones: empty), the    *)
(* next bit says that the cell is safe, the rest is the cycle, the lap in  *)
(* which it was written.  The code compares words with the low bits set,   *)
(* that is, their cycles, as signed differences, so that invalidIndex()    *)
(* is in the lap before the first.  A cell is addressed by ticket % N; the *)
(* code's permuteIndex only renames cells (see Numbers).           *)
(***************************************************************************)
EXTENDS Integers, FiniteSets

CONSTANTS
  Threads,         \* the calling threads
  Half,            \* the capacity of the queue; the ring has twice the cells
  Invalid,         \* invalidIndex(): the answer "empty"
  Overflow,        \* overflowIndex(): the answer of a refused cautious dequeue
  UpdateInterval,  \* amask + 1: attempts between two loads of the tail
  AMax,            \* amax: attempts before a dequeuer spends its cell
  MaxTicket        \* bound on the tickets the model hands out

ASSUME HalfAssumption == Half \in Nat \ {0}
ASSUME BoundAssumption == /\ UpdateInterval \in Nat \ {0}
                          /\ AMax \in Nat
                          /\ MaxTicket \in Nat

VARIABLES
  ringHead,       \* the dequeue ticket counter
  ringTail,       \* the enqueue ticket counter
  threshold,  \* tickets the dequeuers may still waste before they see "empty"
  cell,       \* position -> the parts of its word
  op          \* thread -> the frame of its call

ringVars == <<ringHead, ringTail, threshold, cell, op>>

N == 2 * Half
Indexes == 0..(Half - 1)
Empty == N - 1
\* invalidIndex() and overflowIndex() are the two greatest words.
ASSUME AnswerAssumption == /\ Invalid \notin Indexes /\ Overflow \notin Indexes
                           /\ Invalid # Overflow
CellWord(cycle, safe, index) == [cycle |-> cycle, safe |-> safe, index |-> index]
Cycle(ticket) == ticket \div N
Threshold3 == 3 * Half - 1

\* A frame: the arguments, and the local variables of the loop.
Frame(pc, arg, nonempty) ==
  [pc |-> pc, arg |-> arg, nonempty |-> nonempty, ticket |-> 0,
   entry |-> CellWord(-1, TRUE, Empty), attempt |-> 0, tt |-> 0]
Idle == Frame("idle", Invalid, FALSE)
Answer(v) == Frame("D_done", v, FALSE)

Pos(t) == op[t].ticket % N
SetFrame(t, f) == op' = [op EXCEPT ![t] = f]
Goto(t, pc) == SetFrame(t, [op[t] EXCEPT !.pc = pc])
Store(t, w) == cell' = [cell EXCEPT ![Pos(t)] = w]

-----------------------------------------------------------------------------
(* clear() and full()                                                      *)

InitCleared ==
  /\ ringHead = 0 /\ ringTail = 0 /\ threshold = -1
  /\ cell = [i \in 0..(N - 1) |-> CellWord(-1, TRUE, Empty)]
  /\ op = [t \in Threads |-> Idle]

\* The indexes of a full ring lack the safe bit: permuteIndex masks it off.
InitFull ==
  /\ ringHead = 0 /\ ringTail = Half /\ threshold = Threshold3
  /\ cell = [i \in 0..(N - 1) |-> IF i < Half THEN CellWord(0, FALSE, i)
                                               ELSE CellWord(-1, TRUE, Empty)]
  /\ op = [t \in Threads |-> Idle]

-----------------------------------------------------------------------------
(* enqueue(index, nonempty)                                                *)

CallEnqueue(t, v, nonempty) ==
  /\ op[t] = Idle
  /\ SetFrame(t, Frame("E_ticket", v, nonempty))
  /\ UNCHANGED <<ringHead, ringTail, threshold, cell>>

EnqTicket(t) ==
  /\ op[t].pc = "E_ticket" /\ ringTail < MaxTicket
  /\ SetFrame(t, [op[t] EXCEPT !.pc = "E_load", !.ticket = ringTail])
  /\ ringTail' = ringTail + 1
  /\ UNCHANGED <<ringHead, threshold, cell>>

\* Where a loaded word leads: a cell without an index and of an earlier lap
\* can be used, if need be after a look at the head.
Judge(f) ==
  IF f.entry.cycle < Cycle(f.ticket) /\ f.entry.index = Empty
    THEN [f EXCEPT !.pc = IF f.entry.safe THEN "E_cas" ELSE "E_head"]
    ELSE Frame("E_ticket", f.arg, f.nonempty)

EnqLoad(t) ==
  /\ op[t].pc = "E_load"
  /\ SetFrame(t, Judge([op[t] EXCEPT !.entry = cell[Pos(t)]]))
  /\ UNCHANGED <<ringHead, ringTail, threshold, cell>>

\* MUTANT: an unsafe cell is used although its dequeuer may have passed.
EnqHeadUnchecked(t) ==
  /\ op[t].pc = "E_head"
  /\ Goto(t, "E_cas")
  /\ UNCHANGED <<ringHead, ringTail, threshold, cell>>

\* An unsafe cell may be used if no dequeuer had the ticket yet.
EnqHead(t) ==
  /\ op[t].pc = "E_head"
  /\ IF ringHead <= op[t].ticket
       THEN Goto(t, "E_cas")
       ELSE SetFrame(t, Frame("E_ticket", op[t].arg, op[t].nonempty))
  /\ UNCHANGED <<ringHead, ringTail, threshold, cell>>

EnqDone(f) == IF f.nonempty THEN "E_done" ELSE "E_threshold"

\* MUTANT: the word is stored, not compared and exchanged.
EnqCasStore(t) ==
  /\ op[t].pc = "E_cas"
  /\ Store(t, CellWord(Cycle(op[t].ticket), TRUE, op[t].arg))
  /\ Goto(t, EnqDone(op[t]))
  /\ UNCHANGED <<ringHead, ringTail, threshold>>

\* A compare and exchange that fails loads the word, for another judgement.
EnqCas(t) ==
  /\ op[t].pc = "E_cas"
  /\ IF cell[Pos(t)] = op[t].entry
       THEN /\ Store(t, CellWord(Cycle(op[t].ticket), TRUE, op[t].arg))
            /\ Goto(t, EnqDone(op[t]))
       ELSE /\ SetFrame(t, Judge([op[t] EXCEPT !.entry = cell[Pos(t)]]))
            /\ UNCHANGED cell
  /\ UNCHANGED <<ringHead, ringTail, threshold>>

EnqThreshold(t) ==
  /\ op[t].pc = "E_threshold"
  /\ Goto(t, IF threshold # Threshold3 THEN "E_raise" ELSE "E_done")
  /\ UNCHANGED <<ringHead, ringTail, threshold, cell>>

\* MUTANT: the threshold is raised to one lap of indexes.
EnqRaiseLess(t) ==
  /\ op[t].pc = "E_raise"
  /\ threshold' = Half - 1
  /\ Goto(t, "E_done")
  /\ UNCHANGED <<ringHead, ringTail, cell>>

EnqRaise(t) ==
  /\ op[t].pc = "E_raise"
  /\ threshold' = Threshold3
  /\ Goto(t, "E_done")
  /\ UNCHANGED <<ringHead, ringTail, cell>>

EnqueueStep(t) == EnqTicket(t) \/ EnqLoad(t) \/ EnqHead(t) \/ EnqCas(t)
                    \/ EnqThreshold(t) \/ EnqRaise(t)

-----------------------------------------------------------------------------
(* dequeue(nonempty)                                                       *)

CallDequeue(t, nonempty) ==
  /\ op[t] = Idle
  /\ SetFrame(t, Frame(IF nonempty THEN "D_size_tail" ELSE "D_threshold", Invalid, nonempty))
  /\ UNCHANGED <<ringHead, ringTail, threshold, cell>>

\* distance(tail, head) == 0, from two loads.
DeqSizeTail(t) ==
  /\ op[t].pc = "D_size_tail"
  /\ SetFrame(t, [op[t] EXCEPT !.pc = "D_size_head", !.tt = ringTail])
  /\ UNCHANGED <<ringHead, ringTail, threshold, cell>>

DeqSizeHead(t) ==
  /\ op[t].pc = "D_size_head"
  /\ SetFrame(t, IF ringHead < op[t].tt THEN Frame("D_ticket", Invalid, TRUE)
                                  ELSE Answer(Overflow))
  /\ UNCHANGED <<ringHead, ringTail, threshold, cell>>

DeqThreshold(t) ==
  /\ op[t].pc = "D_threshold"
  /\ SetFrame(t, IF 0 <= threshold THEN Frame("D_ticket", Invalid, FALSE)
                                 ELSE Answer(Invalid))
  /\ UNCHANGED <<ringHead, ringTail, threshold, cell>>

DeqTicket(t) ==
  /\ op[t].pc = "D_ticket" /\ ringHead < MaxTicket
  /\ SetFrame(t, [Frame("D_load", Invalid, op[t].nonempty) EXCEPT !.ticket = ringHead])
  /\ ringHead' = ringHead + 1
  /\ UNCHANGED <<ringTail, threshold, cell>>

\* The ticket is spent without an index: the next one, or a look at the tail.
Spent(f) == [Frame(IF f.nonempty THEN "D_ticket" ELSE "D_tail", Invalid, f.nonempty)
               EXCEPT !.ticket = f.ticket]

\* The word is to be replaced, unless its lap is not over.
Replace(f) ==
  IF f.entry.cycle < Cycle(f.ticket) THEN [f EXCEPT !.pc = "D_cas"] ELSE Spent(f)

\* An empty cell, once the tail is known: the enqueuer of the ticket is
\* waited for while there are attempts left.
Patience(f) ==
  LET g == [f EXCEPT !.attempt = @ + 1] IN
  IF g.attempt <= AMax /\ g.tt >= g.ticket + 1
    THEN [g EXCEPT !.pc = "D_load", !.entry = CellWord(-1, TRUE, Empty)]
    ELSE Replace(g)

\* MUTANT: an index of a later lap is taken as well.
SeenAnyLap(f) ==
  IF f.entry.cycle >= Cycle(f.ticket) /\ f.entry.index # Empty
    THEN [f EXCEPT !.pc = "D_take"]
  ELSE IF f.entry.index # Empty
    THEN IF f.entry.safe THEN Replace(f) ELSE Spent(f)
  ELSE IF f.attempt % UpdateInterval = 0
    THEN [f EXCEPT !.pc = "D_wait"]
    ELSE Patience(f)

\* Where a loaded word leads: taken, marked unsafe, or waited for.
Seen(f) ==
  IF f.entry.cycle = Cycle(f.ticket)
    THEN [f EXCEPT !.pc = "D_take"]
  ELSE IF f.entry.index # Empty
    THEN IF f.entry.safe THEN Replace(f) ELSE Spent(f)
  ELSE IF f.attempt % UpdateInterval = 0
    THEN [f EXCEPT !.pc = "D_wait"]
    ELSE Patience(f)

DeqLoad(t) ==
  /\ op[t].pc = "D_load"
  /\ SetFrame(t, Seen([op[t] EXCEPT !.entry = cell[Pos(t)]]))
  /\ UNCHANGED <<ringHead, ringTail, threshold, cell>>

DeqWait(t) ==
  /\ op[t].pc = "D_wait"
  /\ SetFrame(t, Patience([op[t] EXCEPT !.tt = ringTail]))
  /\ UNCHANGED <<ringHead, ringTail, threshold, cell>>

\* fetch_or(n - 1): the index bits are set, safe bit and lap stay.
DeqTake(t) ==
  /\ op[t].pc = "D_take"
  /\ cell' = [cell EXCEPT ![Pos(t)].index = Empty]
  /\ SetFrame(t, Answer(op[t].entry.index))
  /\ UNCHANGED <<ringHead, ringTail, threshold>>

\* An index of an earlier lap is marked unsafe; an empty cell gets the lap of
\* the ticket, so that its enqueuer cannot use it any more.
Replacement(f) == IF f.entry.index # Empty
                    THEN [f.entry EXCEPT !.safe = FALSE]
                    ELSE [f.entry EXCEPT !.cycle = Cycle(f.ticket)]

\* MUTANT: the replacement is stored, not compared and exchanged.
DeqCasStore(t) ==
  /\ op[t].pc = "D_cas"
  /\ Store(t, Replacement(op[t])) /\ SetFrame(t, Spent(op[t]))
  /\ UNCHANGED <<ringHead, ringTail, threshold>>

DeqCas(t) ==
  /\ op[t].pc = "D_cas"
  /\ IF cell[Pos(t)] = op[t].entry
       THEN Store(t, Replacement(op[t])) /\ SetFrame(t, Spent(op[t]))
       ELSE /\ SetFrame(t, Seen([op[t] EXCEPT !.entry = cell[Pos(t)]]))
            /\ UNCHANGED cell
  /\ UNCHANGED <<ringHead, ringTail, threshold>>

DeqTail(t) ==
  /\ op[t].pc = "D_tail"
  /\ SetFrame(t, [op[t] EXCEPT !.tt = ringTail,
                  !.pc = IF ringTail > op[t].ticket + 1 THEN "D_lower" ELSE "D_catch"])
  /\ UNCHANGED <<ringHead, ringTail, threshold, cell>>

\* The tickets are not used up: try again, but not for ever.
DeqLower(t) ==
  /\ op[t].pc = "D_lower"
  /\ threshold' = threshold - 1
  /\ SetFrame(t, IF 0 < threshold THEN Frame("D_ticket", Invalid, FALSE) ELSE Answer(Invalid))
  /\ UNCHANGED <<ringHead, ringTail, cell>>

\* catchUp(): raise a tail the dequeuers have overtaken.
DeqCatch(t) ==
  /\ op[t].pc = "D_catch"
  /\ IF ringTail = op[t].tt
       THEN ringTail' = op[t].ticket + 1 /\ Goto(t, "D_empty")
       ELSE UNCHANGED ringTail /\ Goto(t, "D_catch_tail")
  /\ UNCHANGED <<ringHead, threshold, cell>>

DeqCatchTail(t) ==
  /\ op[t].pc = "D_catch_tail"
  /\ SetFrame(t, [op[t] EXCEPT !.pc = "D_catch_head", !.tt = ringTail])
  /\ UNCHANGED <<ringHead, ringTail, threshold, cell>>

\* ticket + 1 is the tail to store: here the head itself.
DeqCatchHead(t) ==
  /\ op[t].pc = "D_catch_head"
  /\ SetFrame(t, [op[t] EXCEPT !.ticket = ringHead - 1,
                  !.pc = IF op[t].tt >= ringHead THEN "D_empty" ELSE "D_catch"])
  /\ UNCHANGED <<ringHead, ringTail, threshold, cell>>

DeqEmpty(t) ==
  /\ op[t].pc = "D_empty"
  /\ threshold' = threshold - 1
  /\ SetFrame(t, Answer(Invalid))
  /\ UNCHANGED <<ringHead, ringTail, cell>>

DequeueStep(t) ==
  \/ DeqSizeTail(t) \/ DeqSizeHead(t) \/ DeqThreshold(t) \/ DeqTicket(t)
  \/ DeqLoad(t) \/ DeqWait(t) \/ DeqTake(t) \/ DeqCas(t) \/ DeqTail(t)
  \/ DeqLower(t) \/ DeqCatch(t) \/ DeqCatchTail(t) \/ DeqCatchHead(t)
  \/ DeqEmpty(t)

RingStep(t) == EnqueueStep(t) \/ DequeueStep(t)

\* The caller takes the answer.
RingReturn(t) ==
  /\ op[t].pc \in {"E_done", "D_done"}
  /\ SetFrame(t, Idle)
  /\ UNCHANGED <<ringHead, ringTail, threshold, cell>>

-----------------------------------------------------------------------------
EnqueuePcs == {"E_ticket", "E_load", "E_head", "E_cas", "E_threshold", "E_raise"}
\* Points of dequeue at which the call is bound to its ticket's cell.
TicketPcs == {"D_load", "D_wait", "D_take", "D_cas"}
DequeuePcs == {"D_size_tail", "D_size_head", "D_threshold", "D_ticket", "D_tail",
               "D_lower", "D_catch", "D_catch_tail", "D_catch_head", "D_empty"}
                 \cup TicketPcs

Words == [cycle : -1..Cycle(MaxTicket), safe : BOOLEAN, index : Indexes \cup {Empty}]
RingTypeOK ==
  /\ ringHead \in 0..MaxTicket /\ ringTail \in 0..MaxTicket
  /\ threshold \in -(MaxTicket + 1)..Threshold3
  /\ cell \in [0..(N - 1) -> Words]
  /\ op \in [Threads ->
       [pc : {"idle", "E_done", "D_done"} \cup EnqueuePcs \cup DequeuePcs,
        arg : Indexes \cup {Invalid, Overflow}, nonempty : BOOLEAN,
        ticket : 0..MaxTicket, entry : Words,
        attempt : Nat, tt : 0..(2 * MaxTicket)]]
=============================================================================
