------------------------- MODULE ScalableRingProofs -------------------------
(* Theorems about ScalableRing under its client, for any size, any bound on  *)
(* the tickets and, but for the last one, any set of threads.  The lap of a  *)
(* cell never goes back; no index is lost or duplicated; a stored index      *)
(* whose ticket is drawn has exactly one dequeuer, and dequeue takes what it *)
(* saw; indexes come out in the order in which they went in; and, for at     *)
(* most N + 1 threads, dequeue answers "empty" only if nothing was on        *)
(* offer at some time during the call.                                       *)
(*                                                                           *)
(* Five invariants, each resting on the ones before: LapInv (a call that is  *)
(* about to exchange a word has seen it in an earlier lap than that of its   *)
(* ticket), TicketInv (who holds a ticket, and why a ticket that was left    *)
(* can no longer be used), Placed with OrderInv (where an index is, and      *)
(* before which tickets), GapInv (every ticket between head and tail has an  *)
(* index of its own, or was skipped for one) and EmptyInv (the threshold     *)
(* covers every index on offer).  Steps enter the arguments as outcomes,     *)
(* what a step does to the counters, the cell of its ticket and its frame.   *)
EXTENDS ScalableRingClient, TLAPS, FiniteSetTheorems

-----------------------------------------------------------------------------
(* Types, as weak as the argument allows, and the frames of calls that only  *)
(* exchange what is outdated.                                                *)

Args == Int \cup {Invalid, Overflow}
WordType == [cycle : Int, safe : BOOLEAN, index : Args]
Pcs == {"idle", "E_done", "D_done"} \cup EnqueuePcs \cup DequeuePcs
FrameType ==
  [pc : Pcs, arg : Args, nonempty : BOOLEAN,
   ticket : Int, entry : WordType, attempt : Int, tt : Int]
Outdated(f) ==
  f.pc \in {"E_head", "E_cas", "D_cas"} => f.entry.cycle < Cycle(f.ticket)
Frames == {f \in FrameType : Outdated(f)}
\* The points at which nothing is about to be exchanged.
Calm == Pcs \ {"E_head", "E_cas", "D_cas"}

LEMMA Sizes == /\ N \in Nat \ {0} /\ Empty \in Args /\ Indexes \subseteq Int
               /\ \A k \in Int : Cycle(k) \in Int /\ k % N \in 0..(N - 1)
BY HalfAssumption DEF N, Empty, Indexes, Cycle, Args

LEMMA Points ==
  /\ {"E_head", "E_cas", "D_cas"} \subseteq Pcs
  /\ \A pc \in {"idle", "E_ticket", "E_load", "E_threshold", "E_raise", "E_done",
                "D_size_tail", "D_size_head", "D_threshold", "D_ticket", "D_tail",
                "D_load", "D_wait", "D_take", "D_lower", "D_catch", "D_catch_tail",
                "D_catch_head", "D_empty", "D_done"} : pc \in Calm
BY DEF Pcs, Calm, EnqueuePcs, DequeuePcs, TicketPcs

LEMMA CalmFrame ==
  ASSUME NEW f \in FrameType, f.pc \in Calm
  PROVE  f \in Frames
BY DEF Frames, Outdated, Calm

LEMMA NewWord ==
  ASSUME NEW c \in Int, NEW s \in BOOLEAN, NEW i \in Args
  PROVE  CellWord(c, s, i) \in WordType /\ CellWord(c, s, i).cycle = c
BY DEF CellWord, WordType

LEMMA FreshFrame ==
  ASSUME NEW pc \in Calm, NEW a \in Args, NEW b \in BOOLEAN
  PROVE  Frame(pc, a, b) \in Frames
<1> DEFINE w == CellWord(-1, TRUE, Empty)
<1>1. w \in WordType
  BY Sizes DEF CellWord, WordType
<1> HIDE DEF w
<1>2. pc \in Pcs
  BY DEF Calm
<1>3. Frame(pc, a, b) \in FrameType /\ Frame(pc, a, b).pc = pc
  <2> DEFINE g == [pc |-> pc, arg |-> a, nonempty |-> b, ticket |-> 0, entry |-> w,
                   attempt |-> 0, tt |-> 0]
  <2>1. Frame(pc, a, b) = g
    BY DEF Frame, w
  <2>2. g \in FrameType /\ g.pc = pc
    BY <1>1, <1>2 DEF FrameType
  <2> QED
    BY <2>1, <2>2
<1> QED
  BY <1>3, CalmFrame

LEMMA To ==
  ASSUME NEW f \in FrameType, NEW pc \in Pcs
  PROVE  LET g == [f EXCEPT !.pc = pc]
         IN  g \in FrameType /\ g.pc = pc /\ g.entry = f.entry /\ g.ticket = f.ticket
BY DEF FrameType

LEMMA ToCalm ==
  ASSUME NEW f \in FrameType, NEW pc \in Calm
  PROVE  [f EXCEPT !.pc = pc] \in Frames
BY To, CalmFrame DEF Calm

LEMMA ToExchange ==
  ASSUME NEW f \in FrameType, NEW pc \in {"E_head", "E_cas", "D_cas"}, 
         f.entry.cycle < Cycle(f.ticket)
  PROVE  [f EXCEPT !.pc = pc] \in Frames
<1>1. pc \in Pcs 
  BY Points
<1> QED 
  BY <1>1, To DEF Frames, Outdated

\* What a loaded word leads to is again such a frame.
LEMMA JudgeOK ==
  ASSUME NEW f \in FrameType
  PROVE  Judge(f) \in Frames
<1>1. Frame("E_ticket", f.arg, f.nonempty) \in Frames
  BY FreshFrame, Points DEF FrameType
<1> QED
  BY <1>1, ToExchange DEF Judge

LEMMA SpentOK ==
  ASSUME NEW f \in FrameType
  PROVE  Spent(f) \in Frames
<1> DEFINE pc == IF f.nonempty THEN "D_ticket" ELSE "D_tail"
           g == Frame(pc, Invalid, f.nonempty)
           h == [g EXCEPT !.ticket = f.ticket]
<1>1. pc \in Calm /\ f.nonempty \in BOOLEAN /\ f.ticket \in Int /\ Invalid \in Args
  BY Points DEF FrameType, Args
<1>2. g \in FrameType /\ g.pc = pc
  <2>1. g \in Frames
    BY <1>1, FreshFrame
  <2> QED
    BY <2>1 DEF Frame, Frames
<1> HIDE DEF g, pc
<1>3. h \in FrameType /\ h.pc = pc
  BY <1>1, <1>2 DEF FrameType
<1> HIDE DEF h
<1>4. h \in Frames
  BY <1>1, <1>3, CalmFrame
<1> QED
  BY <1>4 DEF Spent, h, g, pc

LEMMA ReplaceOK ==
  ASSUME NEW f \in FrameType
  PROVE  Replace(f) \in Frames
BY SpentOK, ToExchange DEF Replace

LEMMA PatienceOK ==
  ASSUME NEW f \in FrameType
  PROVE  Patience(f) \in Frames
<1> DEFINE g == [f EXCEPT !.attempt = @ + 1]
           w == CellWord(-1, TRUE, Empty)
           h == [g EXCEPT !.pc = "D_load", !.entry = w]
<1>1. g \in FrameType
  BY DEF FrameType
<1>2. w \in WordType
  BY Sizes DEF CellWord, WordType
<1>3. "D_load" \in Calm /\ "D_load" \in Pcs
  BY Points DEF Calm
<1>4. Patience(f) = IF g.attempt <= AMax /\ g.tt >= g.ticket + 1 THEN h ELSE Replace(g)
  BY DEF Patience
<1> HIDE DEF g, w
<1>5. h \in FrameType /\ h.pc = "D_load"
  BY <1>1, <1>2, <1>3 DEF FrameType
<1> HIDE DEF h
<1>6. h \in Frames
  BY <1>3, <1>5, CalmFrame
<1> QED
  BY <1>1, <1>4, <1>6, ReplaceOK

LEMMA SeenOK ==
  ASSUME NEW f \in FrameType
  PROVE  Seen(f) \in Frames
<1>1. [f EXCEPT !.pc = "D_take"] \in Frames /\ [f EXCEPT !.pc = "D_wait"] \in Frames
  BY Points, ToCalm
<1> QED
  BY <1>1, ReplaceOK, SpentOK, PatienceOK DEF Seen

-----------------------------------------------------------------------------
(* The inductive invariant, and what a step of a thread does to it.          *)

LapInv ==
  /\ ringHead \in Int /\ ringTail \in Int
  /\ cell \in [0..(N - 1) -> WordType]
  /\ op \in [Threads -> Frames]
  /\ pool \subseteq Indexes /\ freeList \in BOOLEAN

LapsGrow == \A i \in DOMAIN cell : cell'[i].cycle >= cell[i].cycle

\* What a step of a call leaves behind.
StepOK == /\ ringHead' \in Int /\ ringTail' \in Int
          /\ cell' \in [0..(N - 1) -> WordType] /\ LapsGrow
          /\ op' \in [Threads -> Frames]

LEMMA FrameChanged ==
  ASSUME LapInv, NEW t \in Threads, NEW f \in Frames, SetFrame(t, f)
  PROVE  op' \in [Threads -> Frames]
BY DEF LapInv, SetFrame

LEMMA CellsKept ==
  ASSUME LapInv, UNCHANGED cell
  PROVE  cell' \in [0..(N - 1) -> WordType] /\ LapsGrow
BY DEF LapInv, LapsGrow, WordType

LEMMA WordStored ==
  ASSUME LapInv, NEW i \in 0..(N - 1), NEW w \in WordType, w.cycle >= cell[i].cycle,
         cell' = [cell EXCEPT ![i] = w]
  PROVE  cell' \in [0..(N - 1) -> WordType] /\ LapsGrow
BY DEF LapInv, LapsGrow, WordType

\* A call at one of its points, and the word it may load.
LEMMA AtCell ==
  ASSUME LapInv, NEW t \in Threads
  PROVE  /\ op[t] \in FrameType /\ Outdated(op[t])
         /\ op[t].nonempty \in BOOLEAN /\ op[t].arg \in Args
         /\ op[t].ticket \in Int /\ Cycle(op[t].ticket) \in Int
         /\ op[t].entry \in WordType /\ op[t].entry.cycle \in Int
         /\ Pos(t) \in 0..(N - 1) /\ cell[Pos(t)] \in WordType
         /\ [op[t] EXCEPT !.entry = cell[Pos(t)]] \in FrameType
<1>1. op[t] \in FrameType /\ Outdated(op[t])
  BY DEF LapInv, Frames
<1>2. /\ op[t].nonempty \in BOOLEAN /\ op[t].arg \in Args
      /\ op[t].ticket \in Int /\ op[t].entry \in WordType /\ op[t].entry.cycle \in Int
  BY <1>1 DEF FrameType, WordType
<1>3. Cycle(op[t].ticket) \in Int /\ Pos(t) \in 0..(N - 1)
  BY <1>2, Sizes DEF Pos
<1>4. cell[Pos(t)] \in WordType
  BY <1>3 DEF LapInv
<1>5. [op[t] EXCEPT !.entry = cell[Pos(t)]] \in FrameType
  BY <1>1, <1>4 DEF FrameType
<1> QED
  BY <1>1, <1>2, <1>3, <1>4, <1>5

LEMMA EnqueueOK ==
  ASSUME LapInv, NEW t \in Threads, EnqueueStep(t)
  PROVE  StepOK
<1> DEFINE f == op[t]
           loaded == [op[t] EXCEPT !.entry = cell[Pos(t)]]
           to(pc) == [op[t] EXCEPT !.pc = pc]
           again == Frame("E_ticket", op[t].arg, op[t].nonempty)
<1>1. ringHead \in Int /\ ringTail \in Int
  BY DEF LapInv
<1>2. again \in Frames
  BY AtCell, FreshFrame, Points
<1>3. to("E_threshold") \in Frames /\ to("E_raise") \in Frames /\ to("E_done") \in Frames
  BY AtCell, ToCalm, Points
<1>4. CASE EnqTicket(t)
  <2> DEFINE g == [op[t] EXCEPT !.pc = "E_load", !.ticket = ringTail]
  <2>1. g \in FrameType /\ g.pc = "E_load"
    BY <1>1, AtCell DEF FrameType, Pcs, EnqueuePcs
  <2>2. g \in Frames
    BY <2>1, CalmFrame, Points
  <2>3. SetFrame(t, g) /\ ringHead' \in Int /\ ringTail' \in Int /\ UNCHANGED cell
    BY <1>1, <1>4 DEF EnqTicket
  <2> QED
    BY <2>2, <2>3, FrameChanged, CellsKept DEF StepOK
<1>5. CASE EnqLoad(t)
  <2>1. Judge(loaded) \in Frames
    BY AtCell, JudgeOK
  <2>2. SetFrame(t, Judge(loaded)) /\ UNCHANGED <<ringHead, ringTail, cell>>
    BY <1>5 DEF EnqLoad
  <2> QED
    BY <1>1, <2>1, <2>2, FrameChanged, CellsKept DEF StepOK
<1>6. CASE EnqHead(t)
  <2>1. to("E_cas") \in Frames
    <3>1. f.entry.cycle < Cycle(f.ticket)
      BY <1>6, AtCell DEF EnqHead, Outdated
    <3> QED
      BY <3>1, AtCell, ToExchange
  <2>2. SetFrame(t, to("E_cas")) \/ SetFrame(t, again)
    BY <1>6 DEF EnqHead, Goto
  <2>3. UNCHANGED <<ringHead, ringTail, cell>>
    BY <1>6 DEF EnqHead
  <2> QED
    BY <1>1, <1>2, <2>1, <2>2, <2>3, FrameChanged, CellsKept DEF StepOK
<1>7. CASE EnqCas(t)
  <2>0. UNCHANGED <<ringHead, ringTail>> /\ f.entry.cycle < Cycle(f.ticket)
    BY <1>7, AtCell DEF EnqCas, Outdated
  <2>1. CASE cell[Pos(t)] = f.entry
    <3> DEFINE w == CellWord(Cycle(f.ticket), TRUE, f.arg)
    <3>1. w \in WordType /\ w.cycle = Cycle(f.ticket)
      BY AtCell, NewWord
    <3> HIDE DEF w
    <3>2. w.cycle >= cell[Pos(t)].cycle
      <4>1. f.entry.cycle \in Int /\ Cycle(f.ticket) \in Int
        BY AtCell
      <4> QED
        BY <2>0, <2>1, <3>1, <4>1
    <3>3. cell' = [cell EXCEPT ![Pos(t)] = w]
      BY <1>7, <2>1 DEF EnqCas, Store, w
    <3>4. SetFrame(t, to("E_done")) \/ SetFrame(t, to("E_threshold"))
      BY <1>7, <2>1 DEF EnqCas, Goto, EnqDone
    <3>5. cell' \in [0..(N - 1) -> WordType] /\ LapsGrow
      BY <3>1, <3>2, <3>3, AtCell, WordStored
    <3> QED
      BY <1>1, <1>3, <2>0, <3>4, <3>5, FrameChanged DEF StepOK
  <2>2. CASE cell[Pos(t)] # f.entry
    <3>1. Judge(loaded) \in Frames
      BY AtCell, JudgeOK
    <3>2. SetFrame(t, Judge(loaded)) /\ UNCHANGED cell
      BY <1>7, <2>2 DEF EnqCas
    <3> QED
      BY <1>1, <2>0, <3>1, <3>2, FrameChanged, CellsKept DEF StepOK
  <2> QED
    BY <2>1, <2>2
<1>8. CASE EnqThreshold(t) \/ EnqRaise(t)
  <2>1. SetFrame(t, to("E_raise")) \/ SetFrame(t, to("E_done"))
    BY <1>8 DEF EnqThreshold, EnqRaise, Goto
  <2>2. UNCHANGED <<ringHead, ringTail, cell>>
    BY <1>8 DEF EnqThreshold, EnqRaise
  <2> QED
    BY <1>1, <1>3, <2>1, <2>2, FrameChanged, CellsKept DEF StepOK
<1> QED
  BY <1>4, <1>5, <1>6, <1>7, <1>8 DEF EnqueueStep

LEMMA ReplacementOK ==
  ASSUME NEW f \in FrameType, f.entry.cycle < Cycle(f.ticket)
  PROVE  /\ Replacement(f) \in WordType
         /\ Replacement(f).cycle >= f.entry.cycle
<1>1. /\ f.entry \in WordType /\ f.entry.cycle \in Int
      /\ Cycle(f.ticket) \in Int
  BY Sizes DEF FrameType, WordType
<1> DEFINE e == f.entry
           c == Cycle(f.ticket)
<1>2. Replacement(f) = IF e.index # Empty THEN [e EXCEPT !.safe = FALSE]
                                          ELSE [e EXCEPT !.cycle = c]
  BY DEF Replacement
<1>3. e \in WordType /\ e.cycle \in Int /\ c \in Int /\ e.cycle < c
  BY <1>1
<1> HIDE DEF e, c
<1>4. /\ [e EXCEPT !.safe = FALSE] \in WordType /\ [e EXCEPT !.cycle = c] \in WordType
      /\ [e EXCEPT !.safe = FALSE].cycle = e.cycle /\ [e EXCEPT !.cycle = c].cycle = c
  BY <1>3 DEF WordType
<1>5. Replacement(f) \in WordType /\ Replacement(f).cycle >= e.cycle
  BY <1>2, <1>3, <1>4
<1> QED
  BY <1>5 DEF e

LEMMA DequeueOK ==
  ASSUME LapInv, NEW t \in Threads, DequeueStep(t)
  PROVE  StepOK
<1> DEFINE f == op[t]
           loaded == [op[t] EXCEPT !.entry = cell[Pos(t)]]
<1>1. ringHead \in Int /\ ringTail \in Int
  BY DEF LapInv
<1>2. \A a \in Args : Answer(a) \in Frames
  BY FreshFrame, Points DEF Answer
<1>3. /\ Answer(Invalid) \in Frames /\ Answer(Overflow) \in Frames
      /\ \A b \in BOOLEAN : Frame("D_ticket", Invalid, b) \in Frames
  BY <1>2, FreshFrame, Points DEF Args
<1>4. CASE DeqSizeTail(t) \/ DeqTail(t) \/ DeqCatchTail(t)
  <2>1. \A pc \in Calm : [op[t] EXCEPT !.pc = pc, !.tt = ringTail] \in Frames
    <3> TAKE pc \in Calm
    <3> DEFINE g == [op[t] EXCEPT !.pc = pc, !.tt = ringTail]
    <3>1. g \in FrameType /\ g.pc = pc
      BY <1>1, AtCell DEF FrameType, Calm
    <3> QED
      BY <3>1, CalmFrame
  <2>2. PICK pc \in Calm : SetFrame(t, [op[t] EXCEPT !.pc = pc, !.tt = ringTail])
    <3> DEFINE g(pc) == [op[t] EXCEPT !.pc = pc, !.tt = ringTail]
    <3>1. SetFrame(t, g("D_size_head")) \/ SetFrame(t, g("D_lower"))
            \/ SetFrame(t, g("D_catch")) \/ SetFrame(t, g("D_catch_head"))
      BY <1>4 DEF DeqSizeTail, DeqTail, DeqCatchTail, SetFrame
    <3> QED
      BY <3>1, Points
  <2>3. UNCHANGED <<ringHead, ringTail, cell>>
    BY <1>4 DEF DeqSizeTail, DeqTail, DeqCatchTail
  <2> QED
    BY <1>1, <2>1, <2>2, <2>3, FrameChanged, CellsKept DEF StepOK
<1>5. CASE DeqSizeHead(t) \/ DeqThreshold(t) \/ DeqLower(t) \/ DeqEmpty(t)
  <2>1. \/ SetFrame(t, Answer(Invalid)) \/ SetFrame(t, Answer(Overflow))
        \/ \E b \in BOOLEAN : SetFrame(t, Frame("D_ticket", Invalid, b))
    BY <1>5 DEF DeqSizeHead, DeqThreshold, DeqLower, DeqEmpty
  <2>2. UNCHANGED <<ringHead, ringTail, cell>>
    BY <1>5 DEF DeqSizeHead, DeqThreshold, DeqLower, DeqEmpty
  <2> QED
    BY <1>1, <1>3, <2>1, <2>2, FrameChanged, CellsKept DEF StepOK
<1>6. CASE DeqTicket(t)
  <2> DEFINE g == Frame("D_load", Invalid, op[t].nonempty)
             h == [g EXCEPT !.ticket = ringHead]
  <2>1. g \in Frames /\ g.pc = "D_load"
    <3>1. g \in Frames
      BY AtCell, FreshFrame, Points DEF Args
    <3> QED
      BY <3>1 DEF Frame
  <2>2. SetFrame(t, h) /\ ringHead' = ringHead + 1 /\ UNCHANGED <<ringTail, cell>>
    BY <1>6 DEF DeqTicket
  <2> HIDE DEF g
  <2>3. h \in FrameType /\ h.pc = "D_load"
    BY <1>1, <2>1 DEF FrameType, Frames
  <2>4. h \in Frames
    BY <2>3, CalmFrame, Points
  <2> QED
    BY <1>1, <2>2, <2>4, FrameChanged, CellsKept DEF StepOK
<1>7. CASE DeqLoad(t)
  <2>1. Seen(loaded) \in Frames
    BY AtCell, SeenOK
  <2>2. SetFrame(t, Seen(loaded)) /\ UNCHANGED <<ringHead, ringTail, cell>>
    BY <1>7 DEF DeqLoad
  <2> QED
    BY <1>1, <2>1, <2>2, FrameChanged, CellsKept DEF StepOK
<1>8. CASE DeqWait(t)
  <2> DEFINE g == [op[t] EXCEPT !.tt = ringTail]
  <2>1. g \in FrameType
    BY <1>1, AtCell DEF FrameType
  <2>2. Patience(g) \in Frames
    BY <2>1, PatienceOK
  <2>3. SetFrame(t, Patience(g)) /\ UNCHANGED <<ringHead, ringTail, cell>>
    BY <1>8 DEF DeqWait
  <2> QED
    BY <1>1, <2>2, <2>3, FrameChanged, CellsKept DEF StepOK
<1>9. CASE DeqTake(t)
  <2> DEFINE w == [cell[Pos(t)] EXCEPT !.index = Empty]
  <2>1. cell' = [cell EXCEPT ![Pos(t)] = w]
    BY <1>9 DEF DeqTake
  <2>2. cell[Pos(t)] \in WordType /\ Pos(t) \in 0..(N - 1)
    BY AtCell
  <2>3. w \in WordType /\ w.cycle >= cell[Pos(t)].cycle
    BY <2>2, Sizes DEF WordType
  <2> HIDE DEF w
  <2>4. cell' \in [0..(N - 1) -> WordType] /\ LapsGrow
    BY <2>1, <2>2, <2>3, WordStored
  <2>5. Answer(f.entry.index) \in Frames
    <3>1. f.entry.index \in Args
      BY AtCell DEF WordType
    <3> QED
      BY <3>1, <1>2
  <2>6. SetFrame(t, Answer(f.entry.index)) /\ UNCHANGED <<ringHead, ringTail>>
    BY <1>9 DEF DeqTake
  <2> QED
    BY <1>1, <2>4, <2>5, <2>6, FrameChanged DEF StepOK
<1>10. CASE DeqCas(t)
  <2>0. UNCHANGED <<ringHead, ringTail>> /\ f.entry.cycle < Cycle(f.ticket)
    BY <1>10, AtCell DEF DeqCas, Outdated
  <2>1. CASE cell[Pos(t)] = f.entry
    <3> DEFINE w == Replacement(f)
    <3>1. w \in WordType /\ w.cycle >= f.entry.cycle
      BY <2>0, AtCell, ReplacementOK
    <3>2. cell' = [cell EXCEPT ![Pos(t)] = w] /\ SetFrame(t, Spent(f))
      BY <1>10, <2>1 DEF DeqCas, Store
    <3> HIDE DEF w
    <3>3. cell' \in [0..(N - 1) -> WordType] /\ LapsGrow
      BY <2>1, <3>1, <3>2, AtCell, WordStored
    <3>4. Spent(f) \in Frames
      BY AtCell, SpentOK
    <3> QED
      BY <1>1, <2>0, <3>2, <3>3, <3>4, FrameChanged DEF StepOK
  <2>2. CASE cell[Pos(t)] # f.entry
    <3>1. Seen(loaded) \in Frames
      BY AtCell, SeenOK
    <3>2. SetFrame(t, Seen(loaded)) /\ UNCHANGED cell
      BY <1>10, <2>2 DEF DeqCas
    <3> QED
      BY <1>1, <2>0, <3>1, <3>2, FrameChanged, CellsKept DEF StepOK
  <2> QED
    BY <2>1, <2>2
<1>11. CASE DeqCatch(t)
  <2>1. /\ [op[t] EXCEPT !.pc = "D_empty"] \in Frames
        /\ [op[t] EXCEPT !.pc = "D_catch_tail"] \in Frames
    BY AtCell, ToCalm, Points
  <2>2. /\ \/ SetFrame(t, [op[t] EXCEPT !.pc = "D_empty"])
           \/ SetFrame(t, [op[t] EXCEPT !.pc = "D_catch_tail"])
        /\ ringTail' = op[t].ticket + 1 \/ ringTail' = ringTail
        /\ UNCHANGED <<ringHead, cell>>
    BY <1>11 DEF DeqCatch, Goto
  <2>3. ringTail' \in Int
    <3>1. op[t].ticket \in Int
      BY AtCell
    <3> QED
      BY <1>1, <2>2, <3>1
  <2> QED
    BY <1>1, <2>1, <2>2, <2>3, FrameChanged, CellsKept DEF StepOK
<1>12. CASE DeqCatchHead(t)
  <2>1. \A pc \in Calm : [op[t] EXCEPT !.ticket = ringHead - 1, !.pc = pc] \in Frames
    <3> TAKE pc \in Calm
    <3> DEFINE k == ringHead - 1
               g == [op[t] EXCEPT !.ticket = k, !.pc = pc]
    <3>0. k \in Int
      BY <1>1
    <3> HIDE DEF k
    <3>1. g \in FrameType /\ g.pc = pc
      BY <3>0, AtCell DEF FrameType, Calm
    <3> QED
      BY <3>1, CalmFrame DEF k
  <2>2. /\ \/ SetFrame(t, [op[t] EXCEPT !.ticket = ringHead - 1, !.pc = "D_empty"])
           \/ SetFrame(t, [op[t] EXCEPT !.ticket = ringHead - 1, !.pc = "D_catch"])
        /\ UNCHANGED <<ringHead, ringTail, cell>>
    BY <1>12 DEF DeqCatchHead
  <2> QED
    BY <1>1, <2>1, <2>2, FrameChanged, CellsKept, Points DEF StepOK
<1> QED
  BY <1>4, <1>5, <1>6, <1>7, <1>8, <1>9, <1>10, <1>11, <1>12 DEF DequeueStep

-----------------------------------------------------------------------------
LEMMA LapInvInit == clientInit => LapInv
<1> SUFFICES ASSUME clientInit PROVE LapInv
  OBVIOUS
<1>1. /\ ringHead \in Int /\ ringTail \in Int
      /\ pool \subseteq Indexes /\ freeList \in BOOLEAN
      /\ op = [t \in Threads |-> Idle]
  <2>1. InitFull \/ InitCleared
    BY DEF clientInit
  <2>2. ringHead = 0 /\ ringTail \in {0, Half} /\ op = [t \in Threads |-> Idle]
    BY <2>1 DEF InitFull, InitCleared
  <2>3. pool \subseteq Indexes /\ freeList \in BOOLEAN
    BY DEF clientInit
  <2> QED
    BY <2>2, <2>3, HalfAssumption
<1>2. op \in [Threads -> Frames]
  <2>1. Idle \in Frames
    BY FreshFrame, Points DEF Idle, Args
  <2> QED
    BY <1>1, <2>1
<1>3. cell \in [0..(N - 1) -> WordType]
  <2> DEFINE e == CellWord(-1, TRUE, Empty)
             w(i) == CellWord(0, FALSE, i)
  <2>1. e \in WordType /\ \A i \in Int : w(i) \in WordType
    BY Sizes DEF CellWord, WordType, Args
  <2>2. N - 1 \in Int
    BY Sizes
  <2>3. \/ cell = [i \in 0..(N - 1) |-> e]
        \/ cell = [i \in 0..(N - 1) |-> IF i < Half THEN w(i) ELSE e]
    BY DEF clientInit, InitFull, InitCleared
  <2> HIDE DEF e, w
  <2> QED
    BY <2>1, <2>2, <2>3
<1> QED
  BY <1>1, <1>2, <1>3 DEF LapInv

LEMMA LapInvNext == LapInv /\ clientNext => LapInv' /\ LapsGrow
<1> SUFFICES ASSUME LapInv, clientNext PROVE LapInv' /\ LapsGrow
  OBVIOUS
<1>1. PICK t \in Threads : ThreadStep(t)
  BY DEF clientNext
<1>2. /\ Idle \in Frames
      /\ \A pc \in {"D_size_tail", "D_threshold"}, b \in BOOLEAN :
           Frame(pc, Invalid, b) \in Frames
      /\ \A v \in Indexes, b \in BOOLEAN : Frame("E_ticket", v, b) \in Frames
  BY FreshFrame, Points, Sizes DEF Idle, Args
<1>3. CASE BeginEnqueue(t)
  <2>1. PICK v \in Indexes : SetFrame(t, Frame("E_ticket", v, freeList))
    BY <1>3 DEF BeginEnqueue, CallEnqueue, LapInv
  <2>2. /\ pool' \subseteq Indexes /\ freeList' \in BOOLEAN
        /\ UNCHANGED <<ringHead, ringTail, cell>>
    BY <1>3 DEF BeginEnqueue, CallEnqueue, LapInv, clientNext
  <2>3. Frame("E_ticket", v, freeList) \in Frames
    BY <1>2 DEF LapInv
  <2> QED
    BY <2>1, <2>2, <2>3, FrameChanged, CellsKept DEF LapInv
<1>4. CASE BeginDequeue(t)
  <2>1. \E pc \in {"D_size_tail", "D_threshold"} : SetFrame(t, Frame(pc, Invalid, freeList))
    BY <1>4 DEF BeginDequeue, CallDequeue
  <2>2. UNCHANGED <<ringHead, ringTail, cell, pool, freeList>>
    BY <1>4 DEF BeginDequeue, CallDequeue, clientNext
  <2> QED
    BY <1>2, <2>1, <2>2, FrameChanged, CellsKept DEF LapInv
<1>5. CASE EndEnqueue(t) \/ EndDequeue(t)
  <2>1. SetFrame(t, Idle) /\ UNCHANGED <<ringHead, ringTail, cell, freeList>>
    BY <1>5 DEF EndEnqueue, EndDequeue, RingReturn, clientNext
  <2>2. pool' \subseteq Indexes
    BY <1>5 DEF EndEnqueue, EndDequeue, LapInv
  <2> QED
    BY <1>2, <2>1, <2>2, FrameChanged, CellsKept DEF LapInv
<1>6. CASE Step(t)
  <2>1. StepOK
    BY <1>6, EnqueueOK, DequeueOK DEF Step, RingStep
  <2>2. UNCHANGED <<pool, freeList>>
    BY <1>6 DEF Step, clientNext
  <2> QED
    BY <2>1, <2>2 DEF StepOK, LapInv
<1> QED
  BY <1>1, <1>3, <1>4, <1>5, <1>6 DEF ThreadStep

\* LapNeverDecreases: the lap in the word of a cell never goes back, for any
\* number of threads, any size and any thresholds.  An enqueuer or a dequeuer
\* that exchanges a word saw it in an earlier lap than that of its ticket.
THEOREM LapsNeverDecrease == clientSpec => LapNeverDecreases
<1>1. LapInv /\ UNCHANGED clientVars => LapInv' /\ LapsGrow
  BY CellsKept DEF clientVars, LapInv
<1>2. LapInv /\ [clientNext]_clientVars => LapInv' /\ LapsGrow
  BY <1>1, LapInvNext
<1>3. LapInv /\ [clientNext]_clientVars
        => [\A i \in DOMAIN cell : cell'[i].cycle >= cell[i].cycle]_clientVars
  BY <1>2 DEF LapsGrow
<1> QED
  BY LapInvInit, <1>2, <1>3, PTL DEF clientSpec, LapNeverDecreases
-----------------------------------------------------------------------------
(* What a step can do, seen from its thread.  One disjunct per step or group *)
(* of steps.                                                                 *)

Cell(T) == T % N
Here(t) == cell[Cell(op[t].ticket)]
Lap(t) == Cycle(op[t].ticket)
\* A step that does not touch the counters and cells; the frame keeps its
\* ticket, or its ticket and the argument.
Quiet == UNCHANGED <<ringHead, ringTail, cell>>
KeepsTicket(t) == op'[t].ticket = op[t].ticket
KeepsCall(t) == KeepsTicket(t) /\ op'[t].arg = op[t].arg
Loads(t) == op'[t].entry = Here(t)
KeepsWord(t) == op'[t].entry = op[t].entry
\* The word of the ticket's cell gets another lap, safe bit or index.
Stores(t, c, s, v) ==
  /\ UNCHANGED <<ringHead, ringTail>>
  /\ \A i \in 0..(N - 1) :
       /\ i = Cell(op[t].ticket) =>
            cell'[i].cycle = c /\ cell'[i].safe = s /\ cell'[i].index = v
       /\ i # Cell(op[t].ticket) => cell'[i] = cell[i]

Enters(t) ==
  /\ op[t].pc \in {"idle", "E_done", "D_done"}
  /\ op'[t].pc \in {"idle", "E_ticket", "D_size_tail", "D_threshold"} /\ Quiet
  /\ op'[t].pc = "E_ticket" => op'[t].arg \in Indexes
Draws(t) ==
  /\ op[t].pc = "E_ticket" /\ op'[t].pc = "E_load" /\ op'[t].arg = op[t].arg
  /\ op'[t].ticket = ringTail /\ ringTail' = ringTail + 1 /\ UNCHANGED <<ringHead, cell>>
Judges(t) ==
  /\ op[t].pc \in {"E_load", "E_cas"}
  /\ op'[t].pc = (IF Here(t).safe THEN "E_cas" ELSE "E_head")
  /\ Loads(t) /\ Here(t).index = Empty /\ KeepsCall(t) /\ Quiet
Dares(t) ==
  /\ op[t].pc = "E_head" /\ op'[t].pc = "E_cas"
  /\ ringHead <= op[t].ticket /\ KeepsWord(t) /\ KeepsCall(t) /\ Quiet
Restarts(t) ==
  /\ op'[t].pc = "E_ticket" /\ op'[t].arg = op[t].arg /\ Quiet
  /\ \/ op[t].pc = "E_head" /\ op[t].ticket < ringHead
     \/ /\ op[t].pc \in {"E_load", "E_cas"}
        /\ Here(t).index # Empty \/ Lap(t) <= Here(t).cycle
Commits(t) ==
  /\ op[t].pc = "E_cas" /\ op'[t].pc \in {"E_threshold", "E_done"}
  /\ op'[t].arg = op[t].arg
  /\ Here(t) = op[t].entry /\ Stores(t, Lap(t), TRUE, op[t].arg)
Raises(t) ==
  /\ op[t].pc \in {"E_threshold", "E_raise"} /\ op'[t].pc \in {"E_raise", "E_done"} /\ Quiet
EnqueueOutcome(t) ==
  Draws(t) \/ Judges(t) \/ Dares(t) \/ Restarts(t) \/ Commits(t) \/ Raises(t)

Claims(t) ==
  /\ op[t].pc = "D_ticket" /\ op'[t].pc = "D_load"
  /\ op'[t].ticket = ringHead /\ ringHead' = ringHead + 1 /\ UNCHANGED <<ringTail, cell>>
Decides(t) ==
  /\ op[t].pc \in {"D_load", "D_cas"} /\ op'[t].pc = "D_take"
  /\ Loads(t) /\ Here(t).cycle = Lap(t) /\ KeepsTicket(t) /\ Quiet
Waits(t) ==
  /\ op[t].pc \in {"D_load", "D_cas"} /\ op'[t].pc = "D_wait"
  /\ Loads(t) /\ Here(t).cycle # Lap(t) /\ Here(t).index = Empty /\ KeepsTicket(t) /\ Quiet
Again(t) ==
  /\ op[t].pc \in {"D_load", "D_cas", "D_wait"} /\ op'[t].pc = "D_load"
  /\ KeepsTicket(t) /\ Quiet
Prepares(t) ==
  /\ \/ op[t].pc \in {"D_load", "D_cas"} /\ Loads(t)
     \/ op[t].pc = "D_wait" /\ KeepsWord(t)
  /\ op'[t].pc = "D_cas" /\ KeepsTicket(t) /\ Quiet
Passes(t) ==
  /\ op'[t].pc \in {"D_ticket", "D_tail"} /\ KeepsTicket(t) /\ Quiet
  /\ \/ /\ op[t].pc \in {"D_load", "D_cas"} /\ Here(t).cycle # Lap(t)
        /\ (Here(t).index # Empty /\ ~Here(t).safe) \/ Lap(t) <= Here(t).cycle
     \/ op[t].pc = "D_wait" /\ Lap(t) <= op[t].entry.cycle
Takes(t) ==
  /\ op[t].pc = "D_take" /\ op'[t].pc = "D_done" /\ op'[t].arg = op[t].entry.index
  /\ Stores(t, Here(t).cycle, Here(t).safe, Empty)
Replaces(t) ==
  /\ op[t].pc = "D_cas" /\ op'[t].pc \in {"D_ticket", "D_tail"} /\ KeepsTicket(t)
  /\ Here(t) = op[t].entry
  /\ \/ Here(t).index # Empty /\ Stores(t, Here(t).cycle, FALSE, Here(t).index)
     \/ Here(t).index = Empty /\ Stores(t, Lap(t), Here(t).safe, Empty)
FreePcs == DequeuePcs \ TicketPcs
Searches(t) ==
  /\ op[t].pc \in FreePcs /\ op'[t].pc \in FreePcs \cup {"D_done"}
  /\ op'[t].pc = "D_done" => op'[t].arg \in {Invalid, Overflow}
  /\ op'[t].pc = "D_catch" => op'[t].tt <= op'[t].ticket + 1
  /\ op'[t].pc \in {"D_tail", "D_lower", "D_catch"} =>
       (op[t].pc = "D_tail" /\ KeepsTicket(t)) \/ op'[t].ticket < ringHead
  /\ UNCHANGED <<ringHead, cell>>
  /\ \/ ringTail' = ringTail
     \/ op[t].pc = "D_catch" /\ ringTail = op[t].tt /\ ringTail' = op[t].ticket + 1
DequeueOutcome(t) ==
  \/ Claims(t) \/ Decides(t) \/ Waits(t) \/ Again(t) \/ Prepares(t) \/ Passes(t)
  \/ Takes(t) \/ Replaces(t) \/ Searches(t)

Outcome(t) ==
  /\ \A u \in Threads \ {t} : op'[u] = op[u]
  /\ Enters(t) \/ EnqueueOutcome(t) \/ DequeueOutcome(t)

\* The one frame that changes.
LEMMA Becomes ==
  ASSUME LapInv, NEW t \in Threads, NEW f, SetFrame(t, f)
  PROVE  op'[t] = f /\ \A u \in Threads \ {t} : op'[u] = op[u]
BY DEF SetFrame, LapInv

\* The one word that changes.
LEMMA WordChanges ==
  ASSUME LapInv, NEW t \in Threads, NEW w, cell' = [cell EXCEPT ![Pos(t)] = w],
         UNCHANGED <<ringHead, ringTail>>
  PROVE  Stores(t, w.cycle, w.safe, w.index)
<1>1. Pos(t) \in 0..(N - 1) /\ Pos(t) = Cell(op[t].ticket) /\ DOMAIN cell = 0..(N - 1)
  BY AtCell DEF Pos, Cell, LapInv
<1> QED
  BY <1>1 DEF Stores

\* A frame that only moves on.
LEMMA Fields ==
  ASSUME NEW f \in FrameType, NEW pc
  PROVE  LET g == [f EXCEPT !.pc = pc]
         IN  /\ g.pc = pc /\ g.arg = f.arg /\ g.ticket = f.ticket
             /\ g.entry = f.entry /\ g.tt = f.tt
BY DEF FrameType

\* A frame at its beginning.
LEMMA Begun ==
  \A pc, a, b : /\ Frame(pc, a, b).pc = pc /\ Frame(pc, a, b).arg = a
                /\ Frame(pc, a, b).ticket = 0
BY DEF Frame

\* The frame that has loaded a word.
LEMMA Loaded ==
  ASSUME NEW f \in FrameType, NEW w \in WordType
  PROVE  LET g == [f EXCEPT !.entry = w]
         IN  /\ g \in FrameType /\ g.pc = f.pc /\ g.arg = f.arg /\ g.ticket = f.ticket
             /\ g.entry = w /\ g.tt = f.tt
BY DEF FrameType

\* Where a word leads that an enqueuer has loaded.
LEMMA Judged ==
  ASSUME NEW f \in FrameType
  PROVE  LET g == Judge(f)
         IN  \/ /\ g.pc = "E_ticket" /\ g.arg = f.arg
                /\ f.entry.index # Empty \/ Cycle(f.ticket) <= f.entry.cycle
             \/ /\ g.pc = (IF f.entry.safe THEN "E_cas" ELSE "E_head")
                /\ g.entry = f.entry /\ g.arg = f.arg /\ g.ticket = f.ticket
                /\ f.entry.index = Empty
<1> DEFINE a == Frame("E_ticket", f.arg, f.nonempty)
           pc == IF f.entry.safe THEN "E_cas" ELSE "E_head"
           b == [f EXCEPT !.pc = pc]
<1>0. f.entry.cycle \in Int /\ Cycle(f.ticket) \in Int
  BY Sizes DEF FrameType, WordType
<1>1. \/ Judge(f) = a /\ (f.entry.index # Empty \/ Cycle(f.ticket) <= f.entry.cycle)
      \/ Judge(f) = b /\ f.entry.index = Empty
  BY <1>0 DEF Judge
<1>2. a.pc = "E_ticket" /\ a.arg = f.arg
  BY Begun
<1>3. b.pc = pc /\ b.entry = f.entry /\ b.arg = f.arg /\ b.ticket = f.ticket
  BY Fields
<1> HIDE DEF a, b
<1> QED
  BY <1>1, <1>2, <1>3

\* A spent ticket leads to the next one, or to a look at the tail.
LEMMA SpentLeaves ==
  ASSUME NEW f \in FrameType
  PROVE  Spent(f).pc \in {"D_ticket", "D_tail"} /\ Spent(f).ticket = f.ticket
<1> DEFINE pc == IF f.nonempty THEN "D_ticket" ELSE "D_tail"
           g == Frame(pc, Invalid, f.nonempty)
<1>1. DOMAIN g = {"pc", "arg", "nonempty", "ticket", "entry", "attempt", "tt"} /\ g.pc = pc
  BY DEF Frame
<1>2. Spent(f) = [g EXCEPT !.ticket = f.ticket]
  BY DEF Spent
<1> HIDE DEF g
<1> QED
  BY <1>1, <1>2

\* A dequeuer replaces the word of an earlier lap only.
LEMMA Replaced ==
  ASSUME NEW f \in FrameType
  PROVE  LET g == Replace(f)
         IN  /\ g.ticket = f.ticket
             /\ \/ g.pc = "D_cas" /\ g.entry = f.entry
                \/ g.pc \in {"D_ticket", "D_tail"} /\ Cycle(f.ticket) <= f.entry.cycle
<1>1. f.entry.cycle \in Int /\ Cycle(f.ticket) \in Int
  BY Sizes DEF FrameType, WordType
<1> DEFINE b == [f EXCEPT !.pc = "D_cas"]
<1>2. b.pc = "D_cas" /\ b.entry = f.entry /\ b.ticket = f.ticket
  BY Fields
<1>3. Replace(f) = IF f.entry.cycle < Cycle(f.ticket) THEN b ELSE Spent(f)
  BY DEF Replace
<1> HIDE DEF b
<1> QED
  BY <1>1, <1>2, <1>3, SpentLeaves

\* A dequeuer that waits for an enqueuer looks again, or gives up.
LEMMA Patient ==
  ASSUME NEW f \in FrameType
  PROVE  LET g == Patience(f)
         IN  /\ g.ticket = f.ticket
             /\ \/ g.pc = "D_load"
                \/ g.pc = "D_cas" /\ g.entry = f.entry
                \/ g.pc \in {"D_ticket", "D_tail"} /\ Cycle(f.ticket) <= f.entry.cycle
<1> DEFINE g == [f EXCEPT !.attempt = @ + 1]
           w == CellWord(-1, TRUE, Empty)
           h == [g EXCEPT !.pc = "D_load", !.entry = w]
<1>1. g \in FrameType /\ g.ticket = f.ticket /\ g.entry = f.entry
  BY DEF FrameType
<1>2. Patience(f) = h \/ Patience(f) = Replace(g)
  BY DEF Patience
<1> HIDE DEF g, w
<1>3. h.pc = "D_load" /\ h.ticket = f.ticket
  BY <1>1 DEF FrameType
<1> HIDE DEF h
<1> QED
  BY <1>1, <1>2, <1>3, Replaced

\* Where a word leads that a dequeuer has loaded.
LEMMA SeenLeads ==
  ASSUME NEW f \in FrameType
  PROVE  LET g == Seen(f)
         IN  /\ g.ticket = f.ticket
             /\ \/ g.pc = "D_take" /\ g.entry = f.entry /\ f.entry.cycle = Cycle(f.ticket)
                \/ /\ f.entry.cycle # Cycle(f.ticket)
                   /\ \/ g.pc = "D_wait" /\ g.entry = f.entry /\ f.entry.index = Empty
                      \/ g.pc = "D_load"
                      \/ g.pc = "D_cas" /\ g.entry = f.entry
                      \/ /\ g.pc \in {"D_ticket", "D_tail"}
                         /\ \/ f.entry.index # Empty /\ ~f.entry.safe
                            \/ Cycle(f.ticket) <= f.entry.cycle
<1> DEFINE a == [f EXCEPT !.pc = "D_take"]
           b == [f EXCEPT !.pc = "D_wait"]
<1>1. /\ a.pc = "D_take" /\ a.entry = f.entry /\ a.ticket = f.ticket
      /\ b.pc = "D_wait" /\ b.entry = f.entry /\ b.ticket = f.ticket
  BY Fields
<1>2. \/ Seen(f) = a /\ f.entry.cycle = Cycle(f.ticket)
      \/ /\ f.entry.cycle # Cycle(f.ticket)
         /\ \/ Seen(f) = Replace(f)
            \/ Seen(f) = Spent(f) /\ f.entry.index # Empty /\ ~f.entry.safe
            \/ Seen(f) = b /\ f.entry.index = Empty
            \/ Seen(f) = Patience(f)
  BY DEF Seen
<1> HIDE DEF a, b
<1>3. /\ Spent(f).pc \in {"D_ticket", "D_tail"} /\ Spent(f).ticket = f.ticket
  BY SpentLeaves
<1>4. CASE Seen(f) = Replace(f) /\ f.entry.cycle # Cycle(f.ticket)
  BY <1>4, Replaced
<1>5. CASE Seen(f) = Patience(f) /\ f.entry.cycle # Cycle(f.ticket)
  BY <1>5, Patient
<1> QED
  BY <1>1, <1>2, <1>3, <1>4, <1>5

\* Every step of enqueue is one of the outcomes,
LEMMA EnqueueOutcomes ==
  ASSUME LapInv, NEW t \in Threads, EnqueueStep(t)
  PROVE  EnqueueOutcome(t)
<1> DEFINE loaded == [op[t] EXCEPT !.entry = cell[Pos(t)]]
           to(pc) == [op[t] EXCEPT !.pc = pc]
           again == Frame("E_ticket", op[t].arg, op[t].nonempty)
<1>0. /\ op[t] \in FrameType /\ cell[Pos(t)] \in WordType /\ Here(t) = cell[Pos(t)]
      /\ \A f : SetFrame(t, f) => op'[t] = f
  BY AtCell, Becomes DEF Here, Cell, Pos
<1>1. \A pc : to(pc).pc = pc /\ to(pc).arg = op[t].arg /\ to(pc).ticket = op[t].ticket
              /\ to(pc).entry = op[t].entry
  BY <1>0, Fields
<1>2. again.pc = "E_ticket" /\ again.arg = op[t].arg
  BY Begun
<1>3. /\ loaded \in FrameType /\ loaded.arg = op[t].arg /\ loaded.ticket = op[t].ticket
      /\ loaded.entry = Here(t)
  BY <1>0, Loaded
<1> HIDE DEF to, again, loaded
<1>4. ASSUME SetFrame(t, Judge(loaded)), UNCHANGED <<ringHead, ringTail, cell>>,
             op[t].pc \in {"E_load", "E_cas"}
      PROVE  Judges(t) \/ Restarts(t)
  <2>1. op'[t] = Judge(loaded)
    BY <1>0, <1>4
  <2>2. CASE /\ op'[t].pc = "E_ticket" /\ op'[t].arg = loaded.arg
             /\ loaded.entry.index # Empty \/ Cycle(loaded.ticket) <= loaded.entry.cycle
    BY <1>3, <1>4, <2>2 DEF Restarts, Quiet, Lap
  <2>3. CASE /\ op'[t].pc = (IF loaded.entry.safe THEN "E_cas" ELSE "E_head")
             /\ op'[t].entry = loaded.entry /\ op'[t].arg = loaded.arg
             /\ op'[t].ticket = loaded.ticket /\ loaded.entry.index = Empty
    BY <1>3, <1>4, <2>3 DEF Judges, Loads, KeepsCall, KeepsTicket, Quiet
  <2> QED
    BY <1>3, <2>1, <2>2, <2>3, Judged
<1>5. CASE EnqTicket(t)
  <2> DEFINE g == [op[t] EXCEPT !.pc = "E_load", !.ticket = ringTail]
  <2>1. g.pc = "E_load" /\ g.ticket = ringTail /\ g.arg = op[t].arg
    BY <1>0 DEF FrameType
  <2>2. SetFrame(t, g) /\ op[t].pc = "E_ticket" /\ ringTail' = ringTail + 1
        /\ UNCHANGED <<ringHead, cell>>
    BY <1>5 DEF EnqTicket
  <2> HIDE DEF g
  <2>3. op'[t] = g
    BY <1>0, <2>2
  <2> QED
    BY <2>1, <2>2, <2>3 DEF EnqueueOutcome, Draws
<1>6. CASE EnqLoad(t)
  BY <1>4, <1>6 DEF EnqLoad, loaded, EnqueueOutcome
<1>7. CASE EnqHead(t)
  <2>0. ringHead \in Int /\ op[t].ticket \in Int
    BY AtCell DEF LapInv
  <2>1. /\ op[t].pc = "E_head" /\ UNCHANGED <<ringHead, ringTail, cell>>
        /\ \/ SetFrame(t, to("E_cas")) /\ ringHead <= op[t].ticket
           \/ SetFrame(t, again) /\ op[t].ticket < ringHead
    BY <1>7, <2>0 DEF EnqHead, Goto, to, again
  <2>2. \/ op'[t] = to("E_cas") /\ ringHead <= op[t].ticket
        \/ op'[t] = again /\ op[t].ticket < ringHead
    BY <1>0, <2>1
  <2> QED
    BY <1>1, <1>2, <2>1, <2>2
       DEF EnqueueOutcome, Dares, Restarts, KeepsWord, KeepsCall, KeepsTicket, Quiet
<1>8. CASE EnqCas(t)
  <2>1. CASE cell[Pos(t)] = op[t].entry
    <3> DEFINE w == CellWord(Lap(t), TRUE, op[t].arg)
    <3>1. /\ cell' = [cell EXCEPT ![Pos(t)] = w] /\ UNCHANGED <<ringHead, ringTail>>
          /\ op[t].pc = "E_cas" 
          /\ SetFrame(t, to("E_threshold")) \/ SetFrame(t, to("E_done"))
      BY <1>8, <2>1 DEF EnqCas, Goto, EnqDone, Store, Lap, to
    <3>2. w.cycle = Lap(t) /\ w.safe = TRUE /\ w.index = op[t].arg
      BY DEF CellWord
    <3> HIDE DEF w
    <3>3. Stores(t, Lap(t), TRUE, op[t].arg)
      BY <3>1, <3>2, WordChanges
    <3>4. op'[t] = to("E_threshold") \/ op'[t] = to("E_done")
      BY <1>0, <3>1
    <3> QED
      BY <1>0, <1>1, <2>1, <3>1, <3>3, <3>4 DEF EnqueueOutcome, Commits
  <2>2. CASE cell[Pos(t)] # op[t].entry
    BY <1>4, <1>8, <2>2 DEF EnqCas, loaded, EnqueueOutcome
  <2> QED
    BY <2>1, <2>2
<1>9. CASE EnqThreshold(t) \/ EnqRaise(t)
  <2>1. /\ op[t].pc \in {"E_threshold", "E_raise"} /\ UNCHANGED <<ringHead, ringTail, cell>>
        /\ SetFrame(t, to("E_raise")) \/ SetFrame(t, to("E_done"))
    BY <1>9 DEF EnqThreshold, EnqRaise, Goto, to
  <2>2. op'[t] = to("E_raise") \/ op'[t] = to("E_done")
    BY <1>0, <2>1
  <2> QED
    BY <1>1, <2>1, <2>2 DEF EnqueueOutcome, Raises, Quiet
<1> QED
  BY <1>5, <1>6, <1>7, <1>8, <1>9 DEF EnqueueStep

\* A dequeuer that has loaded a word.
LEMMA LoadOutcomes ==
  ASSUME LapInv, NEW t \in Threads, op[t].pc \in {"D_load", "D_cas"},
         SetFrame(t, Seen([op[t] EXCEPT !.entry = cell[Pos(t)]])),
         UNCHANGED <<ringHead, ringTail, cell>>
  PROVE  Decides(t) \/ Waits(t) \/ Again(t) \/ Prepares(t) \/ Passes(t)
<1> DEFINE f == [op[t] EXCEPT !.entry = cell[Pos(t)]]
           g == Seen(f)
<1>0. /\ op[t] \in FrameType /\ cell[Pos(t)] \in WordType /\ Here(t) = cell[Pos(t)]
      /\ op'[t] = g
  BY AtCell, Becomes DEF Here, Cell, Pos
<1>1. f \in FrameType /\ f.ticket = op[t].ticket /\ f.entry = Here(t)
  BY <1>0, Loaded
<1>2. /\ g.ticket = f.ticket
      /\ \/ g.pc = "D_take" /\ g.entry = f.entry /\ f.entry.cycle = Cycle(f.ticket)
         \/ /\ f.entry.cycle # Cycle(f.ticket)
            /\ \/ g.pc = "D_wait" /\ g.entry = f.entry /\ f.entry.index = Empty
               \/ g.pc = "D_load"
               \/ g.pc = "D_cas" /\ g.entry = f.entry
               \/ /\ g.pc \in {"D_ticket", "D_tail"}
                  /\ \/ f.entry.index # Empty /\ ~f.entry.safe
                     \/ Cycle(f.ticket) <= f.entry.cycle
  BY <1>1, SeenLeads
<1> HIDE DEF f, g
<1> QED
  BY <1>0, <1>1, <1>2 DEF Decides, Waits, Again, Prepares, Passes, Loads, KeepsTicket,
     Quiet, Lap

\* The steps of dequeue that are not bound to a ticket only move the tail.
LEMMA SearchOutcomes ==
  ASSUME LapInv, NEW t \in Threads,
         \/ DeqSizeTail(t) \/ DeqSizeHead(t) \/ DeqThreshold(t) \/ DeqTail(t) \/ DeqLower(t)
         \/ DeqCatch(t) \/ DeqCatchTail(t) \/ DeqCatchHead(t) \/ DeqEmpty(t)
  PROVE  Searches(t)
<1>0. /\ op[t] \in FrameType /\ ringHead \in Int /\ ringTail \in Int
      /\ \A f : SetFrame(t, f) => op'[t] = f
  BY AtCell, Becomes DEF LapInv
<1>2. CASE DeqSizeTail(t) \/ DeqTail(t) \/ DeqCatchTail(t)
  <2> DEFINE g(pc) == [op[t] EXCEPT !.pc = pc, !.tt = ringTail]
  <2>1. op[t].ticket \in Int
    BY <1>0 DEF FrameType
  <2>2. \/ SetFrame(t, g("D_size_head")) \/ (SetFrame(t, g("D_lower")) /\ op[t].pc = "D_tail")
        \/ /\ SetFrame(t, g("D_catch")) /\ ~(ringTail > op[t].ticket + 1)
           /\ op[t].pc = "D_tail"
        \/ SetFrame(t, g("D_catch_head"))
    BY <1>2 DEF DeqSizeTail, DeqTail, DeqCatchTail, SetFrame
  <2>3. ~(ringTail > op[t].ticket + 1) => ringTail <= op[t].ticket + 1
    BY <1>0, <2>1
  <2>4. op[t].pc \in {"D_size_tail", "D_tail", "D_catch_tail"}
        /\ UNCHANGED <<ringHead, ringTail, cell>>
    BY <1>2 DEF DeqSizeTail, DeqTail, DeqCatchTail
  <2>5. \A pc : g(pc).pc = pc /\ g(pc).ticket = op[t].ticket /\ g(pc).tt = ringTail
    BY <1>0 DEF FrameType
  <2> HIDE DEF g
  <2>6. \/ op'[t] = g("D_size_head") \/ (op'[t] = g("D_lower") /\ op[t].pc = "D_tail")
        \/ /\ op'[t] = g("D_catch") /\ ~(ringTail > op[t].ticket + 1)
           /\ op[t].pc = "D_tail"
        \/ op'[t] = g("D_catch_head")
    BY <1>0, <2>2
  <2> QED
    BY <2>3, <2>4, <2>5, <2>6 DEF Searches, KeepsTicket, FreePcs, DequeuePcs, TicketPcs
<1>3. CASE DeqSizeHead(t) \/ DeqThreshold(t) \/ DeqLower(t) \/ DeqEmpty(t)
  <2>1. \E pc \in {"D_ticket", "D_done"}, a \in {Invalid, Overflow}, b \in BOOLEAN :
          SetFrame(t, Frame(pc, a, b))
    BY <1>3 DEF DeqSizeHead, DeqThreshold, DeqLower, DeqEmpty, Answer
  <2>2. op'[t].pc \in {"D_ticket", "D_done"} /\ op'[t].arg \in {Invalid, Overflow}
    BY <1>0, <2>1, Begun
  <2>3. op[t].pc \in {"D_size_head", "D_threshold", "D_lower", "D_empty"}
        /\ UNCHANGED <<ringHead, ringTail, cell>>
    BY <1>3 DEF DeqSizeHead, DeqThreshold, DeqLower, DeqEmpty
  <2> QED
    BY <2>2, <2>3 DEF Searches, FreePcs, DequeuePcs, TicketPcs
<1>4. CASE DeqCatch(t)
  <2>1. \/ /\ SetFrame(t, [op[t] EXCEPT !.pc = "D_empty"])
           /\ ringTail' = op[t].ticket + 1 /\ ringTail = op[t].tt
        \/ SetFrame(t, [op[t] EXCEPT !.pc = "D_catch_tail"]) /\ ringTail' = ringTail
    BY <1>4 DEF DeqCatch, Goto
  <2>2. /\ [op[t] EXCEPT !.pc = "D_empty"].pc = "D_empty"
        /\ [op[t] EXCEPT !.pc = "D_catch_tail"].pc = "D_catch_tail"
    BY <1>0, Fields
  <2>3. \/ op'[t].pc = "D_empty" /\ ringTail' = op[t].ticket + 1 /\ ringTail = op[t].tt
        \/ op'[t].pc = "D_catch_tail" /\ ringTail' = ringTail
    <3> DEFINE g == [op[t] EXCEPT !.pc = "D_empty"]
               h == [op[t] EXCEPT !.pc = "D_catch_tail"]
    <3>1. \/ SetFrame(t, g) /\ ringTail' = op[t].ticket + 1 /\ ringTail = op[t].tt
          \/ SetFrame(t, h) /\ ringTail' = ringTail
      BY <2>1
    <3>2. g.pc = "D_empty" /\ h.pc = "D_catch_tail"
      BY <2>2
    <3> HIDE DEF g, h
    <3> QED
      BY <1>0, <3>1, <3>2
  <2>4. op[t].pc = "D_catch" /\ UNCHANGED <<ringHead, cell>>
    BY <1>4 DEF DeqCatch
  <2> QED
    BY <2>3, <2>4 DEF Searches, FreePcs, DequeuePcs, TicketPcs
<1>5. CASE DeqCatchHead(t)
  <2> DEFINE k == ringHead - 1
             g(pc) == [op[t] EXCEPT !.ticket = k, !.pc = pc]
  <2>1. \/ SetFrame(t, g("D_empty"))
        \/ SetFrame(t, g("D_catch")) /\ ~(op[t].tt >= ringHead)
    BY <1>5 DEF DeqCatchHead
  <2>2. op[t].pc = "D_catch_head" /\ UNCHANGED <<ringHead, ringTail, cell>>
    BY <1>5 DEF DeqCatchHead
  <2>3. k \in Int /\ k + 1 = ringHead /\ op[t].tt \in Int
    BY <1>0 DEF FrameType
  <2> HIDE DEF k
  <2>4. \A pc : g(pc).pc = pc /\ g(pc).ticket = k /\ g(pc).tt = op[t].tt
    BY <1>0 DEF FrameType
  <2> HIDE DEF g
  <2>5. \/ op'[t] = g("D_empty")
        \/ op'[t] = g("D_catch") /\ ~(op[t].tt >= ringHead)
    BY <1>0, <2>1
  <2>6. (~(op[t].tt >= ringHead) => op[t].tt <= k + 1) /\ k < ringHead
    BY <1>0, <2>3
  <2> QED
    BY <2>2, <2>4, <2>5, <2>6 DEF Searches, FreePcs, DequeuePcs, TicketPcs
<1> QED
  BY <1>2, <1>3, <1>4, <1>5

\* and so is every step of dequeue.
LEMMA DequeueOutcomes ==
  ASSUME LapInv, NEW t \in Threads, DequeueStep(t)
  PROVE  DequeueOutcome(t)
<1>0. /\ op[t] \in FrameType /\ cell[Pos(t)] \in WordType /\ Here(t) = cell[Pos(t)]
      /\ Outdated(op[t]) /\ ringHead \in Int /\ ringTail \in Int
      /\ \A f : SetFrame(t, f) => op'[t] = f
  BY AtCell, Becomes DEF Here, Cell, Pos, LapInv
<1>1. CASE DeqTicket(t)
  <2> DEFINE g == Frame("D_load", Invalid, op[t].nonempty)
             h == [g EXCEPT !.ticket = ringHead]
  <2>1. h.pc = "D_load" /\ h.ticket = ringHead
    BY DEF Frame
  <2>2. SetFrame(t, h) /\ op[t].pc = "D_ticket" /\ ringHead' = ringHead + 1
        /\ UNCHANGED <<ringTail, cell>>
    BY <1>1 DEF DeqTicket
  <2> HIDE DEF h
  <2> QED
    BY <1>0, <2>1, <2>2 DEF DequeueOutcome, Claims
<1>2. CASE DeqLoad(t)
  BY <1>2, LoadOutcomes DEF DeqLoad, DequeueOutcome
<1>3. CASE DeqWait(t)
  <2> DEFINE f == [op[t] EXCEPT !.tt = ringTail]
             g == Patience(f)
  <2>1. f \in FrameType /\ f.ticket = op[t].ticket /\ f.entry = op[t].entry
    BY <1>0 DEF FrameType
  <2>2. SetFrame(t, g) /\ op[t].pc = "D_wait" /\ UNCHANGED <<ringHead, ringTail, cell>>
    BY <1>3 DEF DeqWait
  <2> HIDE DEF f
  <2>3. /\ g.ticket = f.ticket
        /\ \/ g.pc = "D_load"
           \/ g.pc = "D_cas" /\ g.entry = f.entry
           \/ g.pc \in {"D_ticket", "D_tail"} /\ Cycle(f.ticket) <= f.entry.cycle
    BY <2>1, Patient
  <2> HIDE DEF g
  <2>4. op'[t] = g
    BY <1>0, <2>2
  <2> QED
    BY <2>1, <2>2, <2>3, <2>4
       DEF DequeueOutcome, Again, Prepares, Passes, KeepsWord, KeepsTicket, Quiet, Lap
<1>4. CASE DeqTake(t)
  <2> DEFINE w == [cell[Pos(t)] EXCEPT !.index = Empty]
             a == op[t].entry.index
             g == Answer(a)
  <2>1. /\ cell' = [cell EXCEPT ![Pos(t)] = w] /\ SetFrame(t, g)
        /\ op[t].pc = "D_take" /\ UNCHANGED <<ringHead, ringTail>>
    BY <1>4 DEF DeqTake
  <2>2. w.cycle = Here(t).cycle /\ w.safe = Here(t).safe /\ w.index = Empty
    BY <1>0 DEF WordType
  <2>3. g.pc = "D_done" /\ g.arg = a
    BY DEF Answer, Frame
  <2> HIDE DEF w, g
  <2>4. Stores(t, Here(t).cycle, Here(t).safe, Empty)
    BY <2>1, <2>2, WordChanges
  <2>5. op'[t] = g
    BY <1>0, <2>1
  <2> QED
    BY <2>1, <2>3, <2>4, <2>5 DEF DequeueOutcome, Takes
<1>5. CASE DeqCas(t)
  <2>1. CASE cell[Pos(t)] = op[t].entry
    <3> DEFINE e == op[t].entry
               a == [e EXCEPT !.safe = FALSE]
               k == Lap(t)
               b == [e EXCEPT !.cycle = k]
    <3>1. /\ \/ cell' = [cell EXCEPT ![Pos(t)] = a] /\ e.index # Empty
             \/ cell' = [cell EXCEPT ![Pos(t)] = b] /\ e.index = Empty
          /\ SetFrame(t, Spent(op[t])) /\ op[t].pc = "D_cas" /\ UNCHANGED <<ringHead, ringTail>>
      BY <1>5, <2>1 DEF DeqCas, Store, Replacement, Lap
    <3>2. /\ a.cycle = e.cycle /\ a.safe = FALSE /\ a.index = e.index
          /\ b.cycle = k /\ b.safe = e.safe /\ b.index = e.index
      BY <1>0, <2>1 DEF WordType
    <3>3. e = Here(t)
      BY <1>0, <2>1
    <3> HIDE DEF a, b, e
    <3>4. \/ Here(t).index # Empty /\ Stores(t, Here(t).cycle, FALSE, Here(t).index)
          \/ Here(t).index = Empty /\ Stores(t, Lap(t), Here(t).safe, Empty)
      <4>1. CASE cell' = [cell EXCEPT ![Pos(t)] = a] /\ e.index # Empty
        <5>1. Stores(t, a.cycle, a.safe, a.index)
          BY <3>1, <4>1, WordChanges
        <5> QED
          BY <3>2, <3>3, <4>1, <5>1
      <4>2. CASE cell' = [cell EXCEPT ![Pos(t)] = b] /\ e.index = Empty
        <5>1. Stores(t, b.cycle, b.safe, b.index)
          BY <3>1, <4>2, WordChanges
        <5> QED
          BY <3>2, <3>3, <4>2, <5>1
      <4> QED
        BY <3>1, <4>1, <4>2
    <3>5. op'[t] = Spent(op[t])
      BY <1>0, <3>1
    <3>6. op'[t].pc \in {"D_ticket", "D_tail"} /\ op'[t].ticket = op[t].ticket
      BY <1>0, <3>5, SpentLeaves
    <3> QED
      BY <3>1, <3>3, <3>4, <3>6 DEF DequeueOutcome, Replaces, KeepsTicket, e
  <2>2. CASE cell[Pos(t)] # op[t].entry
    <3>1. /\ SetFrame(t, Seen([op[t] EXCEPT !.entry = cell[Pos(t)]]))
          /\ op[t].pc = "D_cas" /\ UNCHANGED <<ringHead, ringTail, cell>>
      BY <1>5, <2>2 DEF DeqCas
    <3> QED
      BY <3>1, LoadOutcomes DEF DequeueOutcome
  <2> QED
    BY <2>1, <2>2
<1> QED
  BY <1>1, <1>2, <1>3, <1>4, <1>5, SearchOutcomes DEF DequeueStep, DequeueOutcome

\* What the calls and returns do.
LEMMA StepOutcome ==
  ASSUME LapInv, NEW t \in Threads, ThreadStep(t)
  PROVE  Outcome(t)
<1>0. \A f : SetFrame(t, f) => op'[t] = f
  BY Becomes
<1>1. \A u \in Threads \ {t} : op'[u] = op[u]
  <2>1. \E f : SetFrame(t, f)
    BY DEF ThreadStep, BeginEnqueue, BeginDequeue, EndEnqueue, EndDequeue, Step,
           CallEnqueue, CallDequeue, RingReturn, RingStep, EnqueueStep, DequeueStep, EnqTicket,
           EnqLoad, EnqHead, EnqCas, EnqThreshold, EnqRaise,
           DeqSizeTail, DeqSizeHead, DeqThreshold, DeqTicket, DeqLoad, DeqWait, DeqTake,
           DeqCas, DeqTail, DeqLower, DeqCatch, DeqCatchTail, DeqCatchHead, DeqEmpty, Goto
  <2> QED
    BY <2>1, Becomes
<1>2. Idle.pc = "idle"
  BY DEF Idle, Frame
<1>3. CASE BeginEnqueue(t)
  <2>1. PICK v \in Indexes : op[t] = Idle /\ SetFrame(t, Frame("E_ticket", v, freeList))
          /\ UNCHANGED <<ringHead, ringTail, cell>>
    BY <1>3 DEF BeginEnqueue, CallEnqueue, LapInv
  <2>2. op'[t].pc = "E_ticket" /\ op'[t].arg = v
    BY <1>0, <2>1, Begun
  <2> QED
    BY <1>1, <1>2, <2>1, <2>2 DEF Outcome, Enters, Quiet
<1>4. CASE BeginDequeue(t)
  <2>1. PICK pc \in {"D_size_tail", "D_threshold"} :
          op[t] = Idle /\ SetFrame(t, Frame(pc, Invalid, freeList))
          /\ UNCHANGED <<ringHead, ringTail, cell>>
    BY <1>4 DEF BeginDequeue, CallDequeue
  <2>2. op'[t].pc = pc
    BY <1>0, <2>1, Begun
  <2> QED
    BY <1>1, <1>2, <2>1, <2>2 DEF Outcome, Enters, Quiet
<1>5. CASE EndEnqueue(t) \/ EndDequeue(t)
  <2>1. op[t].pc \in {"E_done", "D_done"} /\ SetFrame(t, Idle)
        /\ UNCHANGED <<ringHead, ringTail, cell>>
    BY <1>5 DEF EndEnqueue, EndDequeue, RingReturn
  <2>2. op'[t].pc = "idle"
    BY <1>0, <1>2, <2>1
  <2> QED
    BY <1>1, <2>1, <2>2 DEF Outcome, Enters, Quiet
<1>6. CASE Step(t)
  BY <1>1, <1>6, EnqueueOutcomes, DequeueOutcomes DEF Outcome, Step, RingStep
<1> QED
  BY <1>3, <1>4, <1>5, <1>6 DEF ThreadStep
-----------------------------------------------------------------------------
(* Tickets: who holds them, and which of them can no longer be used.         *)

EnqueuingPcs == {"E_ticket", "E_load", "E_head", "E_cas"}
LatePcs == {"E_load", "E_head", "E_cas"}
ViewPcs == {"E_head", "E_cas", "D_wait", "D_cas"}

\* What a call knows where it is.
Sound(t) ==
  /\ op[t].pc \in EnqueuingPcs => op[t].arg \in Indexes
  /\ op[t].pc \in {"E_head", "E_cas"} =>
       op[t].entry.index = Empty /\ op[t].entry.cycle < Lap(t)
  /\ op[t].pc = "E_head" => ~op[t].entry.safe
  /\ op[t].pc = "D_wait" => op[t].entry.index = Empty /\ op[t].entry.cycle # Lap(t)
  /\ op[t].pc = "D_cas" => op[t].entry.cycle < Lap(t)
  /\ op[t].pc = "D_take" => op[t].entry.cycle = Lap(t)
  /\ op[t].pc = "D_catch" => op[t].tt <= op[t].ticket + 1
CallsAreSound ==
  /\ \A t \in Threads : Sound(t)
  /\ \A i \in 0..(N - 1) : cell[i].index \in Indexes \cup {Empty}
  /\ ringHead \in Nat /\ ringTail \in Nat

\* Tickets are drawn from the counters, those of dequeuers once.
TicketsAreDrawn == \A t \in Threads :
  /\ op[t].pc \in TicketPcs => op[t].ticket \in Nat /\ op[t].ticket < ringHead
  /\ op[t].pc \in LatePcs => op[t].ticket \in Nat /\ op[t].ticket < ringTail
  /\ op[t].pc \in TicketPcs =>
       \A u \in Threads : op[u].pc \in TicketPcs /\ op[u].ticket = op[t].ticket => u = t

\* A cell with an index carries the ticket of an enqueuer.
FilledByTicket == \A i \in 0..(N - 1) : Committed(i) =>
  cell[i].cycle \in Nat /\ TicketOf(i) < ringTail

\* What a thread has loaded is old, but not wrong.
ViewsAreOld == \A t \in Threads : op[t].pc \in ViewPcs =>
  /\ op[t].entry.cycle <= Here(t).cycle
  /\ op[t].entry.cycle = Here(t).cycle /\ op[t].entry.index = Empty => Here(t).index = Empty

Served(T) == \E t \in Threads : op[t].pc \in TicketPcs /\ op[t].ticket = T
\* A cell that is empty in the lap of T has been left by the dequeuer of T.
UsedUp == \A T \in Nat :
  cell[Cell(T)].cycle = Cycle(T) /\ cell[Cell(T)].index = Empty => T < ringHead /\ ~Served(T)

\* An enqueuer that may still use an unsafe word for a ticket up to T.
Risk(T) == \E e \in Threads :
  /\ op[e].pc = "E_cas" /\ ~op[e].entry.safe
  /\ Cell(op[e].ticket) = Cell(T) /\ op[e].ticket <= T
  /\ op[e].entry.cycle = cell[Cell(T)].cycle
\* No enqueuer can store an index under T any more, and there is none.
Dead(T) ==
  /\ cell[Cell(T)].cycle = Cycle(T) => cell[Cell(T)].index = Empty
  /\ cell[Cell(T)].cycle < Cycle(T) => ~cell[Cell(T)].safe /\ ~Risk(T)
LeftIsDead == \A T \in Nat : T < ringHead /\ ~Served(T) => Dead(T)

\* A dequeuer that decided to take finds what it saw.
TakesWhatItSaw == \A t \in Threads : op[t].pc = "D_take" =>
  /\ Here(t).cycle = Lap(t)
  /\ Here(t).index = op[t].entry.index /\ Here(t).index \in Indexes

TicketInv == /\ CallsAreSound /\ TicketsAreDrawn /\ FilledByTicket /\ ViewsAreOld
             /\ UsedUp /\ LeftIsDead /\ TakesWhatItSaw

\* The types of what the proofs below calculate with.
Typed ==
  /\ ringHead \in Int /\ ringTail \in Int
  /\ \A i \in 0..(N - 1) : cell[i].cycle \in Int /\ cell[i].safe \in BOOLEAN
  /\ \A t \in Threads :
       /\ op[t].pc \in Pcs /\ op[t].ticket \in Int /\ op[t].tt \in Int
       /\ op[t].entry.cycle \in Int /\ op[t].entry.safe \in BOOLEAN
       /\ Cell(op[t].ticket) \in 0..(N - 1) /\ Lap(t) \in Int
       /\ op[t].pc \in {"E_head", "E_cas", "D_cas"} => op[t].entry.cycle < Lap(t)

\* The types, before and after a step.
LEMMA Types == LapInv => Typed
<1> SUFFICES ASSUME LapInv PROVE Typed
  OBVIOUS
<1>1. /\ ringHead \in Int /\ ringTail \in Int
      /\ \A i \in 0..(N - 1) : cell[i].cycle \in Int /\ cell[i].safe \in BOOLEAN
  BY DEF LapInv, WordType
<1>2. ASSUME NEW t \in Threads
      PROVE  /\ op[t].pc \in Pcs /\ op[t].ticket \in Int /\ op[t].tt \in Int
             /\ op[t].entry.cycle \in Int /\ op[t].entry.safe \in BOOLEAN
             /\ Cell(op[t].ticket) \in 0..(N - 1) /\ Lap(t) \in Int
             /\ op[t].pc \in {"E_head", "E_cas", "D_cas"} => op[t].entry.cycle < Lap(t)
  <2>1. op[t] \in FrameType /\ Outdated(op[t])
    BY DEF LapInv, Frames
  <2> QED
    BY <2>1, Sizes DEF FrameType, WordType, Outdated, Lap, Cell
<1> QED
  BY <1>1, <1>2 DEF Typed

LEMMA TypesNext == LapInv' => Typed'
<1> SUFFICES ASSUME LapInv' PROVE Typed'
  OBVIOUS
<1>1. /\ ringHead' \in Int /\ ringTail' \in Int
      /\ \A i \in 0..(N - 1) : cell'[i].cycle \in Int /\ cell'[i].safe \in BOOLEAN
  BY DEF LapInv, WordType
<1>2. ASSUME NEW t \in Threads
      PROVE  /\ op'[t].pc \in Pcs /\ op'[t].ticket \in Int /\ op'[t].tt \in Int
             /\ op'[t].entry.cycle \in Int /\ op'[t].entry.safe \in BOOLEAN
             /\ Cell(op'[t].ticket) \in 0..(N - 1) /\ Lap(t)' \in Int
             /\ op'[t].pc \in {"E_head", "E_cas", "D_cas"} => op'[t].entry.cycle < Lap(t)'
  <2>1. op'[t] \in FrameType /\ Outdated(op'[t])
    BY DEF LapInv, Frames
  <2> QED
    BY <2>1, Sizes DEF FrameType, WordType, Outdated, Lap, Cell
<1> QED
  BY <1>1, <1>2 DEF Typed

\* A ticket is a lap and a cell.
LEMMA Split ==
  \A T \in Nat : /\ Cell(T) \in 0..(N - 1) /\ Cycle(T) \in Nat
                 /\ T = Cycle(T) * N + Cell(T)
BY Sizes DEF Cell, Cycle

\* A lap and a cell are a ticket.
LEMMA Unsplit ==
  ASSUME NEW c \in Nat, NEW i \in 0..(N - 1)
  PROVE  c * N + i \in Nat /\ Cell(c * N + i) = i /\ Cycle(c * N + i) = c
BY Sizes DEF Cell, Cycle

\* Tickets of one cell in different laps are N apart.
LEMMA LapsApart ==
  \A a, b \in Int : a * N \in Int /\ (a < b => a * N + N <= b * N)
BY Sizes

\* Of two tickets at one cell the smaller one has the smaller lap.
LEMMA SameCell ==
  \A S, T \in Nat : Cell(S) = Cell(T) =>
    (S <= T <=> Cycle(S) <= Cycle(T)) /\ (S = T <=> Cycle(S) = Cycle(T))
<1> TAKE S, T \in Nat
<1>1. Cycle(S) \in Nat /\ Cycle(T) \in Nat
  BY Split
<1>2. /\ Cycle(S) * N \in Int /\ Cycle(T) * N \in Int
      /\ Cycle(S) < Cycle(T) => Cycle(S) * N + N <= Cycle(T) * N
      /\ Cycle(T) < Cycle(S) => Cycle(T) * N + N <= Cycle(S) * N
  BY <1>1, LapsApart
<1>3. S = Cycle(S) * N + Cell(S) /\ T = Cycle(T) * N + Cell(T) /\ Cell(S) \in 0..(N - 1)
  BY Split
<1> QED
  BY <1>1, <1>2, <1>3, Sizes

\* The index bits of an empty cell are no index.
LEMMA EmptyIsNoIndex == Empty \notin Indexes
BY HalfAssumption DEF Empty, Indexes, N

\* The steps that touch a cell, and those that do not.
LEMMA Touches ==
  ASSUME NEW t \in Threads, Outcome(t)
  PROVE  UNCHANGED cell \/ Commits(t) \/ Takes(t) \/ Replaces(t)
BY DEF Outcome, Enters, EnqueueOutcome, DequeueOutcome, Draws, Judges, Dares, Restarts,
       Raises, Claims, Decides, Waits, Again, Prepares, Passes, Searches, Quiet

\* Within one lap a cell only loses its index and its safe bit.
Progress ==
  /\ ringHead <= ringHead' /\ ringTail <= ringTail'
  /\ \A i \in 0..(N - 1) :
       /\ cell[i].cycle <= cell'[i].cycle
       /\ cell'[i].cycle = cell[i].cycle =>
            /\ cell'[i].safe => cell[i].safe
            /\ cell[i].index = Empty => cell'[i].index = Empty

\* The counters never go back: catchUp() only raises the tail it compared.
LEMMA CountersGrow ==
  ASSUME Typed, CallsAreSound, NEW t \in Threads, Outcome(t)
  PROVE  ringHead <= ringHead' /\ ringTail <= ringTail' /\ ringHead' \in Nat /\ ringTail' \in Nat
<1>1. UNCHANGED <<ringHead, ringTail>> \/ Draws(t) \/ Claims(t) \/ Searches(t)
  BY DEF Outcome, Enters, EnqueueOutcome, DequeueOutcome, Judges, Dares, Restarts, Commits,
         Raises, Decides, Waits, Again, Prepares, Passes, Takes, Replaces, Quiet, Stores
<1> QED
  BY <1>1 DEF Draws, Claims, Searches, Typed, CallsAreSound, Sound

\* The counters and every cell only move forward.
LEMMA StepsProgress ==
  ASSUME Typed, CallsAreSound, NEW t \in Threads, Outcome(t)
  PROVE  Progress
<1>1. ringHead <= ringHead' /\ ringTail <= ringTail'
  BY CountersGrow
<1> SUFFICES ASSUME NEW i \in 0..(N - 1)
             PROVE  /\ cell[i].cycle <= cell'[i].cycle
                    /\ cell'[i].cycle = cell[i].cycle =>
                         /\ cell'[i].safe => cell[i].safe
                         /\ cell[i].index = Empty => cell'[i].index = Empty
  BY <1>1 DEF Progress
<1>2. CASE UNCHANGED cell
  BY <1>2 DEF Typed
<1>3. CASE Commits(t)
  <2>1. Here(t).cycle < Lap(t)
    BY <1>3 DEF Commits, Typed
  <2> QED
    BY <1>3, <2>1 DEF Commits, Stores, Typed, Here
<1>4. CASE Takes(t)
  BY <1>4 DEF Takes, Stores, Typed, Here
<1>5. CASE Replaces(t)
  <2>1. Here(t).cycle < Lap(t)
    BY <1>5 DEF Replaces, Typed
  <2> QED
    BY <1>5, <2>1 DEF Replaces, Stores, Typed, Here
<1> QED
  BY <1>2, <1>3, <1>4, <1>5, Touches

\* What a call knows where it is stays true.
LEMMA SoundKept ==
  ASSUME Typed, Typed', CallsAreSound, TakesWhatItSaw, NEW t \in Threads, Outcome(t)
  PROVE  CallsAreSound'
<1>0. \A u \in Threads \ {t} : op'[u] = op[u]
  BY DEF Outcome
<1>1. ringHead' \in Nat /\ ringTail' \in Nat
  BY CountersGrow
<1>2. \A i \in 0..(N - 1) : cell'[i].index \in Indexes \cup {Empty}
  <2>1. CASE UNCHANGED cell
    BY <2>1 DEF CallsAreSound
  <2>2. CASE Commits(t)
    BY <2>2 DEF CallsAreSound, Sound, EnqueuingPcs, Commits, Stores
  <2>3. CASE Takes(t)
    BY <2>3 DEF CallsAreSound, Takes, Stores
  <2>4. CASE Replaces(t)
    BY <2>4 DEF CallsAreSound, Replaces, Stores, Here, Typed
  <2> QED
    BY <2>1, <2>2, <2>3, <2>4, Touches
<1>3. \A u \in Threads \ {t} : Sound(u)'
  BY <1>0 DEF CallsAreSound, Sound, Lap
<1>4. Sound(t)'
  <2>1. Sound(t)
    BY DEF CallsAreSound
  <2>2. CASE Enters(t)
    BY <2>2 DEF Enters, Sound, EnqueuingPcs
  <2>3. CASE EnqueueOutcome(t)
    <3>1. op'[t].pc \in EnqueuingPcs \cup {"E_threshold", "E_raise", "E_done"}
      BY <2>3 DEF EnqueueOutcome, Draws, Judges, Dares, Restarts, Commits, Raises, EnqueuingPcs
    <3>2. op'[t].pc \in EnqueuingPcs => op'[t].arg \in Indexes
      BY <2>1, <2>3 DEF EnqueueOutcome, Draws, Judges, Dares, Restarts, Commits, Raises,
         EnqueuingPcs, Sound, KeepsCall
    <3>3. op'[t].pc \in {"E_head", "E_cas"} => op'[t].entry.index = Empty
      BY <2>1, <2>3 DEF EnqueueOutcome, Draws, Judges, Dares, Restarts, Commits, Raises,
         Sound, KeepsWord, Loads
    <3>4. op'[t].pc = "E_head" => ~op'[t].entry.safe
      BY <2>3 DEF EnqueueOutcome, Draws, Judges, Dares, Restarts, Commits, Raises, Loads
    <3> QED
      BY <3>1, <3>2, <3>3, <3>4 DEF Sound, EnqueuingPcs, Typed
  <2>4. CASE DequeueOutcome(t)
    <3>1. op'[t].pc \in DequeuePcs \cup {"D_done"}
      BY <2>4 DEF DequeueOutcome, Claims, Decides, Waits, Again, Prepares, Passes, Takes,
         Replaces, Searches, DequeuePcs, TicketPcs, FreePcs
    <3>2. op'[t].pc = "D_wait" => Waits(t)
      BY <2>4 DEF DequeueOutcome, Claims, Decides, Again, Prepares, Passes, Takes,
         Replaces, Searches, TicketPcs, FreePcs
    <3>3. op'[t].pc = "D_take" => Decides(t)
      BY <2>4 DEF DequeueOutcome, Claims, Waits, Again, Prepares, Passes, Takes,
         Replaces, Searches, TicketPcs, FreePcs
    <3>4. op'[t].pc = "D_catch" => Searches(t)
      BY <2>4 DEF DequeueOutcome, Claims, Decides, Waits, Again, Prepares, Passes, Takes,
         Replaces
    <3>5. op'[t].pc \notin EnqueuingPcs
      BY <3>1 DEF DequeuePcs, TicketPcs, EnqueuingPcs
    <3>6. op'[t].pc = "D_cas" => op'[t].entry.cycle < Lap(t)'
      BY DEF Typed
    <3>7. op'[t].pc = "D_wait" => op'[t].entry.index = Empty /\ op'[t].entry.cycle # Lap(t)'
      BY <3>2 DEF Waits, Loads, KeepsTicket, Lap
    <3>8. op'[t].pc = "D_take" => op'[t].entry.cycle = Lap(t)'
      BY <3>3 DEF Decides, Loads, KeepsTicket, Lap
    <3>9. op'[t].pc = "D_catch" => op'[t].tt <= op'[t].ticket + 1
      BY <3>4 DEF Searches
    <3> QED
      BY <3>5, <3>6, <3>7, <3>8, <3>9 DEF Sound, EnqueuingPcs
  <2> QED
    BY <2>2, <2>3, <2>4 DEF Outcome
<1> QED
  BY <1>1, <1>2, <1>3, <1>4 DEF CallsAreSound

\* A thread whose dequeue was bound to a ticket before a step still is, was
\* given a new one, or was not bound.
LEMMA Binding ==
  ASSUME NEW t \in Threads, Outcome(t), op'[t].pc \in TicketPcs, ~Claims(t)
  PROVE  /\ op[t].pc \in TicketPcs /\ op'[t].ticket = op[t].ticket
         /\ UNCHANGED <<ringHead, ringTail, cell>>
         /\ Decides(t) \/ Waits(t) \/ Again(t) \/ Prepares(t)
<1>1. Decides(t) \/ Waits(t) \/ Again(t) \/ Prepares(t)
  BY DEF Outcome, Enters, EnqueueOutcome, DequeueOutcome, Draws, Judges, Dares, Restarts,
         Commits, Raises, Passes, Takes, Replaces, Searches, TicketPcs, FreePcs
<1> QED
  BY <1>1 DEF Decides, Waits, Again, Prepares, KeepsTicket, Quiet, TicketPcs

\* An enqueuer that holds a ticket has just drawn it, or held it before.
LEMMA LateBinding ==
  ASSUME NEW t \in Threads, Outcome(t), op'[t].pc \in LatePcs, ~Draws(t)
  PROVE  /\ op[t].pc \in LatePcs /\ op'[t].ticket = op[t].ticket /\ op'[t].arg = op[t].arg
         /\ UNCHANGED <<ringHead, ringTail, cell>>
         /\ Judges(t) \/ Dares(t)
<1>1. Judges(t) \/ Dares(t)
  BY DEF Outcome, Enters, EnqueueOutcome, DequeueOutcome, Restarts, Claims, Decides, Waits,
         Again, Prepares, Commits, Raises, Passes, Takes, Replaces, Searches, LatePcs, FreePcs,
         DequeuePcs, TicketPcs
<1> QED
  BY <1>1 DEF Judges, Dares, KeepsCall, KeepsTicket, Quiet, LatePcs

\* Every ticket is drawn once by a dequeuer, and below its counter.
LEMMA DrawnKept ==
  ASSUME Typed, Typed', TicketInv, NEW t \in Threads, Outcome(t)
  PROVE  TicketsAreDrawn'
<1>0. \A u \in Threads \ {t} : op'[u] = op[u]
  BY DEF Outcome
<1>1. /\ ringHead <= ringHead' /\ ringTail <= ringTail' /\ ringHead \in Nat /\ ringTail \in Nat
      /\ ringHead' \in Nat /\ ringTail' \in Nat
  BY CountersGrow DEF TicketInv, CallsAreSound
<1>2. TicketsAreDrawn
  BY DEF TicketInv
<1>3. \A u \in Threads \ {t} :
        /\ op'[u].pc \in TicketPcs => op'[u].ticket \in Nat /\ op'[u].ticket < ringHead
        /\ op'[u].pc \in LatePcs => op'[u].ticket \in Nat /\ op'[u].ticket < ringTail
  BY <1>0, <1>2 DEF TicketsAreDrawn
<1>4. op'[t].pc \in TicketPcs => op'[t].ticket \in Nat /\ op'[t].ticket < ringHead'
  <2>1. CASE Claims(t)
    BY <1>1, <2>1 DEF Claims
  <2>2. CASE ~Claims(t)
    BY <1>1, <1>2, <2>2, Binding DEF TicketsAreDrawn
  <2> QED
    BY <2>1, <2>2
<1>5. op'[t].pc \in LatePcs => op'[t].ticket \in Nat /\ op'[t].ticket < ringTail'
  <2>1. CASE Draws(t)
    BY <1>1, <2>1 DEF Draws
  <2>2. CASE ~Draws(t)
    BY <1>1, <1>2, <2>2, LateBinding DEF TicketsAreDrawn
  <2> QED
    BY <2>1, <2>2
<1>6. ASSUME NEW u \in Threads, u # t, op'[u].pc \in TicketPcs, op'[t].pc \in TicketPcs
      PROVE  op'[u].ticket # op'[t].ticket
  <2>1. op'[u] = op[u] /\ op[u].pc \in TicketPcs /\ op[u].ticket < ringHead /\ op[u].ticket \in Nat
    BY <1>0, <1>2, <1>6 DEF TicketsAreDrawn
  <2>2. CASE Claims(t)
    BY <1>1, <2>1, <2>2 DEF Claims
  <2>3. CASE ~Claims(t)
    BY <1>2, <1>6, <2>1, <2>3, Binding DEF TicketsAreDrawn
  <2> QED
    BY <2>2, <2>3
<1> SUFFICES ASSUME NEW u \in Threads
             PROVE  /\ op'[u].pc \in TicketPcs => op'[u].ticket \in Nat /\ op'[u].ticket < ringHead'
                    /\ op'[u].pc \in LatePcs => op'[u].ticket \in Nat /\ op'[u].ticket < ringTail'
                    /\ op'[u].pc \in TicketPcs => \A r \in Threads :
                         op'[r].pc \in TicketPcs /\ op'[r].ticket = op'[u].ticket => r = u
  BY DEF TicketsAreDrawn
<1>7. op'[u].pc \in TicketPcs => \A r \in Threads :
         op'[r].pc \in TicketPcs /\ op'[r].ticket = op'[u].ticket => r = u
  BY <1>0, <1>2, <1>6 DEF TicketsAreDrawn
<1> QED
  BY <1>1, <1>3, <1>4, <1>5, <1>7

\* An index is stored under a ticket below the tail.
LEMMA FilledKept ==
  ASSUME Typed, Typed', TicketInv, NEW t \in Threads, Outcome(t)
  PROVE  FilledByTicket'
<1>1. /\ ringHead <= ringHead' /\ ringTail <= ringTail' /\ ringHead \in Nat /\ ringTail \in Nat
      /\ ringHead' \in Nat /\ ringTail' \in Nat
  BY CountersGrow DEF TicketInv, CallsAreSound
<1> SUFFICES ASSUME NEW i \in 0..(N - 1), cell'[i].index # Empty
             PROVE  cell'[i].cycle \in Nat /\ cell'[i].cycle * N + i < ringTail'
  BY DEF FilledByTicket, Committed, TicketOf
<1>2. ASSUME cell[i].index # Empty, cell'[i].cycle = cell[i].cycle
      PROVE  cell'[i].cycle \in Nat /\ cell'[i].cycle * N + i < ringTail'
  <2>1. cell[i].cycle \in Nat /\ cell[i].cycle * N + i < ringTail
    BY <1>2 DEF TicketInv, FilledByTicket, Committed, TicketOf
  <2>2. cell[i].cycle * N + i \in Nat
    BY <2>1, Unsplit
  <2> QED
    BY <1>1, <1>2, <2>1, <2>2
<1>3. CASE UNCHANGED cell
  BY <1>2, <1>3
<1>4. CASE Commits(t)
  <2>1. CASE i # Cell(op[t].ticket)
    BY <1>2, <1>4, <2>1 DEF Commits, Stores
  <2>2. CASE i = Cell(op[t].ticket)
    <3>1. cell'[i].cycle = Cycle(op[t].ticket) /\ UNCHANGED <<ringHead, ringTail>>
      BY <1>4, <2>2 DEF Commits, Stores, Lap
    <3>2. op[t].ticket \in Nat /\ op[t].ticket < ringTail
      BY <1>4 DEF Commits, TicketInv, TicketsAreDrawn, LatePcs
    <3> QED
      BY <2>2, <3>1, <3>2, Split
  <2> QED
    BY <2>1, <2>2
<1>5. CASE Takes(t)
  BY <1>2, <1>5 DEF Takes, Stores
<1>6. CASE Replaces(t)
  BY <1>2, <1>6 DEF Replaces, Stores, Here
<1> QED
  BY <1>3, <1>4, <1>5, <1>6, Touches

\* A loaded word stays old, and an empty one of the same lap true.
LEMMA ViewsKept ==
  ASSUME Typed, Typed', TicketInv, NEW t \in Threads, Outcome(t)
  PROVE  ViewsAreOld'
<1>0. \A u \in Threads \ {t} : op'[u] = op[u]
  BY DEF Outcome
<1>1. Progress
  BY StepsProgress DEF TicketInv
<1>2. ASSUME NEW u \in Threads, op'[u].pc \in ViewPcs, op[u].pc \in ViewPcs,
             op'[u].entry = op[u].entry, op'[u].ticket = op[u].ticket
      PROVE  /\ op'[u].entry.cycle <= Here(u)'.cycle
             /\ op'[u].entry.cycle = Here(u)'.cycle /\ op'[u].entry.index = Empty
                  => Here(u)'.index = Empty
  <2>1. PICK i \in 0..(N - 1) : i = Cell(op[u].ticket)
    BY DEF Typed
  <2>2. /\ op[u].entry.cycle <= cell[i].cycle
        /\ op[u].entry.cycle = cell[i].cycle /\ op[u].entry.index = Empty
             => cell[i].index = Empty
    BY <1>2, <2>1 DEF TicketInv, ViewsAreOld, Here
  <2>3. Here(u)' = cell'[i]
    BY <1>2, <2>1 DEF Here
  <2>4. op[u].entry.cycle \in Int /\ cell[i].cycle \in Int /\ cell'[i].cycle \in Int
    BY DEF Typed
  <2> QED
    BY <1>1, <1>2, <2>2, <2>3, <2>4 DEF Progress
<1>3. ASSUME op'[t].pc \in ViewPcs
      PROVE  \/ /\ Loads(t) /\ KeepsTicket(t) /\ Quiet
             \/ /\ KeepsWord(t) /\ KeepsTicket(t) /\ op[t].pc \in ViewPcs
  BY <1>3 DEF Outcome, Enters, EnqueueOutcome, DequeueOutcome, Draws, Judges, Dares, Restarts,
         Commits, Raises, Claims, Decides, Waits, Again, Prepares, Passes, Takes, Replaces,
         Searches, ViewPcs, FreePcs, DequeuePcs, TicketPcs, KeepsCall
<1>4. ASSUME op'[t].pc \in ViewPcs, Loads(t), KeepsTicket(t), Quiet
      PROVE  /\ op'[t].entry.cycle <= Here(t)'.cycle
             /\ op'[t].entry.cycle = Here(t)'.cycle /\ op'[t].entry.index = Empty
                  => Here(t)'.index = Empty
  <2>1. op'[t].entry = Here(t)'
    BY <1>4 DEF Loads, KeepsTicket, Quiet, Here
  <2>2. op'[t].entry.cycle \in Int
    BY DEF Typed
  <2> QED
    BY <2>1, <2>2
<1> SUFFICES ASSUME NEW u \in Threads, op'[u].pc \in ViewPcs
             PROVE  /\ op'[u].entry.cycle <= Here(u)'.cycle
                    /\ op'[u].entry.cycle = Here(u)'.cycle /\ op'[u].entry.index = Empty
                         => Here(u)'.index = Empty
  BY DEF ViewsAreOld
<1>5. CASE u = t
  BY <1>2, <1>3, <1>4, <1>5 DEF KeepsWord, KeepsTicket
<1>6. CASE u # t
  BY <1>0, <1>2, <1>6
<1> QED
  BY <1>5, <1>6

\* Whether a ticket is served only changes where it is drawn or left.
LEMMA ServedKept ==
  ASSUME Typed, Typed', TicketInv, NEW t \in Threads, Outcome(t), NEW T \in Nat
  PROVE  /\ Served(T)' => Served(T) \/ (Claims(t) /\ T = ringHead)
         /\ Served(T) /\ ~Served(T)' =>
              /\ op[t].pc \in TicketPcs /\ op[t].ticket = T
              /\ Passes(t) \/ Takes(t) \/ Replaces(t)
<1>0. \A u \in Threads \ {t} : op'[u] = op[u]
  BY DEF Outcome
<1>1. ASSUME Served(T)' PROVE Served(T) \/ (Claims(t) /\ T = ringHead)
  <2>1. PICK u \in Threads : op'[u].pc \in TicketPcs /\ op'[u].ticket = T
    BY <1>1 DEF Served
  <2>2. CASE u # t
    BY <1>0, <2>1, <2>2 DEF Served
  <2>3. CASE u = t /\ Claims(t)
    BY <2>1, <2>3 DEF Claims
  <2>4. CASE u = t /\ ~Claims(t)
    BY <2>1, <2>4, Binding DEF Served
  <2> QED
    BY <2>2, <2>3, <2>4
<1>2. ASSUME Served(T), ~Served(T)'
      PROVE  /\ op[t].pc \in TicketPcs /\ op[t].ticket = T
             /\ Passes(t) \/ Takes(t) \/ Replaces(t)
  <2>1. PICK u \in Threads : op[u].pc \in TicketPcs /\ op[u].ticket = T
    BY <1>2 DEF Served
  <2>2. u = t
    BY <1>0, <1>2, <2>1 DEF Served
  <2>3. ~(op'[t].pc \in TicketPcs /\ op'[t].ticket = T)
    BY <1>2 DEF Served
  <2>4. Passes(t) \/ Takes(t) \/ Replaces(t)
    BY <2>1, <2>2, <2>3 DEF Outcome, Enters, EnqueueOutcome, DequeueOutcome, Draws, Judges, Dares,
         Restarts, Commits, Raises, Claims, Decides, Waits, Again, Prepares, Searches, TicketPcs,
         FreePcs, KeepsTicket
  <2> QED
    BY <2>1, <2>2, <2>4
<1> QED
  BY <1>1, <1>2

\* A cell gets empty in a lap by the dequeuer of that lap only.
LEMMA UsedUpKept ==
  ASSUME Typed, Typed', TicketInv, NEW t \in Threads, Outcome(t)
  PROVE  UsedUp'
<1>0. \A u \in Threads \ {t} : op'[u] = op[u]
  BY DEF Outcome
<1>1. /\ ringHead <= ringHead' /\ ringHead \in Nat /\ ringHead' \in Nat
  BY CountersGrow DEF TicketInv, CallsAreSound
<1> SUFFICES ASSUME NEW T \in Nat, cell'[Cell(T)].cycle = Cycle(T), cell'[Cell(T)].index = Empty
             PROVE  T < ringHead' /\ ~Served(T)'
  BY DEF UsedUp
<1>2. PICK i \in 0..(N - 1) : i = Cell(T)
  BY Split
<1>3. ASSUME cell[i].cycle = Cycle(T), cell[i].index = Empty
      PROVE  T < ringHead' /\ ~Served(T)'
  <2>1. T < ringHead /\ ~Served(T)
    BY <1>2, <1>3 DEF TicketInv, UsedUp
  <2>2. T < ringHead'
    BY <1>1, <2>1
  <2>3. T # ringHead
    BY <1>1, <2>1
  <2> QED
    BY <2>1, <2>2, <2>3, ServedKept
<1>4. ASSUME op[t].pc \in TicketPcs, op[t].ticket = T, op'[t].pc \notin TicketPcs
      PROVE  T < ringHead' /\ ~Served(T)'
  <2>1. /\ T < ringHead
        /\ \A u \in Threads : op[u].pc \in TicketPcs /\ op[u].ticket = T => u = t
    BY <1>4 DEF TicketInv, TicketsAreDrawn
  <2>2. T < ringHead'
    BY <1>1, <2>1
  <2>3. ~Served(T)'
    BY <1>0, <1>4, <2>1 DEF Served
  <2> QED
    BY <2>2, <2>3
<1>5. CASE UNCHANGED cell
  BY <1>2, <1>3, <1>5
<1>6. CASE Commits(t)
  <2>1. op[t].arg # Empty
    BY <1>6, EmptyIsNoIndex DEF Commits, TicketInv, CallsAreSound, Sound, EnqueuingPcs
  <2>2. i # Cell(op[t].ticket)
    BY <1>2, <1>6, <2>1 DEF Commits, Stores
  <2>3. cell'[i] = cell[i]
    BY <1>6, <2>2 DEF Commits, Stores
  <2> QED
    BY <1>2, <1>3, <2>3
<1>7. CASE Takes(t) \/ Replaces(t)
  <2>1. op[t].pc \in TicketPcs /\ op'[t].pc \notin TicketPcs
    BY <1>7 DEF Takes, Replaces, TicketPcs
  <2>2. op[t].ticket \in Nat
    BY <2>1 DEF TicketInv, TicketsAreDrawn
  <2>3. CASE i # Cell(op[t].ticket)
    <3>1. cell'[i] = cell[i]
      BY <1>7, <2>3 DEF Takes, Replaces, Stores
    <3> QED
      BY <1>2, <1>3, <3>1
  <2>4. CASE i = Cell(op[t].ticket) /\ cell'[i].cycle = Lap(t)
    <3>1. op[t].ticket = T
      BY <1>2, <2>2, <2>4, SameCell DEF Lap
    <3> QED
      BY <1>4, <2>1, <3>1
  <2>5. CASE i = Cell(op[t].ticket) /\ cell'[i].cycle # Lap(t)
    <3>1. CASE Takes(t)
      BY <1>2, <2>5, <3>1 DEF Takes, Stores, TicketInv, TakesWhatItSaw
    <3>2. CASE Replaces(t)
      BY <1>2, <1>3, <2>5, <3>2 DEF Replaces, Stores, Here
    <3> QED
      BY <1>7, <3>1, <3>2
  <2> QED
    BY <2>3, <2>4, <2>5
<1> QED
  BY <1>5, <1>6, <1>7, Touches

\* What a dequeuer decided to take stays until it takes it.
LEMMA TakesKept ==
  ASSUME Typed, Typed', TicketInv, NEW t \in Threads, Outcome(t)
  PROVE  TakesWhatItSaw'
<1>0. \A u \in Threads \ {t} : op'[u] = op[u]
  BY DEF Outcome
<1> SUFFICES ASSUME NEW u \in Threads, op'[u].pc = "D_take"
             PROVE  /\ Here(u)'.cycle = Lap(u)'
                    /\ Here(u)'.index = op'[u].entry.index /\ Here(u)'.index \in Indexes
  BY DEF TakesWhatItSaw
<1>1. CASE u = t
  <2>1. ~Claims(t)
    BY <1>1 DEF Claims
  <2>2. /\ op[t].pc \in TicketPcs /\ op'[t].ticket = op[t].ticket
        /\ UNCHANGED <<ringHead, ringTail, cell>>
        /\ Decides(t) \/ Waits(t) \/ Again(t) \/ Prepares(t)
    BY <1>1, <2>1, Binding DEF TicketPcs
  <2>3. Decides(t)
    BY <1>1, <2>2 DEF Waits, Again, Prepares
  <2>4. PICK T \in Nat : T = op[t].ticket
    BY <2>2 DEF TicketInv, TicketsAreDrawn
  <2>5. Here(t).cycle = Cycle(T) /\ Here(t) = cell[Cell(T)] /\ Served(T)
    BY <2>2, <2>3, <2>4 DEF Decides, Lap, Here, Served
  <2>6. Here(t).index # Empty
    BY <2>5 DEF TicketInv, UsedUp
  <2>7. Here(t).index \in Indexes
    <3>1. Cell(T) \in 0..(N - 1)
      BY Split
    <3> QED
      BY <2>5, <2>6, <3>1 DEF TicketInv, CallsAreSound
  <2> QED
    BY <1>1, <2>2, <2>3, <2>7 DEF Decides, Loads, Here, Lap
<1>2. CASE u # t
  <2>0. PICK i \in 0..(N - 1) : i = Cell(op[u].ticket)
    BY DEF Typed
  <2>1. /\ op'[u] = op[u] /\ Here(u) = cell[i] /\ Here(u)' = cell'[i] /\ Lap(u)' = Lap(u)
        /\ cell[i].cycle = Lap(u) /\ cell[i].index = op[u].entry.index /\ cell[i].index \in Indexes
    BY <1>0, <1>2, <2>0 DEF Here, TicketInv, TakesWhatItSaw, Lap
  <2>2. cell[i].index # Empty
    BY <2>1, EmptyIsNoIndex
  <2>3. CASE UNCHANGED cell
    BY <2>1, <2>3
  <2>4. CASE Commits(t)
    <3>1. i # Cell(op[t].ticket)
      BY <2>2, <2>4 DEF Commits, Here, TicketInv, CallsAreSound, Sound
    <3> QED
      BY <2>1, <2>4, <3>1 DEF Commits, Stores
  <2>5. CASE Takes(t)
    <3>1. i # Cell(op[t].ticket)
      <4> SUFFICES ASSUME i = Cell(op[t].ticket) PROVE FALSE
        OBVIOUS
      <4>1. Lap(t) = Lap(u)
        BY <2>1, <2>5 DEF Takes, TicketInv, TakesWhatItSaw, Here
      <4>2. op[t].ticket \in Nat /\ op[u].ticket \in Nat
        BY <2>1, <2>5 DEF Takes, TicketInv, TicketsAreDrawn, TicketPcs
      <4>3. op[t].ticket = op[u].ticket
        BY <2>0, <4>1, <4>2, SameCell DEF Lap
      <4> QED
        BY <1>2, <2>1, <2>5, <4>3 DEF Takes, TicketInv, TicketsAreDrawn, TicketPcs
    <3> QED
      BY <2>1, <2>5, <3>1 DEF Takes, Stores
  <2>6. CASE Replaces(t)
    <3>1. CASE i # Cell(op[t].ticket)
      BY <2>1, <2>6, <3>1 DEF Replaces, Stores
    <3>2. CASE i = Cell(op[t].ticket)
      BY <2>1, <2>2, <2>6, <3>2 DEF Replaces, Stores, Here
    <3> QED
      BY <3>1, <3>2
  <2> QED
    BY <2>3, <2>4, <2>5, <2>6, Touches
<1> QED
  BY <1>1, <1>2

\* A step that leaves a cell in its lap brings no new risk for a ticket that
\* the dequeuers have drawn: an enqueuer that dares looked at the head.
LEMMA NoNewRisk ==
  ASSUME Typed, Typed', TicketInv, NEW t \in Threads, Outcome(t), NEW T \in Nat, T < ringHead,
         ~Risk(T), cell'[Cell(T)].cycle = cell[Cell(T)].cycle
  PROVE  ~Risk(T)'
<1>0. \A u \in Threads \ {t} : op'[u] = op[u]
  BY DEF Outcome
<1> SUFFICES ASSUME NEW e \in Threads, op'[e].pc = "E_cas", ~op'[e].entry.safe,
                    Cell(op'[e].ticket) = Cell(T), op'[e].ticket <= T,
                    op'[e].entry.cycle = cell[Cell(T)].cycle
             PROVE  FALSE
  BY DEF Risk
<1>1. CASE e # t
  BY <1>0, <1>1 DEF Risk
<1>2. CASE e = t
  <2>1. ~Draws(t)
    BY <1>2 DEF Draws
  <2>2. Judges(t) \/ Dares(t)
    BY <1>2, <2>1, LateBinding DEF LatePcs
  <2>3. CASE Judges(t)
    BY <1>2, <2>3 DEF Judges, Loads
  <2>4. CASE Dares(t)
    <3>1. ringHead <= op[t].ticket /\ op'[t].ticket = op[t].ticket
      BY <2>4 DEF Dares, KeepsCall, KeepsTicket
    <3> QED
      BY <1>2, <3>1 DEF Typed
  <2> QED
    BY <2>2, <2>3, <2>4
<1> QED
  BY <1>1, <1>2

\* A new lap comes without risk: nobody can have seen it.
LEMMA NewLapNoRisk ==
  ASSUME Typed, Typed', TicketInv, NEW t \in Threads, Outcome(t), Replaces(t), NEW T \in Nat,
         cell'[Cell(T)].cycle # cell[Cell(T)].cycle
  PROVE  ~Risk(T)'
<1>0. \A u \in Threads \ {t} : op'[u] = op[u]
  BY DEF Outcome
<1>1. PICK i \in 0..(N - 1) : i = Cell(T)
  BY Split
<1>2. cell[i].cycle < cell'[i].cycle
  <2>1. cell[i].cycle <= cell'[i].cycle
    BY <1>1, StepsProgress DEF Progress, TicketInv
  <2> QED
    BY <1>1, <2>1 DEF Typed
<1> SUFFICES ASSUME NEW e \in Threads, op'[e].pc = "E_cas", Cell(op'[e].ticket) = i,
                    op'[e].entry.cycle = cell'[i].cycle
             PROVE  FALSE
  BY <1>1 DEF Risk
<1>3. e # t /\ op'[e] = op[e]
  BY <1>0 DEF Replaces
<1>4. op[e].entry.cycle <= cell[i].cycle
  BY <1>3 DEF TicketInv, ViewsAreOld, ViewPcs, Here
<1> QED
  BY <1>2, <1>3, <1>4 DEF Typed

\* A dead ticket stays dead.
LEMMA DeadStaysDead ==
  ASSUME Typed, Typed', TicketInv, NEW t \in Threads, Outcome(t), NEW T \in Nat,
         T < ringHead, ~Served(T), Dead(T)
  PROVE  Dead(T)'
<1>1. PICK i \in 0..(N - 1) : i = Cell(T)
  BY Split
<1>2. /\ cell[i].cycle = Cycle(T) => cell[i].index = Empty
      /\ cell[i].cycle < Cycle(T) => ~cell[i].safe /\ ~Risk(T)
  BY <1>1 DEF Dead
<1>3. /\ cell[i].cycle <= cell'[i].cycle
      /\ cell'[i].cycle = cell[i].cycle =>
            /\ cell'[i].safe => cell[i].safe
            /\ cell[i].index = Empty => cell'[i].index = Empty
  BY StepsProgress DEF Progress, TicketInv
<1>4. cell[i].cycle \in Int /\ cell'[i].cycle \in Int /\ Cycle(T) \in Nat
  BY Split DEF Typed
<1>5. CASE cell'[i].cycle = cell[i].cycle
  BY <1>1, <1>2, <1>3, <1>5, NoNewRisk DEF Dead
<1>6. CASE cell'[i].cycle # cell[i].cycle
  <2>1. Commits(t) \/ Replaces(t)
    BY <1>6, Touches DEF Takes, Stores, Here
  <2>2. i = Cell(op[t].ticket)
    BY <1>6, <2>1 DEF Commits, Replaces, Stores
  <2>3. CASE Commits(t)
    <3>0. cell'[i].cycle = Lap(t) /\ cell[i] = op[t].entry
      BY <2>2, <2>3 DEF Commits, Stores, Here
    <3>1. op[t].ticket \in Nat
      BY <2>3 DEF Commits, TicketInv, TicketsAreDrawn, LatePcs
    <3>2. CASE cell[i].cycle < Cycle(T)
      <4>1. ~(op[t].ticket <= T)
        BY <1>1, <1>2, <2>2, <2>3, <3>0, <3>2 DEF Risk, Commits
      <4>2. Lap(t) > Cycle(T)
        <5>1. ~(Cycle(op[t].ticket) <= Cycle(T))
          BY <1>1, <2>2, <3>1, <4>1, SameCell
        <5> QED
          BY <1>4, <5>1 DEF Lap, Typed
      <4> QED
        BY <1>1, <1>4, <3>0, <4>2 DEF Dead
    <3>3. CASE ~(cell[i].cycle < Cycle(T))
      <4>1. cell'[i].cycle > Cycle(T)
        BY <1>3, <1>4, <1>6, <3>3
      <4> QED
        BY <1>1, <1>4, <4>1 DEF Dead
    <3> QED
      BY <3>2, <3>3
  <2>4. CASE Replaces(t)
    <3>1. /\ cell'[i].cycle = Lap(t) /\ cell'[i].index = Empty /\ cell'[i].safe = cell[i].safe
      BY <1>6, <2>2, <2>4 DEF Replaces, Stores, Here
    <3>2. ~Risk(T)'
      BY <1>1, <1>6, <2>4, NewLapNoRisk
    <3>3. cell'[i].cycle < Cycle(T) => cell[i].cycle < Cycle(T)
      BY <1>3, <1>4
    <3> QED
      BY <1>1, <1>2, <3>1, <3>2, <3>3 DEF Dead
  <2> QED
    BY <2>1, <2>3, <2>4
<1> QED
  BY <1>5, <1>6

\* Nobody is about to use the unsafe word of a cell that holds an index.
LEMMA NoRiskWithIndex ==
  ASSUME Typed, TicketInv, NEW T \in Nat, cell[Cell(T)].index # Empty
  PROVE  ~Risk(T)
<1> SUFFICES ASSUME NEW e \in Threads, op[e].pc = "E_cas", Cell(op[e].ticket) = Cell(T),
                    op[e].entry.cycle = cell[Cell(T)].cycle
             PROVE  FALSE
  BY DEF Risk
<1>1. op[e].entry.index = Empty
  BY DEF TicketInv, CallsAreSound, Sound
<1> QED
  BY <1>1 DEF TicketInv, ViewsAreOld, ViewPcs, Here

\* A dequeuer that leaves its ticket leaves it dead.
LEMMA LeavesItDead ==
  ASSUME Typed, Typed', TicketInv, NEW t \in Threads, Outcome(t), NEW T \in Nat,
         op[t].pc \in TicketPcs, op[t].ticket = T,
         Passes(t) \/ Takes(t) \/ Replaces(t)
  PROVE  Dead(T)'
<1>1. PICK i \in 0..(N - 1) : i = Cell(T)
  BY Split
<1>2. /\ Here(t) = cell[i] /\ Lap(t) = Cycle(T) /\ T < ringHead
      /\ cell[i].cycle \in Int /\ cell'[i].cycle \in Int /\ Cycle(T) \in Int
  BY <1>1, Split DEF Here, Lap, Typed, TicketInv, TicketsAreDrawn
<1>3. CASE Passes(t)
  <2>1. UNCHANGED cell /\ cell'[i] = cell[i]
    BY <1>3 DEF Passes, Quiet
  <2>2. CASE op[t].pc \in {"D_load", "D_cas"} /\ cell[i].index # Empty /\ ~cell[i].safe
              /\ cell[i].cycle # Cycle(T)
    <3>1. ~Risk(T)'
      BY <1>1, <1>2, <2>1, <2>2, NoNewRisk, NoRiskWithIndex
    <3> QED
      BY <1>1, <2>1, <2>2, <3>1 DEF Dead
  <2>3. CASE op[t].pc \in {"D_load", "D_cas"} /\ Cycle(T) <= cell[i].cycle
              /\ cell[i].cycle # Cycle(T)
    BY <1>1, <1>2, <2>1, <2>3 DEF Dead
  <2>4. CASE op[t].pc = "D_wait" /\ Cycle(T) <= op[t].entry.cycle
    <3>1. op[t].entry.cycle # Cycle(T) /\ op[t].entry.cycle <= cell[i].cycle
      BY <1>2, <2>4 DEF TicketInv, CallsAreSound, Sound, ViewsAreOld, ViewPcs
    <3>2. cell[i].cycle > Cycle(T)
      BY <1>2, <2>4, <3>1 DEF Typed
    <3> QED
      BY <1>1, <1>2, <2>1, <3>2 DEF Dead
  <2> QED
    BY <1>2, <1>3, <2>2, <2>3, <2>4 DEF Passes
<1>4. CASE Takes(t)
  <2>1. cell'[i].cycle = cell[i].cycle /\ cell'[i].index = Empty /\ cell[i].cycle = Cycle(T)
    BY <1>1, <1>2, <1>4 DEF Takes, Stores, TicketInv, TakesWhatItSaw
  <2> QED
    BY <1>1, <1>2, <2>1 DEF Dead
<1>5. CASE Replaces(t)
  <2>1. CASE cell[i].index = Empty
    <3>1. cell'[i].cycle = Cycle(T) /\ cell'[i].index = Empty
      BY <1>1, <1>2, <1>5, <2>1 DEF Replaces, Stores
    <3> QED
      BY <1>1, <1>2, <3>1 DEF Dead
  <2>2. CASE cell[i].index # Empty
    <3>1. cell'[i].cycle = cell[i].cycle /\ ~cell'[i].safe /\ cell'[i].index # Empty
      BY <1>1, <1>2, <1>5, <2>2 DEF Replaces, Stores
    <3>2. cell[i].cycle < Cycle(T)
      BY <1>2, <1>5 DEF Replaces, Typed
    <3>3. ~Risk(T)'
      BY <1>1, <1>2, <2>2, <3>1, NoNewRisk, NoRiskWithIndex
    <3> QED
      BY <1>1, <1>2, <3>1, <3>2, <3>3 DEF Dead
  <2> QED
    BY <2>1, <2>2
<1> QED
  BY <1>3, <1>4, <1>5

\* Tickets that are left are dead, and stay so.
LEMMA LeftKept ==
  ASSUME Typed, Typed', TicketInv, NEW t \in Threads, Outcome(t)
  PROVE  LeftIsDead'
<1> SUFFICES ASSUME NEW T \in Nat, T < ringHead', ~Served(T)'
             PROVE  Dead(T)'
  BY DEF LeftIsDead
<1>1. CASE T < ringHead /\ ~Served(T)
  BY <1>1, DeadStaysDead DEF TicketInv, LeftIsDead
<1>2. CASE Served(T)
  <2>1. /\ op[t].pc \in TicketPcs /\ op[t].ticket = T
        /\ Passes(t) \/ Takes(t) \/ Replaces(t)
    BY <1>2, ServedKept
  <2> QED
    BY <2>1, LeavesItDead
<1>3. CASE ~(T < ringHead) /\ ~Served(T)
  <2>1. Claims(t)
    BY <1>3 DEF Outcome, Enters, EnqueueOutcome, DequeueOutcome, Draws, Judges, Dares, Restarts,
       Commits, Raises, Decides, Waits, Again, Prepares, Passes, Takes, Replaces, Searches,
       Quiet, Stores
  <2>2. T = ringHead /\ op'[t].ticket = T /\ op'[t].pc = "D_load"
    BY <1>3, <2>1 DEF Claims, Typed
  <2> QED
    BY <2>2 DEF Served, TicketPcs
<1> QED
  BY <1>1, <1>2, <1>3

\* The invariant of the tickets is kept by every step.
LEMMA TicketInvKept ==
  ASSUME Typed, Typed', TicketInv, NEW t \in Threads, Outcome(t)
  PROVE  TicketInv'
<1>1. CallsAreSound'
  BY SoundKept DEF TicketInv
<1> QED
  BY <1>1, DrawnKept, FilledKept, ViewsKept, UsedUpKept, LeftKept, TakesKept DEF TicketInv
-----------------------------------------------------------------------------
(* What the client sees: where an index is, and in which order they come out.*)

\* An index is in one place: the pool, one call, or one cell.
Carries(t, v) == op[t].arg = v /\ op[t].pc \in EnqueuingPcs \cup {"D_done"}
InCell(v, i) == i \in 0..(N - 1) /\ cell[i].index = v
OneCarrier(v) == \A t, u \in Threads : Carries(t, v) /\ Carries(u, v) => t = u
OneCell(v) == \A i, j : InCell(v, i) /\ InCell(v, j) => i = j
Placed(v) ==
  /\ v \in pool \/ (\E t \in Threads : Carries(t, v)) \/ (\E i : InCell(v, i))
  /\ v \in pool => (\A t \in Threads : ~Carries(t, v)) /\ (\A i : ~InCell(v, i))
  /\ (\E t \in Threads : Carries(t, v)) => \A i : ~InCell(v, i)
  /\ OneCarrier(v) /\ OneCell(v)

\* An index that was in the ring when an enqueue began is in a cell of an
\* earlier ticket or has come out, as long as that enqueue's index is not back.
Stays(a) == a \notin pool /\ \A t \in Threads : op[t].pc \in EnqueuingPcs => op[t].arg # a
Below(a, n) == \A i : InCell(a, i) => TicketOf(i) < n
Precedes(a, b) ==
  /\ b \notin pool /\ Stays(a)
  /\ \A j : InCell(b, j) => Below(a, TicketOf(j))
  /\ \A t \in Threads : op[t].arg = b =>
       /\ op[t].pc \in LatePcs => Below(a, op[t].ticket)
       /\ op[t].pc = "D_done" => Below(a, ringHead)
Overtaken(a) == Stays(a) /\ Below(a, ringHead)
Missed(a, t) ==
  /\ Overtaken(a)
  /\ op[t].pc \in TicketPcs => Below(a, op[t].ticket)
  /\ op[t].pc = "D_done" => op[t].arg # a
OrderInv ==
  /\ \A b \in Indexes : \A a \in before[b] : Precedes(a, b)
  /\ \A a \in overtaken : Overtaken(a)
  /\ \A t \in Threads : \A a \in late[t] : Dequeuing(t) /\ Missed(a, t)

ObserversTyped == /\ overtaken \subseteq Indexes /\ before \in [Indexes -> SUBSET Indexes]
                  /\ late \in [Threads -> SUBSET Indexes]

\* The strengthened invariant.
ServiceInv ==
  LapInv /\ TicketInv /\ ObserversTyped /\ (\A v \in Indexes : Placed(v)) /\ OrderInv

\* The ticket of a cell is a number, before and after a step.
LEMMA TicketsOfCells == Typed => \A i \in 0..(N - 1) : TicketOf(i) \in Int
<1> SUFFICES ASSUME Typed, NEW i \in 0..(N - 1) PROVE TicketOf(i) \in Int
  OBVIOUS
<1>1. cell[i].cycle * N \in Int /\ i \in Int
  BY LapsApart, Sizes DEF Typed
<1> QED
  BY <1>1 DEF TicketOf

LEMMA TicketsOfCellsNext == Typed' => \A i \in 0..(N - 1) : TicketOf(i)' \in Int
<1> SUFFICES ASSUME Typed', NEW i \in 0..(N - 1) PROVE TicketOf(i)' \in Int
  OBVIOUS
<1>1. cell'[i].cycle * N \in Int /\ i \in Int
  BY LapsApart, Sizes DEF Typed
<1> QED
  BY <1>1 DEF TicketOf

\* The indexes in the cells, before and after a step.
LEMMA Elements ==
  ASSUME Typed, Typed', TicketInv, NEW t \in Threads, Outcome(t)
  PROVE  \A i \in 0..(N - 1) :
           /\ cell'[i].index \in Indexes =>
                \/ cell[i].index = cell'[i].index /\ TicketOf(i)' = TicketOf(i)
                \/ /\ Commits(t) /\ i = Cell(op[t].ticket) /\ cell'[i].index = op[t].arg
                   /\ cell[i].index = Empty /\ TicketOf(i)' = op[t].ticket
           /\ cell[i].index \in Indexes =>
                \/ cell[i].index = cell'[i].index
                \/ Takes(t) /\ i = Cell(op[t].ticket) /\ cell'[i].index = Empty
<1> SUFFICES ASSUME NEW i \in 0..(N - 1)
             PROVE  /\ cell'[i].index \in Indexes =>
                         \/ cell[i].index = cell'[i].index /\ TicketOf(i)' = TicketOf(i)
                         \/ /\ Commits(t) /\ i = Cell(op[t].ticket) /\ cell'[i].index = op[t].arg
                            /\ cell[i].index = Empty /\ TicketOf(i)' = op[t].ticket
                    /\ cell[i].index \in Indexes =>
                         \/ cell[i].index = cell'[i].index
                         \/ Takes(t) /\ i = Cell(op[t].ticket) /\ cell'[i].index = Empty
  OBVIOUS
<1>0. /\ cell'[i] = cell[i] => TicketOf(i)' = TicketOf(i)
      /\ cell'[i].cycle = cell[i].cycle => TicketOf(i)' = TicketOf(i)
  BY DEF TicketOf
<1>1. CASE UNCHANGED cell
  BY <1>0, <1>1
<1>2. CASE Commits(t)
  <2>1. CASE i # Cell(op[t].ticket)
    BY <1>0, <1>2, <2>1 DEF Commits, Stores
  <2>2. CASE i = Cell(op[t].ticket)
    <3>1. cell[i].index = Empty
      BY <1>2, <2>2 DEF Commits, Here, TicketInv, CallsAreSound, Sound
    <3>2. cell'[i].cycle = Cycle(op[t].ticket) /\ cell'[i].index = op[t].arg
      BY <1>2, <2>2 DEF Commits, Stores, Lap
    <3>3. TicketOf(i)' = Cycle(op[t].ticket) * N + i
      BY <3>2 DEF TicketOf
    <3>4. op[t].ticket \in Nat
      BY <1>2 DEF Commits, TicketInv, TicketsAreDrawn, LatePcs
    <3>5. TicketOf(i)' = op[t].ticket
      BY <2>2, <3>3, <3>4, Split
    <3> QED
      BY <1>2, <2>2, <3>1, <3>2, <3>5, EmptyIsNoIndex
  <2> QED
    BY <2>1, <2>2
<1>3. CASE Takes(t)
  BY <1>0, <1>3, EmptyIsNoIndex DEF Takes, Stores, Here
<1>4. CASE Replaces(t)
  BY <1>0, <1>4, EmptyIsNoIndex DEF Replaces, Stores, Here
<1> QED
  BY <1>1, <1>2, <1>3, <1>4, Touches
-----------------------------------------------------------------------------
(* Where an index is.                                                       *)

Enqueues(t, v) ==
  /\ op[t].pc = "idle" /\ op'[t].pc = "E_ticket" /\ op'[t].arg = v /\ Quiet
  /\ v \in pool /\ pool' = pool \ {v}
  /\ before' = [before EXCEPT ![v] = InRing] /\ UNCHANGED <<overtaken, late>>
Dequeues(t) ==
  /\ op[t].pc = "idle" /\ op'[t].pc \in {"D_size_tail", "D_threshold"} /\ Quiet
  /\ late' = [late EXCEPT ![t] = overtaken] /\ UNCHANGED <<pool, before, overtaken>>
Returns(t) ==
  /\ op[t].pc \in {"E_done", "D_done"} /\ op'[t].pc = "idle" /\ Quiet
  /\ op[t].pc = "E_done" \/ op[t].arg \notin Indexes
  /\ UNCHANGED <<pool, before, overtaken>>
  /\ \A u \in Threads : late'[u] = (IF u = t /\ op[t].pc = "D_done" THEN {} ELSE late[u])
HandsOut(t, v) ==
  /\ op[t].pc = "D_done" /\ op'[t].pc = "idle" /\ op[t].arg = v /\ v \in Indexes /\ Quiet
  /\ pool' = pool \cup {v}
  /\ before' = [u \in Indexes |-> IF u = v THEN {} ELSE before[u] \ {v}]
  /\ overtaken' = (overtaken \cup before[v]) \ {v}
  /\ late' = [u \in Threads |-> IF u = t THEN {} ELSE late[u] \ {v}]
Works(t) ==
  /\ EnqueueOutcome(t) \/ DequeueOutcome(t)
  /\ UNCHANGED <<pool, before, overtaken, late>>

\* What a step is for the client.
LEMMA ClientOutcome ==
  ASSUME LapInv, ObserversTyped, NEW t \in Threads, ThreadStep(t)
  PROVE  \/ Dequeues(t) \/ Returns(t) \/ Works(t)
         \/ \E v \in Indexes : Enqueues(t, v) \/ HandsOut(t, v)
<1>0. /\ pool \subseteq Indexes /\ late \in [Threads -> SUBSET Indexes]
      /\ \A f : SetFrame(t, f) => op'[t] = f
  BY Becomes DEF ObserversTyped, LapInv
<1>1. Idle.pc = "idle"
  BY DEF Idle, Frame
<1>2. CASE BeginEnqueue(t)
  <2>1. PICK v \in pool :
          /\ op[t] = Idle /\ SetFrame(t, Frame("E_ticket", v, freeList)) /\ Quiet
          /\ pool' = pool \ {v}
          /\ before' = [before EXCEPT ![v] = InRing] /\ UNCHANGED <<overtaken, late>>
    BY <1>2 DEF BeginEnqueue, CallEnqueue, Quiet
  <2>2. op'[t].pc = "E_ticket" /\ op'[t].arg = v
    BY <1>0, <2>1, Begun
  <2> QED
    BY <1>0, <1>1, <2>1, <2>2 DEF Enqueues
<1>3. CASE BeginDequeue(t)
  <2>1. PICK pc \in {"D_size_tail", "D_threshold"} :
          op[t] = Idle /\ SetFrame(t, Frame(pc, Invalid, freeList)) /\ Quiet
    BY <1>3 DEF BeginDequeue, CallDequeue, Quiet
  <2>2. op'[t].pc = pc
    BY <1>0, <2>1, Begun
  <2> QED
    BY <1>1, <1>3, <2>1, <2>2 DEF BeginDequeue, Dequeues
<1>4. CASE EndEnqueue(t)
  <2>1. op[t].pc = "E_done" /\ SetFrame(t, Idle) /\ Quiet
    BY <1>4 DEF EndEnqueue, RingReturn, Quiet
  <2>2. op'[t].pc = "idle"
    BY <1>0, <1>1, <2>1
  <2> QED
    BY <1>0, <1>4, <2>1, <2>2 DEF EndEnqueue, Returns
<1>5. CASE EndDequeue(t)
  <2>1. op[t].pc = "D_done" /\ SetFrame(t, Idle) /\ Quiet
    BY <1>5 DEF EndDequeue, RingReturn, Quiet
  <2>2. op'[t].pc = "idle"
    BY <1>0, <1>1, <2>1
  <2>3. CASE op[t].arg \in Indexes
    BY <1>5, <2>1, <2>2, <2>3 DEF EndDequeue, HandsOut
  <2>4. CASE op[t].arg \notin Indexes
    BY <1>0, <1>5, <2>1, <2>2, <2>4 DEF EndDequeue, Returns
  <2> QED
    BY <2>3, <2>4
<1>6. CASE Step(t)
  BY <1>6, EnqueueOutcomes, DequeueOutcomes DEF Works, Step, RingStep
<1> QED
  BY <1>2, <1>3, <1>4, <1>5, <1>6 DEF ThreadStep

\* A call of enqueue carries its index until it commits it, a call of dequeue
\* has none before it takes one.
LEMMA Carrying ==
  ASSUME NEW t \in Threads, Works(t)
  PROVE  /\ op[t].pc \notin {"D_done", "E_done", "idle"}
         /\ op'[t].pc \in EnqueuingPcs => op[t].pc \in EnqueuingPcs /\ op'[t].arg = op[t].arg
         /\ op[t].pc \in EnqueuingPcs => op'[t].pc \in EnqueuingPcs \/ Commits(t)
         /\ op'[t].pc = "D_done" => Takes(t) \/ op'[t].arg \in {Invalid, Overflow}
<1>1. CASE EnqueueOutcome(t)
  BY <1>1 DEF EnqueueOutcome, Draws, Judges, Dares, Restarts, Commits, Raises, KeepsCall,
       EnqueuingPcs
<1>2. CASE DequeueOutcome(t)
  BY <1>2 DEF DequeueOutcome, Claims, Decides, Waits, Again, Prepares, Passes, Takes, Replaces,
       Searches, FreePcs, DequeuePcs, TicketPcs, EnqueuingPcs
<1> QED
  BY <1>1, <1>2 DEF Works

\* A step of enqueue or dequeue moves an index from a call to one cell, from
\* one cell to a call, or leaves all of them where they are.
LEMMA WorkPlaces ==
  ASSUME Typed, Typed', TicketInv, NEW t \in Threads, Outcome(t), Works(t),
         \A v \in Indexes : Placed(v), NEW v \in Indexes
  PROVE  Placed(v)'
<1>0. /\ \A u \in Threads \ {t} : op'[u] = op[u]
      /\ pool' = pool /\ Placed(v)
  BY DEF Outcome, Works
<1>1. v # Empty /\ v # Invalid /\ v # Overflow
  BY AnswerAssumption, EmptyIsNoIndex
<1>2. PICK c \in 0..(N - 1) : c = Cell(op[t].ticket)
  BY DEF Typed
<1>3. CASE Commits(t)
  <2>1. /\ op[t].pc = "E_cas" /\ op'[t].pc \in {"E_threshold", "E_done"}
        /\ \A i \in 0..(N - 1) :
             cell'[i].index = IF i = c THEN op[t].arg ELSE cell[i].index
        /\ cell[c].index = Empty
    BY <1>2, <1>3 DEF Commits, Stores, Here, TicketInv, CallsAreSound, Sound
  <2>2. CASE v = op[t].arg
    <3>1. Carries(t, v)
      BY <2>1, <2>2 DEF Carries, EnqueuingPcs
    <3>2. (\A i : ~InCell(v, i)) /\ v \notin pool /\ (\A u \in Threads \ {t} : ~Carries(u, v))
      BY <1>0, <3>1 DEF Placed, OneCarrier
    <3>3. \A u \in Threads : ~Carries(u, v)'
      BY <1>0, <2>1, <3>2 DEF Carries, EnqueuingPcs
    <3>4. \A i : InCell(v, i)' <=> i = c
      BY <2>1, <2>2, <3>2 DEF InCell
    <3> QED
      BY <1>0, <3>2, <3>3, <3>4 DEF Placed, OneCarrier, OneCell
  <2>3. CASE v # op[t].arg
    <3>1. \A u \in Threads : Carries(u, v)' <=> Carries(u, v)
      BY <1>0, <2>1, <2>3 DEF Carries, EnqueuingPcs
    <3>2. \A i : InCell(v, i)' <=> InCell(v, i)
      BY <1>1, <2>1, <2>3 DEF InCell
    <3> QED
      BY <1>0, <3>1, <3>2 DEF Placed, OneCarrier, OneCell
  <2> QED
    BY <2>2, <2>3
<1>4. CASE Takes(t)
  <2>1. /\ op[t].pc = "D_take" /\ op'[t].pc = "D_done" /\ op'[t].arg = op[t].entry.index
        /\ \A i \in 0..(N - 1) :
             cell'[i].index = IF i = c THEN Empty ELSE cell[i].index
        /\ cell[c].index = op[t].entry.index
    BY <1>2, <1>4 DEF Takes, Stores, Here, TicketInv, TakesWhatItSaw
  <2>2. CASE v = op[t].entry.index
    <3>1. InCell(v, c)
      BY <1>2, <2>1, <2>2 DEF InCell
    <3>2. v \notin pool /\ (\A u \in Threads : ~Carries(u, v)) /\ (\A i : InCell(v, i) => i = c)
      BY <1>0, <3>1 DEF Placed, OneCell
    <3>3. \A i : ~InCell(v, i)'
      BY <1>1, <2>1, <3>2 DEF InCell
    <3>4. \A u \in Threads : Carries(u, v)' <=> u = t
      BY <1>0, <2>1, <2>2, <3>2 DEF Carries
    <3> QED
      BY <1>0, <3>2, <3>3, <3>4 DEF Placed, OneCarrier, OneCell
  <2>3. CASE v # op[t].entry.index
    <3>1. \A u \in Threads : Carries(u, v)' <=> Carries(u, v)
      BY <1>0, <2>1, <2>3 DEF Carries, EnqueuingPcs
    <3>2. \A i : InCell(v, i)' <=> InCell(v, i)
      BY <1>1, <2>1, <2>3 DEF InCell
    <3> QED
      BY <1>0, <3>1, <3>2 DEF Placed, OneCarrier, OneCell
  <2> QED
    BY <2>2, <2>3
<1>5. CASE ~Commits(t) /\ ~Takes(t)
  <2>1. \A u \in Threads : Carries(u, v)' <=> Carries(u, v)
    BY <1>0, <1>1, <1>5, Carrying DEF Carries
  <2>2. \A i : InCell(v, i)' <=> InCell(v, i)
    BY <1>5, Elements DEF InCell
  <2> QED
    BY <1>0, <2>1, <2>2 DEF Placed, OneCarrier, OneCell
<1> QED
  BY <1>3, <1>4, <1>5

\* So do the calls and returns, between the pool and a call.
LEMMA PlacesKept ==
  ASSUME LapInv, ObserversTyped, Typed, Typed', TicketInv, NEW t \in Threads, ThreadStep(t),
         \A v \in Indexes : Placed(v), NEW v \in Indexes
  PROVE  Placed(v)'
<1>0. Outcome(t) /\ \A u \in Threads \ {t} : op'[u] = op[u]
  BY StepOutcome DEF Outcome
<1>1. Quiet => \A i : InCell(v, i)' <=> InCell(v, i)
  BY DEF Quiet, InCell
<1>2. Placed(v)
  OBVIOUS
<1>3. CASE Dequeues(t) \/ Returns(t)
  <2>1. Quiet /\ pool' = pool
    BY <1>3 DEF Dequeues, Returns
  <2>2. \A u \in Threads : Carries(u, v)' <=> Carries(u, v)
    BY <1>0, <1>3 DEF Dequeues, Returns, Carries, EnqueuingPcs
  <2> QED
    BY <1>1, <1>2, <2>1, <2>2 DEF Placed, OneCarrier, OneCell
<1>4. ASSUME NEW a \in Indexes, Enqueues(t, a)
      PROVE  Placed(v)'
  <2>1. CASE v = a
    <3>1. \A u \in Threads : Carries(u, v)' <=> u = t
      BY <1>0, <1>2, <1>4, <2>1 DEF Enqueues, Placed, Carries, EnqueuingPcs
    <3> QED
      BY <1>1, <1>2, <1>4, <2>1, <3>1 DEF Enqueues, Placed, OneCarrier, OneCell
  <2>2. CASE v # a
    <3>1. \A u \in Threads : Carries(u, v)' <=> Carries(u, v)
      BY <1>0, <1>4, <2>2 DEF Enqueues, Carries, EnqueuingPcs
    <3> QED
      BY <1>1, <1>2, <1>4, <2>2, <3>1 DEF Enqueues, Placed, OneCarrier, OneCell
  <2> QED
    BY <2>1, <2>2
<1>5. ASSUME NEW a \in Indexes, HandsOut(t, a)
      PROVE  Placed(v)'
  <2>1. CASE v = a
    <3>1. Carries(t, v)
      BY <1>5, <2>1 DEF HandsOut, Carries
    <3>2. \A u \in Threads : ~Carries(u, v)'
      BY <1>0, <1>2, <1>5, <3>1 DEF HandsOut, Placed, OneCarrier, Carries, EnqueuingPcs
    <3> QED
      BY <1>1, <1>2, <1>5, <2>1, <3>1, <3>2 DEF HandsOut, Placed, OneCarrier, OneCell
  <2>2. CASE v # a
    <3>1. \A u \in Threads : Carries(u, v)' <=> Carries(u, v)
      BY <1>0, <1>5, <2>2 DEF HandsOut, Carries, EnqueuingPcs
    <3> QED
      BY <1>1, <1>2, <1>5, <2>2, <3>1 DEF HandsOut, Placed, OneCarrier, OneCell
  <2> QED
    BY <2>1, <2>2
<1> QED
  BY <1>0, <1>3, <1>4, <1>5, WorkPlaces, ClientOutcome
-----------------------------------------------------------------------------
(* In which order the indexes come out.                                     *)

\* Who dequeues goes on dequeuing.
LEMMA DequeuesOn ==
  ASSUME NEW t \in Threads, Works(t), Dequeuing(t)
  PROVE  Dequeuing(t)'
<1>1. op[t].pc \in DequeuePcs
  BY Carrying DEF Dequeuing
<1>2. ~EnqueueOutcome(t)
  BY <1>1 DEF EnqueueOutcome, Draws, Judges, Dares, Restarts, Commits, Raises, DequeuePcs,
       TicketPcs
<1>3. DequeueOutcome(t)
  BY <1>2 DEF Works
<1> QED
  BY <1>1, <1>3 DEF DequeueOutcome, Claims, Decides, Waits, Again, Prepares, Passes, Takes,
       Replaces, Searches, FreePcs, Dequeuing, DequeuePcs, TicketPcs

\* What has left the pool and the enqueuers comes back to them by a return only.
LEMMA StaysOn ==
  ASSUME NEW t \in Threads, Outcome(t), Works(t), NEW a, Stays(a)
  PROVE  Stays(a)'
BY Carrying DEF Outcome, Works, Stays

\* An index that is not being enqueued only leaves its cell.
LEMMA BelowKept ==
  ASSUME Typed, Typed', TicketInv, NEW t \in Threads, Outcome(t), Works(t),
         NEW a \in Indexes, Stays(a), NEW n, Below(a, n)
  PROVE  Below(a, n)'
<1>1. ~(Commits(t) /\ op[t].arg = a)
  BY DEF Commits, Stays, EnqueuingPcs
<1> QED
  BY <1>1, Elements DEF Below, InCell

\* An index below a ticket is below a later one.
LEMMA BelowMore ==
  ASSUME Typed, NEW a, NEW m \in Int, NEW n \in Int, m <= n, Below(a, m)
  PROVE  Below(a, n)
BY TicketsOfCells DEF Below, InCell

LEMMA BelowMoreNext ==
  ASSUME Typed', NEW a, NEW m \in Int, NEW n \in Int, m <= n, Below(a, m)'
  PROVE  Below(a, n)'
BY TicketsOfCellsNext DEF Below, InCell

\* A dequeuer takes an index of its ticket.
LEMMA TakesItsTicket ==
  ASSUME Typed, TicketInv, NEW t \in Threads, Takes(t)
  PROVE  /\ InCell(op[t].entry.index, Cell(op[t].ticket)) /\ op[t].entry.index \in Indexes
         /\ TicketOf(Cell(op[t].ticket)) = op[t].ticket /\ op[t].ticket < ringHead
<1>1. op[t].pc = "D_take" /\ op[t].ticket \in Nat /\ op[t].ticket < ringHead
  BY DEF Takes, TicketInv, TicketsAreDrawn, TicketPcs
<1>2. /\ Here(t).cycle = Lap(t) /\ Here(t).index = op[t].entry.index
      /\ op[t].entry.index \in Indexes
  BY <1>1 DEF TicketInv, TakesWhatItSaw
<1>3. TicketOf(Cell(op[t].ticket)) = op[t].ticket
  BY <1>1, <1>2, Split DEF TicketOf, Here, Lap
<1> QED
  BY <1>1, <1>2, <1>3, Split DEF InCell, Here

\* An overtaken index stays below the dequeuers' counter.
LEMMA OvertakenKept ==
  ASSUME Typed, Typed', TicketInv, NEW t \in Threads, Outcome(t), Works(t),
         NEW a \in Indexes, Overtaken(a)
  PROVE  Overtaken(a)'
<1>1. Below(a, ringHead)'
  <2>0. PICK n : n = ringHead
    OBVIOUS
  <2>1. Below(a, n)'
    BY <2>0, BelowKept DEF Overtaken
  <2>2. ringHead <= ringHead' /\ ringHead \in Int /\ ringHead' \in Int
    BY CountersGrow DEF Typed, TicketInv
  <2>3. PICK m : m = ringHead'
    OBVIOUS
  <2>4. Below(a, m)'
    BY <2>0, <2>1, <2>2, <2>3, BelowMoreNext
  <2> QED
    BY <2>3, <2>4 DEF Below
<1> QED
  BY <1>1, StaysOn DEF Overtaken

\* A dequeuer that began after an index was overtaken has a later ticket, and
\* does not take it.
LEMMA MissedKept ==
  ASSUME Typed, Typed', TicketInv, NEW t \in Threads, Outcome(t), Works(t),
         NEW a \in Indexes, NEW u \in Threads, Missed(a, u)
  PROVE  Missed(a, u)'
<1>0. \A w \in Threads \ {t} : op'[w] = op[w]
  BY DEF Outcome
<1>1. Overtaken(a)' /\ Overtaken(a)
  BY OvertakenKept DEF Missed
<1>2. ASSUME op'[u].pc \in TicketPcs
      PROVE  Below(a, op[u].ticket)'
  <2>0. PICK n : n = op'[u].ticket
    OBVIOUS
  <2>1. Below(a, n)
    <3>1. CASE u # t
      BY <1>0, <1>2, <2>0, <3>1 DEF Missed
    <3>2. CASE u = t /\ Claims(t)
      BY <1>1, <2>0, <3>2 DEF Overtaken, Claims
    <3>3. CASE u = t /\ ~Claims(t)
      BY <1>2, <2>0, <3>3, Binding DEF Missed
    <3> QED
      BY <3>1, <3>2, <3>3
  <2>2. Below(a, n)'
    BY <1>1, <2>1, BelowKept DEF Overtaken
  <2> QED
    BY <2>0, <2>2
<1>3. ASSUME op'[u].pc = "D_done"
      PROVE  op'[u].arg # a
  <2>1. CASE u # t
    BY <1>0, <1>3, <2>1 DEF Missed
  <2>2. CASE u = t /\ Takes(t)
    <3>0. PICK T : T = op[t].ticket
      OBVIOUS
    <3>1. InCell(op[t].entry.index, Cell(T)) /\ TicketOf(Cell(T)) = T /\ T < ringHead
      BY <2>2, <3>0, TakesItsTicket
    <3>2. Below(a, T)
      BY <2>2, <3>0 DEF Missed, Takes, TicketPcs
    <3>3. op[t].entry.index # a
      BY <3>0, <3>1, <3>2 DEF Below, Typed
    <3> QED
      BY <2>2, <3>3 DEF Takes
  <2>3. CASE u = t /\ op'[t].arg \in {Invalid, Overflow}
    BY <2>3, AnswerAssumption
  <2> QED
    BY <1>3, <2>1, <2>2, <2>3, Carrying
<1> QED
  BY <1>1, <1>2, <1>3 DEF Missed

\* An enqueuer that began when an index was in the ring draws a later ticket,
\* and stores its own index under it.
LEMMA PrecedesKept ==
  ASSUME Typed, Typed', TicketInv, NEW t \in Threads, Outcome(t), Works(t),
         NEW a \in Indexes, NEW b \in Indexes, Precedes(a, b)
  PROVE  Precedes(a, b)'
<1>0. /\ \A u \in Threads \ {t} : op'[u] = op[u]
      /\ pool' = pool /\ b \notin pool /\ Stays(a) /\ Stays(a)'
  BY StaysOn DEF Outcome, Works, Precedes
<1>1. ASSUME NEW j, InCell(b, j)'
      PROVE  Below(a, TicketOf(j))'
  <2>0. PICK n : n = TicketOf(j)'
    OBVIOUS
  <2>1. \/ InCell(b, j) /\ n = TicketOf(j)
        \/ Commits(t) /\ op[t].arg = b /\ n = op[t].ticket
    BY <1>1, <2>0, Elements DEF InCell
  <2>2. Below(a, n)
    BY <2>1 DEF Precedes, Commits, LatePcs
  <2>3. Below(a, n)'
    BY <1>0, <2>2, BelowKept
  <2> QED
    BY <2>0, <2>3
<1>2. ASSUME NEW u \in Threads, op'[u].arg = b, op'[u].pc \in LatePcs
      PROVE  Below(a, op[u].ticket)'
  <2>0. PICK n : n = op'[u].ticket
    OBVIOUS
  <2>1. Below(a, n)
    <3>1. CASE u # t
      BY <1>0, <1>2, <2>0, <3>1 DEF Precedes
    <3>2. CASE u = t /\ Draws(t)
      <4> SUFFICES ASSUME NEW i, InCell(a, i) PROVE TicketOf(i) < n
        BY DEF Below
      <4>1. Committed(i) /\ i \in 0..(N - 1)
        BY EmptyIsNoIndex DEF InCell, Committed
      <4>2. TicketOf(i) < ringTail
        BY <4>1 DEF TicketInv, FilledByTicket
      <4> QED
        BY <2>0, <3>2, <4>2 DEF Draws
    <3>3. CASE u = t /\ ~Draws(t)
      BY <1>2, <2>0, <3>3, LateBinding DEF Precedes
    <3> QED
      BY <3>1, <3>2, <3>3
  <2>2. Below(a, n)'
    BY <1>0, <2>1, BelowKept
  <2> QED
    BY <2>0, <2>2
<1>3. ASSUME NEW u \in Threads, op'[u].arg = b, op'[u].pc = "D_done"
      PROVE  Below(a, ringHead)'
  <2>0. PICK n : n = ringHead
    OBVIOUS
  <2>1. Below(a, n)
    <3>1. CASE u # t
      BY <1>0, <1>3, <2>0, <3>1 DEF Precedes
    <3>2. CASE u = t
      <4>0. PICK T : T = op[t].ticket
        OBVIOUS
      <4>1. Takes(t) /\ op[t].entry.index = b
        BY <1>3, <3>2, Carrying, AnswerAssumption DEF Takes
      <4>2. InCell(b, Cell(T)) /\ TicketOf(Cell(T)) = T /\ T < ringHead
        BY <4>0, <4>1, TakesItsTicket
      <4>3. Below(a, T)
        BY <4>2 DEF Precedes
      <4>4. T \in Int /\ n \in Int /\ T <= n
        BY <2>0, <4>0, <4>2 DEF Typed
      <4> QED
        BY <4>3, <4>4, BelowMore
    <3> QED
      BY <3>1, <3>2
  <2>2. Below(a, n)'
    BY <1>0, <2>1, BelowKept
  <2>3. ringHead <= ringHead' /\ ringHead \in Int /\ ringHead' \in Int
    BY CountersGrow DEF Typed, TicketInv
  <2>4. PICK m : m = ringHead'
    OBVIOUS
  <2>5. Below(a, m)'
    BY <2>0, <2>2, <2>3, <2>4, BelowMoreNext
  <2> QED
    BY <2>4, <2>5 DEF Below
<1> QED
  BY <1>0, <1>1, <1>2, <1>3 DEF Precedes

\* The calls and the returns leave the ring alone.
LEMMA OrderKept ==
  ASSUME LapInv, ObserversTyped, Typed, Typed', TicketInv, NEW t \in Threads, ThreadStep(t),
         \A v \in Indexes : Placed(v), OrderInv
  PROVE  OrderInv'
<1>0. /\ Outcome(t) /\ \A u \in Threads \ {t} : op'[u] = op[u]
      /\ overtaken \subseteq Indexes /\ before \in [Indexes -> SUBSET Indexes]
      /\ late \in [Threads -> SUBSET Indexes]
  BY StepOutcome DEF Outcome, ObserversTyped
<1>1. CASE Works(t)
  <2>1. \A u \in Threads : Dequeuing(u) => Dequeuing(u)'
    BY <1>0, <1>1, DequeuesOn DEF Dequeuing
  <2>2. before' = before /\ overtaken' = overtaken /\ late' = late
    BY <1>1 DEF Works
  <2>3. \A b \in Indexes : \A a \in before[b] : Precedes(a, b)'
    BY <1>0, <1>1, PrecedesKept DEF OrderInv
  <2>4. \A a \in overtaken : Overtaken(a)'
    BY <1>0, <1>1, OvertakenKept DEF OrderInv
  <2>5. \A u \in Threads : \A a \in late[u] : Dequeuing(u)' /\ Missed(a, u)'
    BY <1>0, <1>1, <2>1, MissedKept DEF OrderInv
  <2> QED
    BY <2>2, <2>3, <2>4, <2>5 DEF OrderInv
\* Of an index that stays, the other calls and returns change nothing.
<1>2. ASSUME Quiet, op'[t].pc \notin LatePcs \cup DequeuePcs \cup {"D_done"} \/ Dequeues(t),
             NEW a, Stays(a), a \notin pool', op'[t].pc = "E_ticket" => op'[t].arg # a
      PROVE  /\ Stays(a)'
             /\ \A b \in Indexes : b \notin pool' /\ Precedes(a, b) => Precedes(a, b)'
             /\ Overtaken(a) => Overtaken(a)'
             /\ \A u \in Threads \ {t} : Missed(a, u) => Missed(a, u)'
  <2>1. UNCHANGED <<ringHead, cell>>
    BY <1>2 DEF Quiet
  <2>2. \A i : InCell(a, i)' <=> InCell(a, i)
    BY <2>1 DEF InCell
  <2>3. op'[t].pc \notin LatePcs \cup {"D_done"}
    BY <1>2 DEF Dequeues, LatePcs
  <2>4. Stays(a)'
    BY <1>0, <1>2, <2>3 DEF Stays, LatePcs, EnqueuingPcs
  <2>5. \A i : TicketOf(i)' = TicketOf(i)
    BY <2>1 DEF TicketOf
  <2>6. \A n : Below(a, n) => Below(a, n)'
    BY <2>2, <2>5 DEF Below
  <2>7. Overtaken(a) => Overtaken(a)'
    <3>1. PICK n : n = ringHead
      OBVIOUS
    <3>2. Overtaken(a) => Below(a, n)'
      BY <2>6, <3>1 DEF Overtaken
    <3> QED
      BY <2>1, <2>4, <3>1, <3>2 DEF Overtaken, Below
  <2>8. ASSUME NEW b \in Indexes, b \notin pool', Precedes(a, b)
        PROVE  Precedes(a, b)'
    <3>1. ASSUME NEW j, InCell(b, j)' PROVE Below(a, TicketOf(j))'
      BY <2>1, <2>2, <2>5, <2>8, <3>1 DEF Precedes, Below, InCell
    <3>2. ASSUME NEW u \in Threads, op'[u].arg = b
          PROVE  /\ op'[u].pc \in LatePcs => Below(a, op[u].ticket)'
                 /\ op'[u].pc = "D_done" => Below(a, ringHead)'
      BY <1>0, <2>1, <2>2, <2>3, <2>5, <2>8, <3>2 DEF Precedes, Below
    <3> QED
      BY <2>4, <2>8, <3>1, <3>2 DEF Precedes
  <2>9. ASSUME NEW u \in Threads \ {t}, Missed(a, u) PROVE Missed(a, u)'
    <3>1. op'[u] = op[u]
      BY <1>0
    <3>2. op[u].pc \in TicketPcs => Below(a, op[u].ticket)'
      BY <2>2, <2>5, <2>9, <3>1 DEF Missed, Below
    <3> QED
      BY <2>7, <2>9, <3>1, <3>2 DEF Missed
  <2> QED
    BY <2>4, <2>7, <2>8, <2>9
<1>3. \A u \in Threads \ {t} : Dequeuing(u) => Dequeuing(u)'
  BY <1>0 DEF Dequeuing
<1>4. /\ \A b \in Indexes : \A a \in before[b] : Precedes(a, b)
      /\ \A a \in overtaken : Overtaken(a)
      /\ \A u \in Threads : \A a \in late[u] : Dequeuing(u) /\ Missed(a, u)
  BY DEF OrderInv
<1>5. op[t].pc \in {"idle", "E_done"} => late[t] = {}
  BY <1>4 DEF Dequeuing, DequeuePcs, TicketPcs
<1>6. CASE Dequeues(t)
  <2>1. Quiet /\ UNCHANGED <<pool, before, overtaken>> /\ op'[t].pc \in {"D_size_tail", "D_threshold"}
        /\ late' = [late EXCEPT ![t] = overtaken]
    BY <1>6 DEF Dequeues
  <2>2. \A b \in Indexes : \A a \in before[b] : Precedes(a, b)'
    BY <1>2, <1>4, <1>6, <2>1 DEF Precedes, Stays
  <2>3. \A a \in overtaken : Overtaken(a)'
    BY <1>2, <1>4, <1>6, <2>1 DEF Overtaken, Stays
  <2>4. \A a \in overtaken : Dequeuing(t)' /\ Missed(a, t)'
    BY <2>1, <2>3 DEF Missed, Dequeuing, DequeuePcs, TicketPcs
  <2>5. \A u \in Threads \ {t} : \A a \in late[u] : Dequeuing(u)' /\ Missed(a, u)'
    BY <1>2, <1>3, <1>4, <1>6, <2>1 DEF Missed, Overtaken, Stays
  <2>6. \A u \in Threads : late'[u] = (IF u = t THEN overtaken ELSE late[u])
    BY <1>0, <2>1
  <2> QED
    BY <2>1, <2>2, <2>3, <2>4, <2>5, <2>6 DEF OrderInv
<1>7. CASE Returns(t)
  <2>1. Quiet /\ UNCHANGED <<pool, before, overtaken>> /\ op'[t].pc = "idle"
    BY <1>7 DEF Returns
  <2>2. op'[t].pc \notin LatePcs \cup DequeuePcs \cup {"D_done"}
    BY <2>1 DEF LatePcs, DequeuePcs, TicketPcs
  <2>3. \A b \in Indexes : \A a \in before[b] : Precedes(a, b)'
    BY <1>2, <1>4, <2>1, <2>2 DEF Precedes, Stays
  <2>4. \A a \in overtaken : Overtaken(a)'
    BY <1>2, <1>4, <2>1, <2>2 DEF Overtaken, Stays
  <2>5. \A u \in Threads \ {t} : \A a \in late[u] : Dequeuing(u)' /\ Missed(a, u)'
    BY <1>2, <1>3, <1>4, <2>1, <2>2 DEF Missed, Overtaken, Stays
  <2>6. late'[t] = {} /\ \A u \in Threads \ {t} : late'[u] = late[u]
    BY <1>5, <1>7 DEF Returns
  <2> QED
    BY <2>1, <2>3, <2>4, <2>5, <2>6 DEF OrderInv
<1>8. ASSUME NEW v \in Indexes, Enqueues(t, v)
      PROVE  OrderInv'
  <2>1. /\ Quiet /\ op[t].pc = "idle" /\ op'[t].pc = "E_ticket" /\ op'[t].arg = v
        /\ v \in pool /\ pool' = pool \ {v} /\ UNCHANGED <<overtaken, late>>
        /\ \A b \in Indexes : before'[b] = (IF b = v THEN InRing ELSE before[b])
    BY <1>0, <1>8 DEF Enqueues
  <2>2. op'[t].pc \notin LatePcs \cup DequeuePcs \cup {"D_done"}
    BY <2>1 DEF LatePcs, DequeuePcs, TicketPcs
  <2>3. \A b \in Indexes \ {v} : \A a \in before[b] : Precedes(a, b)'
    BY <1>2, <1>4, <2>1, <2>2 DEF Precedes, Stays
  <2>4. \A a \in overtaken : Overtaken(a)'
    BY <1>2, <1>4, <2>1, <2>2 DEF Overtaken, Stays
  <2>5. \A u \in Threads \ {t} : \A a \in late[u] : Dequeuing(u)' /\ Missed(a, u)'
    BY <1>2, <1>3, <1>4, <2>1, <2>2 DEF Missed, Overtaken, Stays
  <2>6. ASSUME NEW a \in InRing
        PROVE  Precedes(a, v)'
    <3>1. PICK i : a \in Indexes /\ InCell(a, i)
      BY DEF InRing, Committed, InCell, LapInv, TicketInv, CallsAreSound
    <3>2. a \notin pool /\ (\A u \in Threads : ~Carries(u, a)) /\ a # v
      BY <2>1, <3>1 DEF Placed
    <3>3. Stays(a)
      BY <3>2 DEF Stays, Carries
    <3>4. Stays(a)'
      BY <1>2, <2>1, <2>2, <3>2, <3>3
    <3>5. (\A j : ~InCell(v, j)) /\ (\A u \in Threads : ~Carries(u, v))
      BY <2>1 DEF Placed
    <3>6. \A j : ~InCell(v, j)'
      BY <2>1, <3>5 DEF Quiet, InCell
    <3>7. \A u \in Threads : op'[u].arg = v => op'[u].pc \notin LatePcs \cup {"D_done"}
      BY <1>0, <2>2, <3>5 DEF Carries, LatePcs, EnqueuingPcs
    <3> QED
      BY <2>1, <3>4, <3>6, <3>7 DEF Precedes
  <2>7. late[t] = {}
    BY <1>5, <2>1
  <2>8. \A b \in Indexes : \A a \in before'[b] : Precedes(a, b)'
    BY <2>1, <2>3, <2>6
  <2>9. \A a \in overtaken' : Overtaken(a)'
    BY <2>1, <2>4
  <2>10. \A u \in Threads : \A a \in late'[u] : Dequeuing(u)' /\ Missed(a, u)'
    BY <2>1, <2>5, <2>7
  <2> QED
    BY <2>8, <2>9, <2>10 DEF OrderInv
<1>9. ASSUME NEW v \in Indexes, HandsOut(t, v)
      PROVE  OrderInv'
  <2>1. /\ Quiet /\ op[t].pc = "D_done" /\ op[t].arg = v /\ op'[t].pc = "idle"
        /\ pool' = pool \cup {v} /\ overtaken' = (overtaken \cup before[v]) \ {v}
        /\ \A b \in Indexes : before'[b] = (IF b = v THEN {} ELSE before[b] \ {v})
        /\ \A u \in Threads : late'[u] = (IF u = t THEN {} ELSE late[u] \ {v})
    BY <1>9 DEF HandsOut
  <2>2. op'[t].pc \notin LatePcs \cup DequeuePcs \cup {"D_done"}
    BY <2>1 DEF LatePcs, DequeuePcs, TicketPcs
  <2>3. \A b \in Indexes \ {v} : \A a \in before[b] \ {v} : Precedes(a, b)'
    BY <1>2, <1>4, <2>1, <2>2 DEF Precedes, Stays
  <2>4. \A a \in overtaken \ {v} : Overtaken(a)'
    BY <1>2, <1>4, <2>1, <2>2 DEF Overtaken, Stays
  <2>5. \A a \in before[v] \ {v} : Overtaken(a)'
    BY <1>2, <1>4, <2>1, <2>2 DEF Precedes, Overtaken, Stays
  <2>6. \A u \in Threads \ {t} : \A a \in late[u] \ {v} : Dequeuing(u)' /\ Missed(a, u)'
    BY <1>2, <1>3, <1>4, <2>1, <2>2 DEF Missed, Overtaken, Stays
  <2>7. \A b \in Indexes : \A a \in before'[b] : Precedes(a, b)'
    BY <2>1, <2>3
  <2>8. \A a \in overtaken' : Overtaken(a)'
    BY <2>1, <2>4, <2>5
  <2>9. \A u \in Threads : \A a \in late'[u] : Dequeuing(u)' /\ Missed(a, u)'
    BY <2>1, <2>6
  <2> QED
    BY <2>7, <2>8, <2>9 DEF OrderInv
<1> QED
  BY <1>1, <1>6, <1>7, <1>8, <1>9, ClientOutcome
-----------------------------------------------------------------------------
(* The theorems about the order and the place of the indexes.               *)

\* The strengthened invariant holds at first, of both rings,
LEMMA InitService == clientInit => ServiceInv
<1> SUFFICES ASSUME clientInit PROVE ServiceInv
  OBVIOUS
<1>1. LapInv
  BY LapInvInit
<1>2. \A t \in Threads : op[t].pc = "idle"
  <2>1. op = [t \in Threads |-> Idle]
    BY DEF clientInit, InitFull, InitCleared
  <2>2. Idle.pc = "idle"
    BY DEF Idle, Frame
  <2> QED
    BY <2>1, <2>2
<1>3. \A i \in 0..(N - 1) : i \in Nat /\ Cell(i) = i /\ Cycle(i) = 0
  BY Sizes DEF Cell, Cycle
<1>4. /\ ringHead = 0 /\ Half \in Nat /\ N \in Nat \ {0} /\ Half <= N
      /\ \/ /\ ringTail = Half /\ pool = {} /\ \A v \in Indexes : before[v] = 0..(v - 1)
            /\ \A i \in 0..(N - 1) : i < Half => cell[i].cycle = 0 /\ cell[i].index = i
            /\ \A i \in 0..(N - 1) : Half <= i => cell[i].cycle = -1 /\ cell[i].index = Empty
         \/ /\ ringTail = 0 /\ pool = Indexes /\ \A v \in Indexes : before[v] = {}
            /\ \A i \in 0..(N - 1) : cell[i].cycle = -1 /\ cell[i].index = Empty
  <2>1. Half \in Nat /\ N \in Nat \ {0} /\ Half <= N
    BY HalfAssumption DEF N
  <2>2. CASE freeList
    BY <2>1, <2>2 DEF clientInit, InitFull, CellWord
  <2>3. CASE ~freeList
    BY <2>1, <2>3 DEF clientInit, InitCleared, CellWord
  <2> QED
    BY <2>1, <2>2, <2>3
<1>5. ObserversTyped /\ overtaken = {} /\ \A t \in Threads : late[t] = {}
  BY HalfAssumption DEF clientInit, ObserversTyped, Indexes
<1>6. \A i \in 0..(N - 1) : i < Half <=> i \in Indexes
  BY <1>4 DEF Indexes
<1>7. TicketInv
  <2>1. CallsAreSound
    <3>1. \A t \in Threads : Sound(t)
      BY <1>2 DEF Sound, EnqueuingPcs
    <3>2. \A i \in 0..(N - 1) : cell[i].index \in Indexes \cup {Empty}
      BY <1>4, <1>6
    <3> QED
      BY <1>4, <3>1, <3>2 DEF CallsAreSound
  <2>2. TicketsAreDrawn /\ ViewsAreOld /\ TakesWhatItSaw
    BY <1>2 DEF TicketsAreDrawn, ViewsAreOld, TakesWhatItSaw, TicketPcs, LatePcs, ViewPcs
  <2>3. FilledByTicket
    BY <1>4 DEF FilledByTicket, Committed, TicketOf
  <2>4. UsedUp
    <3> SUFFICES ASSUME NEW T \in Nat, cell[Cell(T)].cycle = Cycle(T),
                        cell[Cell(T)].index = Empty
                 PROVE  FALSE
      BY DEF UsedUp
    <3>1. Cell(T) \in 0..(N - 1) /\ Cycle(T) \in Nat
      BY Split
    <3> QED
      BY <1>4, <1>6, <3>1, EmptyIsNoIndex
  <2>5. LeftIsDead
    BY <1>4 DEF LeftIsDead
  <2> QED
    BY <2>1, <2>2, <2>3, <2>4, <2>5 DEF TicketInv
<1>8. \A t \in Threads : \A v : ~Carries(t, v)
  BY <1>2 DEF Carries, EnqueuingPcs
<1>9. ASSUME NEW v \in Indexes PROVE Placed(v)
  <2>1. v # Empty /\ v \in 0..(N - 1) /\ v < Half
    BY <1>4, EmptyIsNoIndex DEF Indexes
  <2>2. CASE pool = {}
    <3>1. \A i : InCell(v, i) <=> i = v
      BY <1>4, <2>1, <2>2 DEF InCell
    <3> QED
      BY <1>8, <2>2, <3>1 DEF Placed, OneCarrier, OneCell
  <2>3. CASE pool = Indexes
    <3>1. \A i : ~InCell(v, i)
      BY <1>4, <2>1, <2>3 DEF InCell
    <3> QED
      BY <1>8, <2>3, <3>1 DEF Placed, OneCarrier, OneCell
  <2> QED
    BY <1>4, <2>2, <2>3
<1>10. OrderInv
  <2>1. ASSUME NEW b \in Indexes, NEW a \in before[b]
        PROVE  Precedes(a, b)
    <3>1. /\ pool = {} /\ a \in 0..(b - 1) /\ b \in 0..(Half - 1)
          /\ \A i \in 0..(N - 1) : i < Half => cell[i].cycle = 0 /\ cell[i].index = i
          /\ \A i \in 0..(N - 1) : Half <= i => cell[i].index = Empty
      BY <1>4, <2>1 DEF Indexes
    <3>2. \A i : InCell(a, i) => i = a /\ TicketOf(i) = a
      BY <1>4, <3>1, EmptyIsNoIndex DEF InCell, TicketOf, Indexes
    <3>3. \A i : InCell(b, i) => i = b /\ TicketOf(i) = b
      BY <1>4, <3>1, EmptyIsNoIndex DEF InCell, TicketOf, Indexes
    <3>4. \A i, j : InCell(a, i) /\ InCell(b, j) => TicketOf(i) < TicketOf(j)
      BY <3>1, <3>2, <3>3
    <3> QED
      BY <1>2, <3>1, <3>4 DEF Precedes, Stays, Below, LatePcs, EnqueuingPcs
  <2> QED
    BY <1>5, <2>1 DEF OrderInv
<1> QED
  BY <1>1, <1>5, <1>7, <1>9, <1>10 DEF ServiceInv

\* The observers stay sets of indexes.
LEMMA ObserversKept ==
  ASSUME LapInv, ObserversTyped, TicketInv, NEW t \in Threads, ThreadStep(t)
  PROVE  ObserversTyped'
<1>0. /\ overtaken \subseteq Indexes /\ before \in [Indexes -> SUBSET Indexes]
      /\ late \in [Threads -> SUBSET Indexes]
  BY DEF ObserversTyped
<1>1. CASE BeginEnqueue(t)
  <2>1. InRing \subseteq Indexes
    BY DEF InRing, Committed, TicketInv, CallsAreSound, LapInv
  <2>2. /\ before' \in [Indexes -> SUBSET Indexes] /\ overtaken' = overtaken /\ late' = late
    BY <1>0, <1>1, <2>1 DEF BeginEnqueue
  <2> QED
    BY <1>0, <2>2 DEF ObserversTyped
<1>2. CASE BeginDequeue(t)
  BY <1>0, <1>2 DEF BeginDequeue, ObserversTyped
<1>3. CASE EndEnqueue(t) \/ Step(t)
  BY <1>0, <1>3 DEF EndEnqueue, Step, ObserversTyped
<1>4. CASE EndDequeue(t)
  <2>1. CASE op[t].arg \in Indexes
    <3>1. /\ before' = [u \in Indexes |-> IF u = op[t].arg THEN {} ELSE before[u] \ {op[t].arg}]
          /\ overtaken' = (overtaken \cup before[op[t].arg]) \ {op[t].arg}
          /\ late' = [u \in Threads |-> IF u = t THEN {} ELSE late[u] \ {op[t].arg}]
      BY <1>4, <2>1 DEF EndDequeue
    <3>2. before[op[t].arg] \subseteq Indexes
      BY <1>0, <2>1
    <3>3. before' \in [Indexes -> SUBSET Indexes]
      BY <1>0, <3>1
    <3>4. overtaken' \subseteq Indexes
      BY <1>0, <3>1, <3>2
    <3>5. late' \in [Threads -> SUBSET Indexes]
      BY <1>0, <3>1
    <3> QED
      BY <3>3, <3>4, <3>5 DEF ObserversTyped
  <2>2. CASE op[t].arg \notin Indexes
    BY <1>0, <1>4, <2>2 DEF EndDequeue, ObserversTyped
  <2> QED
    BY <2>1, <2>2
<1> QED
  BY <1>1, <1>2, <1>3, <1>4 DEF ThreadStep

\* is kept by every step,
LEMMA ServiceKept ==
  ASSUME ServiceInv, clientNext
  PROVE  ServiceInv'
<1>1. PICK t \in Threads : ThreadStep(t)
  BY DEF clientNext
<1>2. /\ LapInv /\ LapInv' /\ TicketInv /\ ObserversTyped /\ OrderInv
      /\ \A v \in Indexes : Placed(v)
  BY LapInvNext DEF ServiceInv
<1>3. Typed /\ Typed'
  BY <1>2, Types, TypesNext
<1>4. Outcome(t)
  BY <1>1, <1>2, StepOutcome
<1>5. TicketInv'
  BY <1>2, <1>3, <1>4, TicketInvKept
<1>6. ObserversTyped'
  BY <1>1, <1>2, ObserversKept
<1>7. \A v \in Indexes : Placed(v)'
  BY <1>1, <1>2, <1>3, PlacesKept
<1>8. OrderInv'
  BY <1>1, <1>2, <1>3, OrderKept
<1> QED
  BY <1>2, <1>5, <1>6, <1>7, <1>8 DEF ServiceInv

\* and by stuttering.
LEMMA ServiceStutters ==
  ASSUME ServiceInv, UNCHANGED clientVars
  PROVE  ServiceInv'
<1>1. UNCHANGED <<ringHead, ringTail, cell, op, pool, freeList, before, overtaken, late>>
  BY DEF clientVars
<1>2. LapInv'
  BY <1>1 DEF ServiceInv, LapInv
<1>3. CallsAreSound' /\ TicketsAreDrawn' /\ FilledByTicket'
  BY <1>1 DEF ServiceInv, TicketInv, CallsAreSound, Sound, TicketsAreDrawn, FilledByTicket,
     Committed, TicketOf, Lap
<1>4. ViewsAreOld' /\ UsedUp' /\ LeftIsDead' /\ TakesWhatItSaw'
  BY <1>1 DEF ServiceInv, TicketInv, ViewsAreOld, UsedUp, LeftIsDead, TakesWhatItSaw, Here,
     Served, Dead, Risk, Lap
<1>5. ObserversTyped' /\ \A v \in Indexes : Placed(v)'
  BY <1>1 DEF ServiceInv, ObserversTyped, Placed, Carries, InCell, OneCarrier, OneCell
<1>6. OrderInv'
  BY <1>1 DEF ServiceInv, OrderInv, Precedes, Stays, Below, InCell, TicketOf, Overtaken, Missed,
     Dequeuing
<1> QED
  BY <1>2, <1>3, <1>4, <1>5, <1>6 DEF ServiceInv, TicketInv

\* The strengthened invariant of the ring and its client.
THEOREM Service == clientSpec => []ServiceInv
<1>1. ServiceInv /\ [clientNext]_clientVars => ServiceInv'
  BY ServiceKept, ServiceStutters
<1> QED
  BY <1>1, InitService, PTL DEF clientSpec

\* The size of a set with at most one element.
LEMMA OneOrNone ==
  ASSUME NEW S, \A x, y \in S : x = y
  PROVE  Cardinality(S) = (IF S = {} THEN 0 ELSE 1)
<1>1. CASE S = {}
  BY <1>1, FS_EmptySet
<1>2. CASE S # {}
  <2>1. PICK x \in S : TRUE
    BY <1>2
  <2>2. S = {x}
    BY <2>1
  <2> QED
    BY <1>2, <2>2, FS_Singleton
<1> QED
  BY <1>1, <1>2

\* Conservation: an index is in exactly one place - the pool, a call of enqueue,
\* a cell, or the answer of dequeue - whatever the interleaving: no exchange,
\* unsafe mark, spent cell or raised tail loses or duplicates one.
THEOREM IndexesAreConserved == clientSpec => []Conservation
<1>1. ServiceInv => Conservation
  <2> SUFFICES ASSUME ServiceInv, NEW v \in Indexes
               PROVE  (IF v \in pool THEN 1 ELSE 0) + Cardinality(Enqueuers(v))
                        + Cardinality(Holders(v)) + Cardinality(CellsWith(v)) = 1
    BY DEF Conservation
  <2>1. Placed(v) /\ DOMAIN cell = 0..(N - 1)
    BY DEF ServiceInv, LapInv
  <2>2. /\ \A t \in Threads : Carries(t, v) <=> t \in Enqueuers(v) \/ t \in Holders(v)
        /\ Enqueuers(v) \subseteq Threads /\ Holders(v) \subseteq Threads
        /\ Enqueuers(v) \cap Holders(v) = {}
    BY DEF Carries, Enqueuers, Holders, EnqueuingPcs
  <2>3. \A i : InCell(v, i) <=> i \in CellsWith(v)
    BY <2>1 DEF InCell, CellsWith
  <2>4. /\ \A x, y \in Enqueuers(v) : x = y
        /\ \A x, y \in Holders(v) : x = y
        /\ \A x, y \in CellsWith(v) : x = y
    BY <2>1, <2>2, <2>3 DEF Placed, OneCarrier, OneCell
  <2>5. /\ Cardinality(Enqueuers(v)) = (IF Enqueuers(v) = {} THEN 0 ELSE 1)
        /\ Cardinality(Holders(v)) = (IF Holders(v) = {} THEN 0 ELSE 1)
        /\ Cardinality(CellsWith(v)) = (IF CellsWith(v) = {} THEN 0 ELSE 1)
    BY <2>4, OneOrNone
  <2>6. Enqueuers(v) = {} \/ Holders(v) = {}
    <3> SUFFICES ASSUME NEW x \in Enqueuers(v), NEW y \in Holders(v) PROVE FALSE
      OBVIOUS
    <3>1. x = y
      BY <2>1, <2>2 DEF Placed, OneCarrier
    <3> QED
      BY <2>2, <3>1
  <2>7. (Enqueuers(v) # {} \/ Holders(v) # {}) <=> \E t \in Threads : Carries(t, v)
    BY <2>2
  <2>8. CellsWith(v) # {} <=> \E i : InCell(v, i)
    BY <2>3
  <2>9. CASE v \in pool
    BY <2>1, <2>5, <2>7, <2>8, <2>9 DEF Placed
  <2>10. CASE v \notin pool /\ \E t \in Threads : Carries(t, v)
    BY <2>1, <2>5, <2>6, <2>7, <2>8, <2>10 DEF Placed
  <2>11. CASE v \notin pool /\ ~ \E t \in Threads : Carries(t, v)
    BY <2>1, <2>5, <2>7, <2>8, <2>11 DEF Placed
  <2> QED
    BY <2>9, <2>10, <2>11
<1> QED
  BY <1>1, Service, PTL

\* TicketsAreExclusive: a stored index whose ticket is drawn has exactly one
\* dequeuer working on its cell, and the fetch_or of dequeue, which does not look
\* at the word, clears the index its dequeuer decided to take.
THEOREM TicketsAreServedOnce == clientSpec => []TicketsAreExclusive
<1>1. ServiceInv => ClaimedIsTaken
  <2> SUFFICES ASSUME ServiceInv, NEW i \in DOMAIN cell, Committed(i), TicketOf(i) < ringHead
               PROVE  Cardinality({t \in Threads : op[t].pc \in TicketPcs
                                     /\ op[t].ticket = TicketOf(i)}) = 1
    BY DEF ClaimedIsTaken
  <2>1. i \in 0..(N - 1) /\ TicketInv
    BY DEF ServiceInv, LapInv
  <2>2. cell[i].cycle \in Nat /\ cell[i].index # Empty
    BY <2>1 DEF TicketInv, FilledByTicket, Committed
  <2>3. PICK T \in Nat : T = TicketOf(i) /\ Cell(T) = i /\ Cycle(T) = cell[i].cycle
    BY <2>1, <2>2, Unsplit DEF TicketOf
  <2>4. Served(T)
    BY <2>1, <2>2, <2>3 DEF TicketInv, LeftIsDead, Dead
  <2>5. PICK t \in Threads : op[t].pc \in TicketPcs /\ op[t].ticket = T
    BY <2>4 DEF Served
  <2>6. {u \in Threads : op[u].pc \in TicketPcs /\ op[u].ticket = TicketOf(i)} = {t}
    BY <2>1, <2>3, <2>5 DEF TicketInv, TicketsAreDrawn
  <2> QED
    BY <2>6, FS_Singleton
<1>2. ServiceInv => TakeIsExclusive
  <2> SUFFICES ASSUME ServiceInv, NEW t \in Threads, op[t].pc = "D_take"
               PROVE  /\ op[t].entry.index \in Indexes
                      /\ cell[Pos(t)].index = op[t].entry.index
                      /\ TicketOf(Pos(t)) = op[t].ticket
    BY DEF TakeIsExclusive
  <2>1. /\ Pos(t) = Cell(op[t].ticket) /\ op[t].ticket \in Nat
        /\ Here(t).cycle = Lap(t) /\ Here(t).index = op[t].entry.index
        /\ Here(t).index \in Indexes
    BY DEF ServiceInv, TicketInv, TakesWhatItSaw, TicketsAreDrawn, TicketPcs, Pos, Cell
  <2>2. TicketOf(Pos(t)) = op[t].ticket
    BY <2>1, Split DEF TicketOf, Here, Lap
  <2> QED
    BY <2>1, <2>2 DEF Here
<1>3. ServiceInv => TicketsAreExclusive
  BY <1>1, <1>2 DEF TicketsAreExclusive
<1> QED
  BY <1>3, Service, PTL

\* FifoOrder: if enqueue(a) ended before enqueue(b) began, no dequeue that begins
\* after b came out returns a, although tickets of both sides may be spent.
THEOREM FirstInFirstOut == clientSpec => []FifoOrder
<1>1. ServiceInv => FifoOrder
  BY DEF ServiceInv, OrderInv, Missed, FifoOrder
<1> QED
  BY <1>1, Service, PTL

-----------------------------------------------------------------------------
(* How far the tail can be ahead of the head.                               *)

Window == ringHead..(ringTail - 1)
Stored(k) == \E i \in 0..(N - 1) : Committed(i) /\ TicketOf(i) = k
Bound(k) == \E t \in Threads : op[t].pc \in LatePcs /\ op[t].ticket = k
\* Tickets between head and tail that no index will be stored under any more.
Skips == {k \in Window : ~Stored(k) /\ ~Bound(k)}
After(v, k) ==
  /\ \A i : InCell(v, i) => k < TicketOf(i)
  /\ \A t \in Threads : op[t].pc \in LatePcs /\ op[t].arg = v => k < op[t].ticket
\* The index that blocked the cell of k is still there, or came back later.
Later(v, k) ==
  /\ \A i : InCell(v, i) => i = Cell(k) \/ k < TicketOf(i)
  /\ \A t \in Threads : op[t].pc \in LatePcs /\ op[t].arg = v => k < op[t].ticket

\* Every skipped ticket has an index that blocked its cell and one that was
\* turned away; none blocks two cells, or one once it was turned away.
Blame(who, by, S) ==
  /\ \A k \in S : Later(who[k], k) /\ After(by[k], k)
  /\ \A k, l \in S : /\ who[k] = who[l] => k = l
                     /\ k <= l => who[l] # by[k]
SkipInv == \E who, by \in [Skips -> Indexes] : Blame(who, by, Skips)

\* Who looks at the tail has spent a ticket below the head.
Behind == \A t \in Threads :
  op[t].pc \in {"D_tail", "D_lower", "D_catch"} => op[t].ticket < ringHead

GapInv == SkipInv /\ Behind

\* An index for every ticket of the window that is not skipped, no index twice.
LEMMA UsedTickets ==
  ASSUME ServiceInv
  PROVE  \E f \in [Window \ Skips -> Indexes] :
           \A k, l \in Window \ Skips : f[k] = f[l] => k = l
<1> DEFINE S == Window \ Skips
           Has(k, v) == \/ \E i : InCell(v, i) /\ TicketOf(i) = k
                        \/ \E t \in Threads : op[t].pc \in LatePcs /\ op[t].arg = v
                                                /\ op[t].ticket = k
           f == [k \in S |-> CHOOSE v \in Indexes : Has(k, v)]
<1>1. TicketInv /\ (\A v \in Indexes : Placed(v))
  BY DEF ServiceInv
<1>2. ASSUME NEW k \in S PROVE \E v \in Indexes : Has(k, v)
  <2>1. CASE Stored(k)
    <3>1. PICK i \in 0..(N - 1) : Committed(i) /\ TicketOf(i) = k
      BY <2>1 DEF Stored
    <3>2. cell[i].index \in Indexes
      BY <1>1, <3>1 DEF TicketInv, CallsAreSound, Committed
    <3> QED
      BY <3>1, <3>2 DEF InCell
  <2>2. CASE Bound(k)
    <3>1. PICK t \in Threads : op[t].pc \in LatePcs /\ op[t].ticket = k
      BY <2>2 DEF Bound
    <3>2. op[t].arg \in Indexes
      BY <1>1, <3>1 DEF TicketInv, CallsAreSound, Sound, LatePcs, EnqueuingPcs
    <3> QED
      BY <3>1, <3>2
  <2> QED
    BY <2>1, <2>2 DEF Skips
<1>3. ASSUME NEW k, NEW l, NEW v \in Indexes, Has(k, v), Has(l, v) PROVE k = l
  <2>1. Placed(v)
    BY <1>1
  <2>2. \A t \in Threads : op[t].pc \in LatePcs /\ op[t].arg = v => Carries(t, v)
    BY DEF Carries, LatePcs, EnqueuingPcs
  <2> QED
    BY <1>3, <2>1, <2>2 DEF Placed, OneCarrier, OneCell
<1>4. \A k \in S : f[k] \in Indexes /\ Has(k, f[k])
  BY <1>2
<1>5. f \in [S -> Indexes]
  BY <1>4
<1> HIDE DEF f, Has
<1>6. \A k, l \in S : f[k] = f[l] => k = l
  BY <1>3, <1>4
<1> QED
  BY <1>5, <1>6

\* A set of numbers has a smallest one.
LEMMA Smallest ==
  ASSUME NEW S \in SUBSET Nat, S # {}
  PROVE  \E m \in S : \A k \in S : m <= k
<1>1. PICK m \in S : \A k \in S : ~(<<k, m>> \in OpToRel(<, Nat))
  BY NatLessThanWellFounded, WFMin
<1>2. \A k \in S : ~(k < m)
  BY <1>1 DEF OpToRel
<1> QED
  BY <1>2

\* Fewer tickets are skipped than there are indexes.
LEMMA SkipBound ==
  ASSUME ServiceInv, SkipInv
  PROVE  /\ IsFiniteSet(Window) /\ Skips \subseteq Window
         /\ IsFiniteSet(Skips) /\ Cardinality(Skips) \in Nat /\ Cardinality(Skips) <= Half - 1
<1>0. ringHead \in Nat /\ ringTail \in Nat /\ Half \in Nat \ {0} /\ Window \subseteq Nat
  BY HalfAssumption DEF ServiceInv, TicketInv, CallsAreSound, Window
<1>1. IsFiniteSet(Indexes) /\ Cardinality(Indexes) = Half
  BY <1>0, FS_Interval DEF Indexes
<1>2. IsFiniteSet(Window)
  BY <1>0, FS_Interval DEF Window
<1>3. Skips \in SUBSET Window
  BY DEF Skips
<1>4. IsFiniteSet(Skips) /\ Cardinality(Skips) \in Nat
  BY <1>2, <1>3, FS_Subset, FS_CardinalityType
<1>5. ASSUME Skips # {} PROVE Cardinality(Skips) <= Half - 1
  <2>1. PICK who, by \in [Skips -> Indexes] : Blame(who, by, Skips)
    BY DEF SkipInv
  <2>2. PICK m \in Skips : \A k \in Skips : m <= k
    BY <1>0, <1>3, <1>5, Smallest
  <2> DEFINE R == Indexes \ {by[m]}
  <2>3. IsFiniteSet(R) /\ Cardinality(R) = Half - 1
    BY <1>1, <2>1, <2>2, FS_RemoveElement
  <2>4. who \in Injection(Skips, R)
    <3>1. \A k \in Skips : who[k] \in R
      BY <2>1, <2>2 DEF Blame
    <3>2. \A k, l \in Skips : who[k] = who[l] => k = l
      BY <2>1 DEF Blame
    <3>3. who \in [Skips -> R]
      BY <2>1, <3>1
    <3> HIDE DEF R
    <3> QED
      BY <3>2, <3>3 DEF Injection, IsInjective
  <2> HIDE DEF R
  <2> QED
    BY <2>3, <2>4, FS_Injection
<1>6. Skips = {} => Cardinality(Skips) = 0
  BY FS_EmptySet
<1> QED
  BY <1>0, <1>2, <1>3, <1>4, <1>5, <1>6

\* The tail is less than N tickets ahead of the head.
LEMMA GapBound ==
  ASSUME ServiceInv, SkipInv
  PROVE  ringTail - ringHead <= N - 1
<1>0. ringHead \in Nat /\ ringTail \in Nat /\ Half \in Nat \ {0} /\ N = 2 * Half
  BY HalfAssumption DEF ServiceInv, TicketInv, CallsAreSound, N
<1>1. IsFiniteSet(Indexes) /\ Cardinality(Indexes) = Half
  BY <1>0, FS_Interval DEF Indexes
<1>2. Cardinality(Window) = IF ringHead > ringTail - 1 THEN 0 ELSE ringTail - ringHead
  BY <1>0, FS_Interval DEF Window
<1>3. IsFiniteSet(Window \ Skips) /\ Cardinality(Window \ Skips) <= Half
  <2>1. PICK f \in [Window \ Skips -> Indexes] :
          \A k, l \in Window \ Skips : f[k] = f[l] => k = l
    BY UsedTickets
  <2>2. f \in Injection(Window \ Skips, Indexes)
    BY <2>1 DEF Injection, IsInjective
  <2> QED
    BY <1>1, <2>2, FS_Injection
<1>4. /\ IsFiniteSet(Window) /\ Skips \subseteq Window
      /\ Cardinality(Skips) \in Nat /\ Cardinality(Skips) <= Half - 1
  BY SkipBound
<1>5. Cardinality(Window \ Skips) = Cardinality(Window) - Cardinality(Skips)
  <2>1. Window \cap Skips = Skips
    BY <1>4
  <2> QED
    BY <1>4, <2>1, FS_Difference
<1>6. Cardinality(Window) \in Nat /\ Cardinality(Window \ Skips) \in Nat
  BY <1>3, <1>4, FS_CardinalityType
<1> QED
  BY <1>0, <1>2, <1>3, <1>4, <1>5, <1>6
-----------------------------------------------------------------------------
\* An index that is later than a ticket stays later.
LEMMA LaterKept ==
  ASSUME Typed, Typed', TicketInv, NEW t \in Threads, Outcome(t),
         NEW v \in Indexes, NEW k \in Int, k < ringTail
  PROVE  (Later(v, k) => Later(v, k)') /\ (After(v, k) => After(v, k)')
<1>1. ASSUME NEW i, InCell(v, i)'
      PROVE  \/ InCell(v, i) /\ TicketOf(i)' = TicketOf(i)
             \/ op[t].pc \in LatePcs /\ op[t].arg = v /\ TicketOf(i)' = op[t].ticket
  <2>1. i \in 0..(N - 1) /\ cell'[i].index = v
    BY <1>1 DEF InCell
  <2>2. \/ cell[i].index = cell'[i].index /\ TicketOf(i)' = TicketOf(i)
        \/ Commits(t) /\ cell'[i].index = op[t].arg /\ TicketOf(i)' = op[t].ticket
    BY <2>1, Elements
  <2> QED
    BY <2>1, <2>2 DEF InCell, Commits, LatePcs
<1>2. ASSUME NEW u \in Threads, op'[u].pc \in LatePcs, op'[u].arg = v
      PROVE  \/ op[u].pc \in LatePcs /\ op[u].arg = v /\ op'[u].ticket = op[u].ticket
             \/ k < op'[u].ticket
  <2>1. CASE u # t
    BY <1>2, <2>1 DEF Outcome
  <2>2. CASE u = t /\ Draws(t)
    BY <2>2 DEF Draws
  <2>3. CASE u = t /\ ~Draws(t)
    BY <1>2, <2>3, LateBinding
  <2> QED
    BY <2>1, <2>2, <2>3
<1>3. \A u \in Threads : (op'[u].pc \in LatePcs /\ op'[u].arg = v) =>
         \/ \E r \in Threads : op[r].pc \in LatePcs /\ op[r].arg = v /\ op'[u].ticket = op[r].ticket
         \/ k < op'[u].ticket
  BY <1>2
<1>4. ASSUME Later(v, k) PROVE Later(v, k)'
  BY <1>1, <1>3, <1>4 DEF Later
<1>5. ASSUME After(v, k) PROVE After(v, k)'
  BY <1>1, <1>3, <1>5 DEF After
<1> QED
  BY <1>4, <1>5

\* A ticket is skipped where an enqueuer gives it up, and nowhere else.
LEMMA NewSkips ==
  ASSUME ServiceInv, Typed, Typed', Behind, NEW t \in Threads, Outcome(t),
         NEW k, k \in Skips', k \notin Skips
  PROVE  Restarts(t) /\ k = op[t].ticket /\ k \in Window /\ ~Stored(k)
<1>0. /\ TicketInv /\ CallsAreSound /\ ringHead \in Nat /\ ringTail \in Nat
      /\ ringHead <= ringHead' /\ ringTail <= ringTail' /\ ringHead' \in Nat /\ ringTail' \in Nat
      /\ \A u \in Threads \ {t} : op'[u] = op[u]
  BY CountersGrow DEF ServiceInv, TicketInv, CallsAreSound, Outcome
<1>1. k \in Int /\ ringHead' <= k /\ k <= ringTail' - 1 /\ ~Stored(k)' /\ ~Bound(k)'
  <2>1. k \in Window' /\ ~Stored(k)' /\ ~Bound(k)'
    BY DEF Skips
  <2>2. k \in ringHead'..(ringTail' - 1)
    BY <2>1 DEF Window
  <2>3. \A a, b \in Int : \A j \in a..(b - 1) : j \in Int /\ a <= j /\ j <= b - 1
    OBVIOUS
  <2>5. ringHead' \in Int /\ ringTail' \in Int
    BY <1>0
  <2>4. k \in Int /\ ringHead' <= k /\ k <= ringTail' - 1
    BY <2>2, <2>3, <2>5
  <2> QED
    BY <2>1, <2>4
<1>2. k \in Window
  <2>1. CASE Draws(t)
    <3>1. k # ringTail
      BY <1>1, <2>1 DEF Draws, Bound, LatePcs
    <3> QED
      BY <1>0, <1>1, <2>1, <3>1 DEF Draws, Window
  <2>2. CASE ringTail' = ringTail
    BY <1>0, <1>1, <2>2 DEF Window
  <2>3. CASE ~Draws(t) /\ ringTail' # ringTail
    <3>1. /\ op[t].pc = "D_catch" /\ ringTail' = op[t].ticket + 1 /\ ringHead' = ringHead
      BY <2>3 DEF Outcome, Enters, EnqueueOutcome, DequeueOutcome, Judges, Dares, Restarts,
         Commits, Raises, Claims, Decides, Waits, Again, Prepares, Passes, Takes, Replaces,
         Searches, Quiet, Stores
    <3>2. op[t].ticket < ringHead /\ op[t].ticket \in Int
      BY <3>1 DEF Behind, Typed
    <3> QED
      BY <1>0, <1>1, <3>1, <3>2
  <2> QED
    BY <2>1, <2>2, <2>3
<1>3. ~Stored(k)
  <2> SUFFICES ASSUME NEW i \in 0..(N - 1), Committed(i), TicketOf(i) = k PROVE FALSE
    BY DEF Stored
  <2>1. cell[i].index \in Indexes /\ cell[i].index # Empty
    BY <1>0 DEF CallsAreSound, Committed
  <2>2. \/ cell[i].index = cell'[i].index
        \/ Takes(t) /\ i = Cell(op[t].ticket)
    BY <1>0, <2>1, Elements
  <2>3. CASE cell[i].index = cell'[i].index
    <3>1. TicketOf(i)' = TicketOf(i)
      BY <1>0, <2>1, <2>3, Elements
    <3> QED
      BY <1>1, <2>1, <2>3, <3>1 DEF Stored, Committed
  <2>4. CASE Takes(t) /\ i = Cell(op[t].ticket)
    <3>1. TicketOf(i) < ringHead
      BY <1>0, <2>4, TakesItsTicket
    <3> QED
      BY <1>0, <1>1, <3>1
  <2> QED
    BY <2>2, <2>3, <2>4
<1>4. PICK u \in Threads : op[u].pc \in LatePcs /\ op[u].ticket = k
  BY <1>2, <1>3 DEF Skips, Bound
<1>5. u = t
  BY <1>0, <1>1, <1>4 DEF Bound
<1>6. Restarts(t)
  <2>1. \/ Judges(t) \/ Dares(t) \/ Restarts(t) \/ Commits(t)
    BY <1>4, <1>5 DEF LatePcs, Outcome, Enters, EnqueueOutcome, DequeueOutcome, Draws,
       Raises, Claims, Decides, Waits, Again, Prepares, Passes, Takes, Replaces,
       Searches, FreePcs, DequeuePcs, TicketPcs
  <2>2. ~Judges(t) /\ ~Dares(t)
    BY <1>1, <1>4, <1>5 DEF Judges, Dares, KeepsCall, KeepsTicket, Bound, LatePcs
  <2>3. ~Commits(t)
    <3> SUFFICES ASSUME Commits(t) PROVE FALSE
      OBVIOUS
    <3>1. PICK c \in 0..(N - 1) : c = Cell(op[t].ticket)
      BY DEF Typed
    <3>2. cell'[c].cycle = Cycle(op[t].ticket) /\ cell'[c].index = op[t].arg
      BY <3>1 DEF Commits, Stores, Lap
    <3>3. op[t].arg \in Indexes
      BY <1>0 DEF Commits, CallsAreSound, Sound, EnqueuingPcs
    <3>4. op[t].ticket \in Nat
      BY <1>0, <1>4, <1>5 DEF TicketInv, TicketsAreDrawn
    <3>5. TicketOf(c)' = op[t].ticket
      BY <3>1, <3>2, <3>4, Split DEF TicketOf
    <3> QED
      BY <1>1, <1>4, <1>5, <3>2, <3>3, <3>5, EmptyIsNoIndex DEF Stored, Committed
  <2> QED
    BY <2>1, <2>2, <2>3
<1> QED
  BY <1>2, <1>3, <1>4, <1>5, <1>6

\* The index that blocks the cell of a ticket in the window is of an earlier lap,
\* and a dequeuer has its ticket.
LEMMA Blocker ==
  ASSUME ServiceInv, SkipInv, NEW t \in Threads, Restarts(t),
         op[t].ticket \in Window, ~Stored(op[t].ticket)
  PROVE  LET c == Cell(op[t].ticket)
         IN  c \in 0..(N - 1) /\ cell[c].index \in Indexes /\ TicketOf(c) < ringHead
<1> DEFINE k == op[t].ticket
           c == Cell(k)
<1>0. /\ TicketInv /\ CallsAreSound /\ ringHead \in Nat /\ ringTail \in Nat /\ Typed
      /\ N \in Nat \ {0} /\ k \in Nat /\ ringHead <= k /\ k < ringTail
      /\ ringTail - ringHead <= N - 1
  <2>1. TicketInv /\ CallsAreSound /\ ringHead \in Nat /\ ringTail \in Nat /\ Typed
    BY Types DEF ServiceInv, TicketInv, CallsAreSound
  <2>2. N \in Nat \ {0} /\ ringTail - ringHead <= N - 1
    BY GapBound, Sizes
  <2>3. k \in Nat /\ ringHead <= k /\ k < ringTail
    BY <2>1 DEF Window
  <2> QED
    BY <2>1, <2>2, <2>3
<1>1. c \in 0..(N - 1) /\ Cycle(k) \in Nat /\ k = Cycle(k) * N + c
  BY <1>0, Split
<1>2. Here(t) = cell[c] /\ Lap(t) = Cycle(k)
  BY DEF Here, Lap
<1>3. cell[c].index # Empty \/ Cycle(k) <= cell[c].cycle
  BY <1>0, <1>2 DEF Restarts
<1> HIDE DEF k, c
<1>4. cell[c].index # Empty
  <2> SUFFICES ASSUME cell[c].index = Empty PROVE FALSE
    OBVIOUS
  <2>1. Cycle(k) <= cell[c].cycle /\ cell[c].cycle \in Nat
    BY <1>0, <1>1, <1>3 DEF Typed
  <2>2. PICK T \in Nat : Cell(T) = c /\ Cycle(T) = cell[c].cycle
    BY <1>1, <2>1, Unsplit
  <2>3. T < ringHead
    BY <1>0, <2>2 DEF TicketInv, UsedUp
  <2>4. k <= T
    BY <1>0, <2>1, <2>2, SameCell DEF c
  <2> QED
    BY <1>0, <2>3, <2>4
<1>5. cell[c].index \in Indexes
  BY <1>0, <1>1, <1>4 DEF CallsAreSound
<1>6. cell[c].cycle \in Nat /\ TicketOf(c) < ringTail /\ TicketOf(c) \in Nat
  BY <1>0, <1>1, <1>4, Unsplit DEF TicketInv, FilledByTicket, Committed, TicketOf
<1>7. TicketOf(c) # k
  BY <1>1, <1>4 DEF Stored, Committed, k
<1>8. TicketOf(c) < ringHead
  <2>1. TicketOf(c) = cell[c].cycle * N + c
    BY DEF TicketOf
  <2>2. /\ cell[c].cycle * N \in Int /\ Cycle(k) * N \in Int
        /\ cell[c].cycle < Cycle(k) => cell[c].cycle * N + N <= Cycle(k) * N
        /\ Cycle(k) < cell[c].cycle => Cycle(k) * N + N <= cell[c].cycle * N
    BY <1>1, <1>6, LapsApart
  <2>3. cell[c].cycle # Cycle(k)
    BY <1>1, <1>7, <2>1
  <2> QED
    BY <1>0, <1>1, <1>6, <2>1, <2>2, <2>3
<1> QED
  BY <1>1, <1>5, <1>8 DEF c, k

\* Two tickets of the window are not of one cell.
LEMMA WindowApart ==
  ASSUME ServiceInv, SkipInv, NEW k \in Window, NEW l \in Window, Cell(k) = Cell(l)
  PROVE  k = l
<1>0. /\ ringHead \in Nat /\ ringTail \in Nat /\ N \in Nat \ {0}
      /\ ringTail - ringHead <= N - 1
  BY GapBound, Sizes DEF ServiceInv, TicketInv, CallsAreSound
<1>1. /\ k \in Nat /\ ringHead <= k /\ k <= ringTail - 1
      /\ l \in Nat /\ ringHead <= l /\ l <= ringTail - 1
  BY <1>0 DEF Window
<1>2. /\ Cycle(k) \in Nat /\ k = Cycle(k) * N + Cell(k) /\ Cell(k) \in 0..(N - 1)
      /\ Cycle(l) \in Nat /\ l = Cycle(l) * N + Cell(l)
  BY <1>1, Split
<1>3. /\ Cycle(k) * N \in Int /\ Cycle(l) * N \in Int
      /\ Cycle(k) < Cycle(l) => Cycle(k) * N + N <= Cycle(l) * N
      /\ Cycle(l) < Cycle(k) => Cycle(l) * N + N <= Cycle(k) * N
  BY <1>2, LapsApart
<1>4. Cycle(k) = Cycle(l)
  BY <1>0, <1>1, <1>2, <1>3
<1> QED
  BY <1>2, <1>4

\* The ticket an enqueuer gives up is blamed on the index in its cell and on its
\* own, which it carries on.
LEMMA RestartBlamed ==
  ASSUME ServiceInv, SkipInv, Typed, Typed', NEW t \in Threads, Outcome(t),
         Restarts(t), op[t].ticket \in Window, ~Stored(op[t].ticket),
         Skips' \subseteq Skips \cup {op[t].ticket}
  PROVE  SkipInv'
<1>k. PICK k : k = op[t].ticket
  OBVIOUS
<1>c. PICK c : c = Cell(k)
  OBVIOUS
<1>w. PICK w : w = cell[c].index
  OBVIOUS
<1>v. PICK v : v = op[t].arg
  OBVIOUS
<1>S. PICK S : S = Skips'
  OBVIOUS
<1>0. /\ TicketInv /\ CallsAreSound /\ ringHead \in Nat /\ ringTail \in Nat
      /\ \A a \in Indexes : Placed(a)
  BY DEF ServiceInv, TicketInv, CallsAreSound
<1>1. c \in 0..(N - 1) /\ w \in Indexes /\ TicketOf(c) < ringHead
  BY <1>k, <1>c, <1>w, Blocker
<1>2. PICK who, by \in [Skips -> Indexes] : Blame(who, by, Skips)
  BY DEF SkipInv
<1>3. op[t].pc \in LatePcs /\ op'[t].pc = "E_ticket" /\ v \in Indexes
  BY <1>v, <1>0 DEF Restarts, LatePcs, CallsAreSound, Sound, EnqueuingPcs
<1>4. k \notin Skips /\ \A l \in Skips : l \in Window /\ l \in Nat /\ ringHead <= l /\ l < ringTail
  <2>1. k \notin Skips
    BY <1>k, <1>3 DEF Skips, Bound
  <2>2. \A l \in Skips : l \in Window
    BY DEF Skips
  <2> QED
    BY <1>0, <2>1, <2>2 DEF Window
<1>5. /\ Carries(t, v) /\ \A u \in Threads : op[u].pc \in LatePcs /\ op[u].arg = v => u = t
      /\ \A i : ~InCell(v, i)
  BY <1>v, <1>0, <1>3 DEF Carries, LatePcs, EnqueuingPcs, Placed, OneCarrier
<1>6. InCell(w, c) /\ (\A u \in Threads : ~Carries(u, w)) /\ \A i : InCell(w, i) => i = c
  <2>1. InCell(w, c)
    BY <1>w, <1>1 DEF InCell
  <2>2. Placed(w)
    BY <1>0, <1>1
  <2> QED
    BY <2>1, <2>2 DEF Placed, OneCell
<1>7. w # v
  BY <1>5, <1>6
<1>8. k \in Nat /\ ringHead <= k /\ k < ringTail /\ TicketOf(c) \in Int
  BY <1>k, <1>0, <1>1, TicketsOfCells DEF Window
<1>9. Later(w, k) /\ (\A i : ~InCell(v, i)) /\ Later(w, k)'
  <2>1. Later(w, k)
    BY <1>c, <1>6 DEF Later, Carries, LatePcs, EnqueuingPcs
  <2> QED
    BY <1>0, <1>1, <1>5, <1>8, <2>1, LaterKept
<1>10. After(v, k)'
  <2>1. \A i : ~InCell(v, i)'
    BY <1>5 DEF Restarts, Quiet, InCell
  <2>2. \A u \in Threads : ~(op'[u].pc \in LatePcs /\ op'[u].arg = v)
    BY <1>3, <1>5 DEF Outcome, LatePcs
  <2> QED
    BY <2>1, <2>2 DEF After
<1>11. ASSUME NEW l \in Skips
       PROVE  /\ who[l] \in Indexes /\ by[l] \in Indexes
              /\ Later(who[l], l) /\ After(by[l], l)
              /\ Later(who[l], l)' /\ After(by[l], l)'
  <2>1. who[l] \in Indexes /\ by[l] \in Indexes /\ Later(who[l], l) /\ After(by[l], l)
    BY <1>2 DEF Blame
  <2> QED
    BY <1>0, <1>4, <2>1, LaterKept
<1>12. ASSUME NEW l \in Skips
       PROVE  /\ who[l] # w
              /\ k <= l => who[l] # v
              /\ by[l] # w
  <2>1. who[l] # w
    <3> SUFFICES ASSUME who[l] = w PROVE FALSE
      OBVIOUS
    <3>1. c = Cell(l) \/ l < TicketOf(c)
      BY <1>6, <1>11 DEF Later
    <3>2. c = Cell(l)
      BY <1>0, <1>1, <1>4, <1>8, <3>1
    <3>3. l = k
      BY <1>c, <1>k, <1>4, <3>2, WindowApart
    <3> QED
      BY <1>4, <3>3
  <2>2. ASSUME k <= l, who[l] = v PROVE FALSE
    <3>1. l < k
      BY <1>k, <1>v, <1>3, <1>11, <2>2 DEF Later
    <3> QED
      BY <1>4, <1>8, <2>2, <3>1
  <2>3. by[l] # w
    <3> SUFFICES ASSUME by[l] = w PROVE FALSE
      OBVIOUS
    <3>1. l < TicketOf(c)
      BY <1>6, <1>11 DEF After
    <3> QED
      BY <1>0, <1>1, <1>4, <1>8, <3>1
  <2> QED
    BY <2>1, <2>2, <2>3
<1>a. PICK who2 : who2 = [l \in S |-> IF l = k THEN w ELSE who[l]]
  OBVIOUS
<1>b. PICK by2 : by2 = [l \in S |-> IF l = k THEN v ELSE by[l]]
  OBVIOUS
<1>13. \A l \in S : l = k \/ (l # k /\ l \in Skips)
  BY <1>k, <1>S, <1>4
<1>14. /\ \A l \in S : who2[l] = IF l = k THEN w ELSE who[l]
       /\ \A l \in S : by2[l] = IF l = k THEN v ELSE by[l]
  BY <1>a, <1>b
<1>15. who2 \in [S -> Indexes] /\ by2 \in [S -> Indexes]
  BY <1>a, <1>b, <1>1, <1>3, <1>11, <1>13
<1>16. ASSUME NEW l \in S
       PROVE  Later(who2[l], l)' /\ After(by2[l], l)'
  <2>1. CASE l = k
    <3>1. who2[l] = w /\ by2[l] = v
      BY <1>14, <2>1
    <3> QED
      BY <1>9, <1>10, <2>1, <3>1
  <2>2. CASE l # k /\ l \in Skips
    <3>1. who2[l] = who[l] /\ by2[l] = by[l]
      BY <1>14, <2>2
    <3> QED
      BY <1>11, <2>2, <3>1
  <2> QED
    BY <1>13, <2>1, <2>2
<1>17. ASSUME NEW l \in S, NEW m \in S
       PROVE  /\ who2[l] = who2[m] => l = m
              /\ l <= m => who2[m] # by2[l]
  <2>1. \A x, y \in Skips : (who[x] = who[y] => x = y) /\ (x <= y => who[y] # by[x])
    BY <1>2 DEF Blame
  <2> QED
    BY <1>7, <1>12, <1>13, <1>14, <2>1
<1>18. Blame(who2, by2, S)'
  BY <1>16, <1>17 DEF Blame
<1> QED
  BY <1>S, <1>15, <1>18 DEF SkipInv

\* Every other step leaves the skipped tickets blamed as they are.
LEMMA SkipKept ==
  ASSUME ServiceInv, GapInv, Typed, Typed', NEW t \in Threads, Outcome(t)
  PROVE  SkipInv'
<1>0. TicketInv /\ SkipInv /\ Behind
  BY DEF ServiceInv, GapInv
<1>1. CASE Skips' \subseteq Skips
  <2>1. PICK who, by \in [Skips -> Indexes] : Blame(who, by, Skips)
    BY <1>0 DEF SkipInv
  <2>2. PICK S : S = Skips'
    OBVIOUS
  <2>3. PICK who2 : who2 = [l \in S |-> who[l]]
    OBVIOUS
  <2>4. PICK by2 : by2 = [l \in S |-> by[l]]
    OBVIOUS
  <2>5. ASSUME NEW l \in S
        PROVE  /\ l \in Skips /\ who2[l] = who[l] /\ by2[l] = by[l]
               /\ who2[l] \in Indexes /\ by2[l] \in Indexes
               /\ Later(who2[l], l)' /\ After(by2[l], l)'
    <3>1. l \in Skips /\ who2[l] = who[l] /\ by2[l] = by[l]
      BY <1>1, <2>2, <2>3, <2>4, <2>5
    <3>2. who[l] \in Indexes /\ by[l] \in Indexes /\ Later(who[l], l) /\ After(by[l], l)
      BY <2>1, <3>1 DEF Blame
    <3>3. l \in Int /\ l < ringTail
      BY <3>1 DEF Skips, Window, Typed
    <3> QED
      BY <1>0, <3>1, <3>2, <3>3, LaterKept
  <2>6. who2 \in [S -> Indexes] /\ by2 \in [S -> Indexes]
    BY <2>3, <2>4, <2>5
  <2>7. Blame(who2, by2, S)'
    <3>1. \A x, y \in Skips : (who[x] = who[y] => x = y) /\ (x <= y => who[y] # by[x])
      BY <2>1 DEF Blame
    <3>2. \A x, y \in S : (who2[x] = who2[y] => x = y) /\ (x <= y => who2[y] # by2[x])
      BY <2>5, <3>1
    <3> QED
      BY <2>5, <3>2 DEF Blame
  <2> QED
    BY <2>2, <2>6, <2>7 DEF SkipInv
<1>2. CASE ~(Skips' \subseteq Skips)
  <2>1. PICK k : k \in Skips' /\ k \notin Skips
    BY <1>2
  <2>2. Restarts(t) /\ k = op[t].ticket /\ k \in Window /\ ~Stored(k)
    BY <1>0, <2>1, NewSkips
  <2>3. Skips' \subseteq Skips \cup {op[t].ticket}
    <3> SUFFICES ASSUME NEW l \in Skips', l \notin Skips PROVE l = op[t].ticket
      OBVIOUS
    <3> QED
      BY <1>0, NewSkips
  <2> QED
    BY <1>0, <2>2, <2>3, RestartBlamed
<1> QED
  BY <1>1, <1>2

LEMMA BehindKept ==
  ASSUME ServiceInv, Behind, Typed, Typed', NEW t \in Threads, Outcome(t)
  PROVE  Behind'
<1>0. /\ TicketInv /\ CallsAreSound /\ ringHead \in Int /\ ringHead' \in Int
      /\ ringHead <= ringHead' /\ (\A u \in Threads \ {t} : op'[u] = op[u])
      /\ \A u \in Threads : op[u].ticket \in Int /\ op'[u].ticket \in Int
  BY CountersGrow DEF ServiceInv, TicketInv, Outcome, Typed
<1> SUFFICES ASSUME NEW u \in Threads, op'[u].pc \in {"D_tail", "D_lower", "D_catch"}
             PROVE  op'[u].ticket < ringHead'
  BY DEF Behind
<1>1. CASE u # t
  <2>1. op[u].ticket < ringHead /\ op'[u] = op[u]
    BY <1>0, <1>1 DEF Behind
  <2> QED
    BY <1>0, <2>1
<1>2. CASE u = t
  <2>1. Passes(t) \/ Replaces(t) \/ Searches(t)
    BY <1>2 DEF Outcome, Enters, EnqueueOutcome, DequeueOutcome, Draws, Judges, Dares, Restarts,
       Commits, Raises, Claims, Decides, Waits, Again, Prepares, Takes
  <2>2. CASE Passes(t) \/ Replaces(t)
    <3>1. op[t].pc \in TicketPcs /\ op'[t].ticket = op[t].ticket
      BY <2>2 DEF Passes, Replaces, KeepsTicket, TicketPcs
    <3>2. op[t].ticket < ringHead
      BY <1>0, <3>1 DEF TicketInv, TicketsAreDrawn
    <3> QED
      BY <1>0, <1>2, <3>1, <3>2
  <2>3. CASE Searches(t)
    <3>1. \/ op[t].pc = "D_tail" /\ op'[t].ticket = op[t].ticket
          \/ op'[t].ticket < ringHead
      BY <1>2, <2>3 DEF Searches, KeepsTicket
    <3>2. op'[t].ticket < ringHead
      BY <3>1 DEF Behind
    <3> QED
      BY <1>0, <1>2, <3>2
  <2> QED
    BY <2>1, <2>2, <2>3
<1> QED
  BY <1>1, <1>2

LEMMA GapInit == clientInit => GapInv
<1> SUFFICES ASSUME clientInit PROVE GapInv
  OBVIOUS
<1>1. Half \in Nat \ {0} /\ N \in Nat \ {0} /\ Half <= N
  BY HalfAssumption DEF N
<1>2. Skips = {}
  <2>1. CASE freeList
    <3>1. /\ ringHead = 0 /\ ringTail = Half
          /\ \A i \in 0..(N - 1) : i < Half => cell[i].cycle = 0 /\ cell[i].index = i
      BY <1>1, <2>1 DEF clientInit, InitFull, CellWord
    <3>2. \A k \in Window : k \in 0..(N - 1) /\ k < Half
      BY <1>1, <3>1 DEF Window
    <3>3. \A k \in Window : Committed(k) /\ TicketOf(k) = k
      <4> TAKE k \in Window
      <4>1. k \in Indexes /\ cell[k].index = k /\ cell[k].cycle = 0
        BY <1>1, <3>1, <3>2 DEF Indexes
      <4> QED
        BY <1>1, <3>2, <4>1, EmptyIsNoIndex DEF Committed, TicketOf
    <3> QED
      BY <3>2, <3>3 DEF Skips, Stored
  <2>2. CASE ~freeList
    <3>1. ringHead = 0 /\ ringTail = 0
      BY <2>2 DEF clientInit, InitCleared
    <3> QED
      BY <3>1 DEF Skips, Window
  <2> QED
    BY <2>1, <2>2
<1>3. SkipInv
  <2>1. PICK f : f = [k \in Skips |-> 0]
    OBVIOUS
  <2>2. f \in [Skips -> Indexes]
    BY <1>2, <2>1
  <2>3. Blame(f, f, Skips)
    BY <1>2 DEF Blame
  <2> QED
    BY <2>2, <2>3 DEF SkipInv
<1>4. Behind
  <2>1. op = [t \in Threads |-> Idle]
    BY DEF clientInit, InitFull, InitCleared
  <2>2. Idle.pc = "idle"
    BY DEF Idle, Frame
  <2> QED
    BY <2>1, <2>2 DEF Behind
<1> QED
  BY <1>3, <1>4 DEF GapInv

LEMMA GapKept == ServiceInv /\ GapInv /\ [clientNext]_clientVars => GapInv'
<1>1. ASSUME ServiceInv, GapInv, clientNext PROVE GapInv'
  <2>1. PICK t \in Threads : ThreadStep(t)
    BY <1>1 DEF clientNext
  <2>2. Typed /\ Typed' /\ Outcome(t)
    BY <1>1, <2>1, LapInvNext, Types, TypesNext, StepOutcome DEF ServiceInv
  <2> QED
    BY <1>1, <2>2, SkipKept, BehindKept DEF GapInv
<1>2. ASSUME ServiceInv, GapInv, UNCHANGED clientVars PROVE GapInv'
  <2>1. UNCHANGED <<ringHead, ringTail, cell, op>>
    BY <1>2 DEF clientVars
  <2>2. Behind'
    BY <1>2, <2>1 DEF GapInv, Behind
  <2>3. Skips' = Skips
    BY <2>1 DEF Skips, Window, Stored, Bound, Committed, TicketOf
  <2>4. PICK who, by \in [Skips -> Indexes] : Blame(who, by, Skips)
    BY <1>2 DEF GapInv, SkipInv
  <2>5. PICK S : S = Skips
    OBVIOUS
  <2>6. Blame(who, by, S)'
    BY <2>1, <2>4, <2>5 DEF Blame, Later, After, InCell, TicketOf
  <2>7. SkipInv'
    BY <2>3, <2>4, <2>5, <2>6 DEF SkipInv
  <2> QED
    BY <2>2, <2>7 DEF GapInv
<1> QED
  BY <1>1, <1>2

-----------------------------------------------------------------------------
(* The threshold, and what a call that answers "empty" has seen.            *)

\* Points of dequeue(): with a ticket it may have to give up, with one it has
\* given up, and among these before an answer for the tail.
SpendPcs == {"D_load", "D_wait", "D_cas"}
CatchPcs == {"D_catch", "D_catch_tail", "D_catch_head", "D_empty"}
LowerPcs == {"D_tail", "D_lower"} \cup CatchPcs
\* Who may still lower the threshold: not with the ticket of an index.
Pend == {t \in Threads : \/ op[t].pc \in LowerPcs
                         \/ op[t].pc \in SpendPcs /\ ~Stored(op[t].ticket)}

\* The steps once more: from where to where, and what becomes of the threshold.
Goes(t, p, q) == op[t].pc = p /\ op'[t].pc = q
Same(t) == op'[t].nonempty = op[t].nonempty
CallTurns(t) ==
  \/ op[t].pc \in {"E_done", "D_done"} /\ op'[t].pc = "idle"
  \/ Goes(t, "idle", "E_ticket") /\ op'[t].nonempty = freeList
  \/ Goes(t, "idle", IF freeList THEN "D_size_tail" ELSE "D_threshold")
EnqueueTurns(t) ==
  \/ op[t].pc \in EnqueuingPcs /\ op'[t].pc \in EnqueuingPcs /\ Same(t)
  \/ Goes(t, "E_cas", IF op[t].nonempty THEN "E_done" ELSE "E_threshold") /\ Same(t)
  \/ /\ Goes(t, "E_threshold", IF threshold = Threshold3 THEN "E_done" ELSE "E_raise")
     /\ op'[t].arg = op[t].arg /\ Same(t)
AskTurns(t) ==
  \/ Goes(t, "D_size_tail", "D_size_head")
  \/ Goes(t, "D_size_head", "D_ticket") /\ op'[t].nonempty = TRUE
  \/ Goes(t, "D_size_head", "D_done") /\ op'[t].arg = Overflow
  \/ Goes(t, "D_threshold", "D_ticket") /\ op'[t].nonempty = FALSE
  \/ Goes(t, "D_threshold", "D_done") /\ ~(0 <= threshold)
TicketTurns(t) ==
  \/ Goes(t, "D_ticket", "D_load") /\ Same(t)
  \/ /\ op[t].pc \in {"D_load", "D_wait", "D_cas"} /\ Same(t)
     /\ \/ op'[t].pc \in TicketPcs
        \/ op'[t].pc = (IF op[t].nonempty THEN "D_ticket" ELSE "D_tail")
  \/ Goes(t, "D_take", "D_done")
TailTurns(t) ==
  \/ Goes(t, "D_tail", "D_lower")
  \/ Goes(t, "D_tail", "D_catch") /\ ringTail <= op[t].ticket + 1
  \/ op[t].pc \in CatchPcs /\ op'[t].pc \in CatchPcs
LowerTurns(t) ==
  \/ Goes(t, "D_lower", "D_ticket") /\ op'[t].nonempty = FALSE
  \/ Goes(t, "D_lower", "D_done") /\ ~(0 < threshold)
  \/ Goes(t, "D_empty", "D_done")
Turns(t) ==
  \/ /\ threshold' = threshold
     /\ CallTurns(t) \/ EnqueueTurns(t) \/ AskTurns(t) \/ TicketTurns(t) \/ TailTurns(t)
  \/ threshold' = Threshold3 /\ Goes(t, "E_raise", "E_done")
  \/ threshold' = threshold - 1 /\ LowerTurns(t)

\* The mode of a call, which the loaded word does not change.
LEMMA ModeFields ==
  /\ \A pc, a, b : Frame(pc, a, b).nonempty = b
  /\ \A f \in FrameType : \A pc : [f EXCEPT !.pc = pc].nonempty = f.nonempty
  /\ \A f \in FrameType : \A w : [f EXCEPT !.entry = w].nonempty = f.nonempty
BY DEF Frame, FrameType

LEMMA JudgedMode ==
  ASSUME NEW f \in FrameType
  PROVE  Judge(f).nonempty = f.nonempty /\ Judge(f).pc \in {"E_ticket", "E_cas", "E_head"}
<1>1. /\ Judge(f).pc \in {"E_ticket", "E_cas", "E_head"}
  BY Judged
<1>2. PICK a, b, c : /\ a = Frame("E_ticket", f.arg, f.nonempty)
                     /\ b = [f EXCEPT !.pc = "E_cas"] /\ c = [f EXCEPT !.pc = "E_head"]
  OBVIOUS
<1>3. Judge(f) = a \/ Judge(f) = b \/ Judge(f) = c
  BY <1>2 DEF Judge
<1>4. a.nonempty = f.nonempty /\ b.nonempty = f.nonempty /\ c.nonempty = f.nonempty
  BY <1>2, ModeFields
<1> QED
  BY <1>1, <1>3, <1>4

SpentMode(f, g) ==
  /\ g.nonempty = f.nonempty
  /\ g.pc \in TicketPcs \/ g.pc = (IF f.nonempty THEN "D_ticket" ELSE "D_tail")

LEMMA SpentInMode ==
  ASSUME NEW f \in FrameType
  PROVE  SpentMode(f, Spent(f))
<1>1. PICK pc : pc = IF f.nonempty THEN "D_ticket" ELSE "D_tail"
  OBVIOUS
<1>2. PICK g : g = Frame(pc, Invalid, f.nonempty)
  OBVIOUS
<1>3. /\ DOMAIN g = {"pc", "arg", "nonempty", "ticket", "entry", "attempt", "tt"}
      /\ g.pc = pc /\ g.nonempty = f.nonempty
  BY <1>2 DEF Frame
<1>4. Spent(f) = [g EXCEPT !.ticket = f.ticket]
  BY <1>1, <1>2 DEF Spent
<1>5. Spent(f).pc = pc /\ Spent(f).nonempty = f.nonempty
  BY <1>3, <1>4
<1> QED
  BY <1>1, <1>5 DEF SpentMode

LEMMA ReplacedInMode ==
  ASSUME NEW f \in FrameType
  PROVE  SpentMode(f, Replace(f))
<1>1. PICK b : b = [f EXCEPT !.pc = "D_cas"]
  OBVIOUS
<1>2. b.pc = "D_cas" /\ b.nonempty = f.nonempty
  BY <1>1, Fields, ModeFields
<1>3. Replace(f) = b \/ Replace(f) = Spent(f)
  BY <1>1 DEF Replace
<1> QED
  BY <1>2, <1>3, SpentInMode DEF SpentMode, TicketPcs

LEMMA PatientInMode ==
  ASSUME NEW f \in FrameType
  PROVE  SpentMode(f, Patience(f))
<1>1. PICK g : g = [f EXCEPT !.attempt = @ + 1]
  OBVIOUS
<1>2. PICK h : h = [g EXCEPT !.pc = "D_load", !.entry = CellWord(-1, TRUE, Empty)]
  OBVIOUS
<1>3. g \in FrameType /\ g.nonempty = f.nonempty
  BY <1>1 DEF FrameType
<1>4. Patience(f) = h \/ Patience(f) = Replace(g)
  BY <1>1, <1>2 DEF Patience
<1>5. h.pc = "D_load" /\ h.nonempty = f.nonempty
  BY <1>2, <1>3 DEF FrameType
<1> QED
  BY <1>3, <1>4, <1>5, ReplacedInMode DEF SpentMode, TicketPcs

LEMMA SeenInMode ==
  ASSUME NEW f \in FrameType
  PROVE  SpentMode(f, Seen(f))
<1>1. PICK a, b : a = [f EXCEPT !.pc = "D_take"] /\ b = [f EXCEPT !.pc = "D_wait"]
  OBVIOUS
<1>2. /\ a.pc = "D_take" /\ a.nonempty = f.nonempty
      /\ b.pc = "D_wait" /\ b.nonempty = f.nonempty
  BY <1>1, Fields, ModeFields
<1>3. \/ Seen(f) = a \/ Seen(f) = b \/ Seen(f) = Replace(f) \/ Seen(f) = Spent(f)
      \/ Seen(f) = Patience(f)
  BY <1>1 DEF Seen
<1> QED
  BY <1>2, <1>3, ReplacedInMode, SpentInMode, PatientInMode DEF SpentMode, TicketPcs

\* Every step is one of the turns: of enqueue,
LEMMA EnqueueTurn ==
  ASSUME LapInv, NEW t \in Threads, EnqueueStep(t)
  PROVE  Turns(t)
<1>0. /\ op[t] \in FrameType /\ cell[Pos(t)] \in WordType
      /\ \A f : SetFrame(t, f) => op'[t] = f
  BY AtCell, Becomes
<1>1. PICK loaded : loaded = [op[t] EXCEPT !.entry = cell[Pos(t)]]
  OBVIOUS
<1>2. PICK again : again = Frame("E_ticket", op[t].arg, op[t].nonempty)
  OBVIOUS
<1>3. loaded \in FrameType /\ loaded.nonempty = op[t].nonempty
  BY <1>0, <1>1, Loaded, ModeFields
<1>4. again.pc = "E_ticket" /\ again.nonempty = op[t].nonempty
  BY <1>2, Begun, ModeFields
<1>5. \A pc : [op[t] EXCEPT !.pc = pc].pc = pc
              /\ [op[t] EXCEPT !.pc = pc].nonempty = op[t].nonempty
  BY <1>0, Fields, ModeFields
<1>6. ASSUME NEW pc, Goto(t, pc)
      PROVE  op'[t].pc = pc /\ Same(t) /\ op'[t].arg = op[t].arg
  <2>1. PICK g : g = [op[t] EXCEPT !.pc = pc]
    OBVIOUS
  <2>2. op'[t] = g
    BY <1>0, <1>6, <2>1 DEF Goto
  <2> QED
    BY <1>0, <1>5, <2>1, <2>2, Fields DEF Same
<1>7. ASSUME SetFrame(t, Judge(loaded)) PROVE op'[t].pc \in EnqueuingPcs /\ Same(t)
  BY <1>0, <1>3, <1>7, JudgedMode DEF EnqueuingPcs, Same
<1>8. CASE EnqTicket(t)
  <2>1. PICK g : g = [op[t] EXCEPT !.pc = "E_load", !.ticket = ringTail]
    OBVIOUS
  <2>2. g.pc = "E_load" /\ g.nonempty = op[t].nonempty
    BY <1>0, <2>1 DEF FrameType
  <2>3. SetFrame(t, g) /\ op[t].pc = "E_ticket" /\ threshold' = threshold
    BY <1>8, <2>1 DEF EnqTicket
  <2> QED
    BY <1>0, <2>2, <2>3 DEF Turns, EnqueueTurns, EnqueuingPcs, Same
<1>9. CASE EnqLoad(t)
  <2>1. SetFrame(t, Judge(loaded)) /\ op[t].pc = "E_load" /\ threshold' = threshold
    BY <1>1, <1>9 DEF EnqLoad
  <2> QED
    BY <1>7, <2>1 DEF Turns, EnqueueTurns, EnqueuingPcs
<1>10. CASE EnqHead(t)
  <2>1. /\ op[t].pc = "E_head" /\ threshold' = threshold
        /\ Goto(t, "E_cas") \/ SetFrame(t, again)
    BY <1>2, <1>10 DEF EnqHead
  <2>2. op'[t].pc \in EnqueuingPcs /\ Same(t)
    BY <1>0, <1>4, <1>6, <2>1 DEF EnqueuingPcs, Same
  <2> QED
    BY <2>1, <2>2 DEF Turns, EnqueueTurns, EnqueuingPcs
<1>11. CASE EnqCas(t)
  <2>1. op[t].pc = "E_cas" /\ threshold' = threshold
    BY <1>11 DEF EnqCas
  <2>2. CASE cell[Pos(t)] = op[t].entry
    <3>1. Goto(t, EnqDone(op[t]))
      BY <1>11, <2>2 DEF EnqCas, EnqDone
    <3>2. op'[t].pc = (IF op[t].nonempty THEN "E_done" ELSE "E_threshold") /\ Same(t)
      BY <1>6, <3>1 DEF EnqDone
    <3> QED
      BY <2>1, <3>2 DEF Turns, EnqueueTurns, Goes
  <2>3. CASE cell[Pos(t)] # op[t].entry
    <3>1. SetFrame(t, Judge(loaded))
      BY <1>1, <1>11, <2>3 DEF EnqCas
    <3> QED
      BY <1>7, <2>1, <3>1 DEF Turns, EnqueueTurns, EnqueuingPcs
  <2> QED
    BY <2>2, <2>3
<1>12. CASE EnqThreshold(t)
  <2>1. PICK pc : pc = IF threshold # Threshold3 THEN "E_raise" ELSE "E_done"
    OBVIOUS
  <2>2. Goto(t, pc) /\ op[t].pc = "E_threshold" /\ threshold' = threshold
    BY <1>12, <2>1 DEF EnqThreshold
  <2> QED
    BY <1>6, <2>1, <2>2 DEF Turns, EnqueueTurns, Goes
<1>13. CASE EnqRaise(t)
  <2>1. Goto(t, "E_done") /\ op[t].pc = "E_raise" /\ threshold' = Threshold3
    BY <1>13 DEF EnqRaise
  <2> QED
    BY <1>6, <2>1 DEF Turns, Goes
<1> QED
  BY <1>8, <1>9, <1>10, <1>11, <1>12, <1>13 DEF EnqueueStep

\* of dequeue,
LEMMA DequeueTurn ==
  ASSUME LapInv, NEW t \in Threads, DequeueStep(t)
  PROVE  Turns(t)
<1>0. /\ op[t] \in FrameType /\ cell[Pos(t)] \in WordType /\ op[t].nonempty \in BOOLEAN
      /\ ringTail \in Int /\ op[t].ticket \in Int
      /\ \A f : SetFrame(t, f) => op'[t] = f
  BY AtCell, Becomes DEF LapInv
<1>1. PICK loaded : loaded = [op[t] EXCEPT !.entry = cell[Pos(t)]]
  OBVIOUS
<1>2. loaded \in FrameType /\ loaded.nonempty = op[t].nonempty
  BY <1>0, <1>1, Loaded, ModeFields
<1>3. ASSUME NEW pc, NEW a, NEW b, SetFrame(t, Frame(pc, a, b))
      PROVE  op'[t].pc = pc /\ op'[t].arg = a /\ op'[t].nonempty = b
  BY <1>0, <1>3, Begun, ModeFields
<1>4. ASSUME NEW f \in FrameType, f.nonempty = op[t].nonempty, NEW g, SpentMode(f, g),
             SetFrame(t, g), op[t].pc \in {"D_load", "D_wait", "D_cas"}, threshold' = threshold
      PROVE  Turns(t)
  <2>1. op'[t] = g
    BY <1>0, <1>4
  <2> QED
    BY <1>4, <2>1 DEF Turns, TicketTurns, SpentMode, Same
<1>5. CASE DeqSizeTail(t)
  <2>1. PICK g : g = [op[t] EXCEPT !.pc = "D_size_head", !.tt = ringTail]
    OBVIOUS
  <2>2. g.pc = "D_size_head"
    BY <1>0, <2>1 DEF FrameType
  <2>3. SetFrame(t, g) /\ op[t].pc = "D_size_tail" /\ threshold' = threshold
    BY <1>5, <2>1 DEF DeqSizeTail
  <2> QED
    BY <1>0, <2>2, <2>3 DEF Turns, AskTurns, Goes
<1>6. CASE DeqSizeHead(t)
  <2>1. /\ op[t].pc = "D_size_head" /\ threshold' = threshold
        /\ \/ SetFrame(t, Frame("D_ticket", Invalid, TRUE))
           \/ SetFrame(t, Frame("D_done", Overflow, FALSE))
    BY <1>6 DEF DeqSizeHead, Answer
  <2> QED
    BY <1>3, <2>1 DEF Turns, AskTurns, Goes
<1>7. CASE DeqThreshold(t)
  <2>1. /\ op[t].pc = "D_threshold" /\ threshold' = threshold
        /\ \/ SetFrame(t, Frame("D_ticket", Invalid, FALSE))
           \/ SetFrame(t, Frame("D_done", Invalid, FALSE)) /\ ~(0 <= threshold)
    BY <1>7 DEF DeqThreshold, Answer
  <2> QED
    BY <1>3, <2>1 DEF Turns, AskTurns, Goes
<1>8. CASE DeqTicket(t)
  <2>1. PICK f : f = Frame("D_load", Invalid, op[t].nonempty)
    OBVIOUS
  <2>2. PICK g : g = [f EXCEPT !.ticket = ringHead]
    OBVIOUS
  <2>3. g.pc = "D_load" /\ g.nonempty = op[t].nonempty
    BY <2>1, <2>2 DEF Frame
  <2>4. SetFrame(t, g) /\ op[t].pc = "D_ticket" /\ threshold' = threshold
    BY <1>8, <2>1, <2>2 DEF DeqTicket
  <2> QED
    BY <1>0, <2>3, <2>4 DEF Turns, TicketTurns, Goes, Same
<1>9. CASE DeqLoad(t)
  <2>1. SetFrame(t, Seen(loaded)) /\ op[t].pc = "D_load" /\ threshold' = threshold
    BY <1>1, <1>9 DEF DeqLoad
  <2> QED
    BY <1>2, <1>4, <2>1, SeenInMode
<1>10. CASE DeqWait(t)
  <2>1. PICK f : f = [op[t] EXCEPT !.tt = ringTail]
    OBVIOUS
  <2>2. f \in FrameType /\ f.nonempty = op[t].nonempty
    BY <1>0, <2>1 DEF FrameType
  <2>3. SetFrame(t, Patience(f)) /\ op[t].pc = "D_wait" /\ threshold' = threshold
    BY <1>10, <2>1 DEF DeqWait
  <2> QED
    BY <1>4, <2>2, <2>3, PatientInMode
<1>11. CASE DeqTake(t)
  <2>1. PICK a : SetFrame(t, Frame("D_done", a, FALSE))
    BY <1>11 DEF DeqTake, Answer
  <2>2. op[t].pc = "D_take" /\ threshold' = threshold
    BY <1>11 DEF DeqTake
  <2> QED
    BY <1>3, <2>1, <2>2 DEF Turns, TicketTurns, Goes
<1>12. CASE DeqCas(t)
  <2>1. op[t].pc = "D_cas" /\ threshold' = threshold
    BY <1>12 DEF DeqCas
  <2>2. SetFrame(t, Spent(op[t])) \/ SetFrame(t, Seen(loaded))
    BY <1>1, <1>12 DEF DeqCas
  <2> QED
    BY <1>0, <1>2, <1>4, <2>1, <2>2, SpentInMode, SeenInMode
<1>13. CASE DeqTail(t)
  <2>1. PICK pc : pc = IF ringTail > op[t].ticket + 1 THEN "D_lower" ELSE "D_catch"
    OBVIOUS
  <2>2. PICK g : g = [op[t] EXCEPT !.tt = ringTail, !.pc = pc]
    OBVIOUS
  <2>3. g.pc = pc
    BY <1>0, <2>2 DEF FrameType
  <2>4. SetFrame(t, g) /\ op[t].pc = "D_tail" /\ threshold' = threshold
    BY <1>13, <2>1, <2>2 DEF DeqTail
  <2>5. ~(ringTail > op[t].ticket + 1) => ringTail <= op[t].ticket + 1
    BY <1>0
  <2> QED
    BY <1>0, <2>1, <2>3, <2>4, <2>5 DEF Turns, TailTurns, Goes
<1>14. CASE DeqLower(t)
  <2>1. /\ op[t].pc = "D_lower" /\ threshold' = threshold - 1
        /\ \/ SetFrame(t, Frame("D_ticket", Invalid, FALSE))
           \/ SetFrame(t, Frame("D_done", Invalid, FALSE)) /\ ~(0 < threshold)
    BY <1>14 DEF DeqLower, Answer
  <2> QED
    BY <1>3, <2>1 DEF Turns, LowerTurns, Goes
<1>15. CASE DeqCatch(t)
  <2>1. PICK a, b : a = [op[t] EXCEPT !.pc = "D_empty"] /\ b = [op[t] EXCEPT !.pc = "D_catch_tail"]
    OBVIOUS
  <2>2. a.pc = "D_empty" /\ b.pc = "D_catch_tail"
    BY <1>0, <2>1, Fields
  <2>3. /\ op[t].pc = "D_catch" /\ threshold' = threshold
        /\ SetFrame(t, a) \/ SetFrame(t, b)
    BY <1>15, <2>1 DEF DeqCatch, Goto
  <2> QED
    BY <1>0, <2>2, <2>3 DEF Turns, TailTurns, CatchPcs
<1>16. CASE DeqCatchTail(t)
  <2>1. PICK g : g = [op[t] EXCEPT !.pc = "D_catch_head", !.tt = ringTail]
    OBVIOUS
  <2>2. g.pc = "D_catch_head"
    BY <1>0, <2>1 DEF FrameType
  <2>3. SetFrame(t, g) /\ op[t].pc = "D_catch_tail" /\ threshold' = threshold
    BY <1>16, <2>1 DEF DeqCatchTail
  <2> QED
    BY <1>0, <2>2, <2>3 DEF Turns, TailTurns, CatchPcs
<1>17. CASE DeqCatchHead(t)
  <2>1. PICK pc, k : pc = (IF op[t].tt >= ringHead THEN "D_empty" ELSE "D_catch") /\ k = ringHead - 1
    OBVIOUS
  <2>2. PICK g : g = [op[t] EXCEPT !.ticket = k, !.pc = pc]
    OBVIOUS
  <2>3. g.pc = pc
    BY <1>0, <2>2 DEF FrameType
  <2>4. SetFrame(t, g) /\ op[t].pc = "D_catch_head" /\ threshold' = threshold
    BY <1>17, <2>1, <2>2 DEF DeqCatchHead
  <2> QED
    BY <1>0, <2>1, <2>3, <2>4 DEF Turns, TailTurns, CatchPcs
<1>18. CASE DeqEmpty(t)
  <2>1. op[t].pc = "D_empty" /\ threshold' = threshold - 1
        /\ SetFrame(t, Frame("D_done", Invalid, FALSE))
    BY <1>18 DEF DeqEmpty, Answer
  <2> QED
    BY <1>3, <2>1 DEF Turns, LowerTurns, Goes
<1> QED
  BY <1>5, <1>6, <1>7, <1>8, <1>9, <1>10, <1>11, <1>12, <1>13, <1>14, <1>15, <1>16, <1>17,
     <1>18 DEF DequeueStep

\* and of the client.
LEMMA Turn ==
  ASSUME LapInv, NEW t \in Threads, ThreadStep(t)
  PROVE  Turns(t)
<1>0. \A f : SetFrame(t, f) => op'[t] = f
  BY Becomes
<1>1. Idle.pc = "idle"
  BY DEF Idle, Frame
<1>2. CASE BeginEnqueue(t)
  <2>1. PICK v : /\ op[t] = Idle /\ SetFrame(t, Frame("E_ticket", v, freeList))
                 /\ threshold' = threshold
    BY <1>2 DEF BeginEnqueue, CallEnqueue
  <2>2. op'[t].pc = "E_ticket" /\ op'[t].nonempty = freeList
    BY <1>0, <2>1, Begun, ModeFields
  <2> QED
    BY <1>1, <2>1, <2>2 DEF Turns, CallTurns, Goes
<1>3. CASE BeginDequeue(t)
  <2>1. PICK pc : pc = IF freeList THEN "D_size_tail" ELSE "D_threshold"
    OBVIOUS
  <2>2. op[t] = Idle /\ SetFrame(t, Frame(pc, Invalid, freeList)) /\ threshold' = threshold
    BY <1>3, <2>1 DEF BeginDequeue, CallDequeue
  <2>3. op'[t].pc = pc
    BY <1>0, <2>2, Begun
  <2> QED
    BY <1>1, <2>1, <2>2, <2>3 DEF Turns, CallTurns, Goes
<1>4. CASE EndEnqueue(t) \/ EndDequeue(t)
  <2>1. op[t].pc \in {"E_done", "D_done"} /\ SetFrame(t, Idle) /\ threshold' = threshold
    BY <1>4 DEF EndEnqueue, EndDequeue, RingReturn
  <2> QED
    BY <1>0, <1>1, <2>1 DEF Turns, CallTurns
<1>5. CASE Step(t)
  BY <1>5, EnqueueTurn, DequeueTurn DEF Step, RingStep
<1> QED
  BY <1>2, <1>3, <1>4, <1>5 DEF ThreadStep

-----------------------------------------------------------------------------
(* The mode is the list's: the free list is asked cautiously.               *)
ModeOf(t) ==
  /\ op[t].pc \in EnqueuePcs \cup TicketPcs \cup {"D_ticket"} => op[t].nonempty = freeList
  /\ op[t].pc \in {"D_size_tail", "D_size_head"} => freeList
  /\ op[t].pc \in {"D_threshold", "D_tail", "D_lower"} \cup CatchPcs => ~freeList
Mode == \A t \in Threads : ModeOf(t)

LEMMA ModeKept ==
  ASSUME LapInv, Mode, NEW t \in Threads, Turns(t), \A u \in Threads \ {t} : op'[u] = op[u],
         freeList' = freeList
  PROVE  Mode'
<1>0. ModeOf(t) /\ freeList \in BOOLEAN /\ op[t].nonempty \in BOOLEAN
  BY AtCell DEF LapInv, Mode
<1>1. ModeOf(t)'
  <2>1. CASE CallTurns(t)
    BY <1>0, <2>1 DEF CallTurns, Goes, ModeOf, EnqueuePcs, TicketPcs, CatchPcs
  <2>2. CASE EnqueueTurns(t) \/ Goes(t, "E_raise", "E_done")
    BY <1>0, <2>2 DEF EnqueueTurns, Goes, Same, ModeOf, EnqueuePcs, TicketPcs, CatchPcs,
       EnqueuingPcs
  <2>3. CASE AskTurns(t)
    BY <1>0, <2>3 DEF AskTurns, Goes, ModeOf, EnqueuePcs, TicketPcs, CatchPcs
  <2>4. CASE TicketTurns(t)
    BY <1>0, <2>4 DEF TicketTurns, Goes, Same, ModeOf, EnqueuePcs, TicketPcs, CatchPcs
  <2>5. CASE TailTurns(t)
    BY <1>0, <2>5 DEF TailTurns, Goes, ModeOf, EnqueuePcs, TicketPcs, CatchPcs
  <2>6. CASE LowerTurns(t)
    BY <1>0, <2>6 DEF LowerTurns, Goes, ModeOf, EnqueuePcs, TicketPcs, CatchPcs
  <2> QED
    BY <2>1, <2>2, <2>3, <2>4, <2>5, <2>6 DEF Turns
<1>2. \A u \in Threads \ {t} : ModeOf(u)'
  BY DEF Mode, ModeOf
<1> QED
  BY <1>1, <1>2 DEF Mode

-----------------------------------------------------------------------------
(* The threshold covers every index on offer: the tickets without an index  *)
(* before it, and the dequeuers that may still lower the threshold.         *)
Offered(i) == Committed(i) /\ ringHead <= TicketOf(i) /\ cell[i].index \notin Raising
Missing(i) == {k \in ringHead..(TicketOf(i) - 1) : ~Stored(k)}
Covered(i) == Cardinality(Missing(i)) + Cardinality(Pend) <= threshold
ThresholdInv ==
  /\ threshold \in Int
  /\ ~freeList => /\ threshold <= Threshold3
                  /\ \A i \in 0..(N - 1) : Offered(i) => Covered(i)

\* An enqueuer that is done with the threshold.
Finishes(t) == Goes(t, "E_threshold", "E_done") \/ Goes(t, "E_raise", "E_done")

LEMMA OfferedKept ==
  ASSUME ServiceInv, ServiceInv', Mode, ~freeList, NEW t \in Threads, Outcome(t), Turns(t),
         NEW i \in 0..(N - 1), Offered(i)'
  PROVE  /\ Committed(i) /\ TicketOf(i)' = TicketOf(i) /\ TicketOf(i) \in Int
         /\ ringHead <= TicketOf(i) /\ ringHead' <= TicketOf(i) /\ TicketOf(i) < ringTail
         /\ Offered(i) \/ Finishes(t)
<1>0. /\ Typed /\ Typed' /\ TicketInv /\ CallsAreSound /\ CallsAreSound' /\ FilledByTicket
      /\ ringHead \in Int /\ ringHead' \in Int /\ ringTail \in Int /\ ringHead <= ringHead'
  BY Types, TypesNext, CountersGrow DEF ServiceInv, TicketInv, Typed
<1>1. cell'[i].index \in Indexes /\ cell'[i].index \notin Raising' /\ ringHead' <= TicketOf(i)'
  BY <1>0 DEF Offered, Committed, CallsAreSound
<1>2. ~(Commits(t) /\ cell'[i].index = op[t].arg)
  <2> SUFFICES ASSUME Commits(t), cell'[i].index = op[t].arg PROVE FALSE
    OBVIOUS
  <2>1. op[t].pc = "E_cas" /\ op'[t].pc \in {"E_threshold", "E_done"} /\ op'[t].arg = op[t].arg
    BY DEF Commits
  <2>2. ~op[t].nonempty
    BY <2>1 DEF Mode, ModeOf, EnqueuePcs
  <2>3. op'[t].pc = "E_threshold"
    BY <2>1, <2>2 DEF Turns, CallTurns, EnqueueTurns, AskTurns, TicketTurns, TailTurns,
       LowerTurns, Goes, EnqueuingPcs, CatchPcs
  <2> QED
    BY <1>1, <2>1, <2>3 DEF Raising
<1>3. cell[i].index = cell'[i].index /\ TicketOf(i)' = TicketOf(i)
  BY <1>0, <1>1, <1>2, Elements
<1>4. Committed(i) /\ TicketOf(i) < ringTail /\ TicketOf(i) \in Int
  <2>1. Committed(i) /\ TicketOf(i) < ringTail
    BY <1>0, <1>1, <1>3, EmptyIsNoIndex DEF Committed, FilledByTicket
  <2>2. cell[i].cycle \in Int /\ N \in Int /\ i \in Int
    BY <1>0, Sizes DEF Typed
  <2> QED
    BY <2>1, <2>2 DEF TicketOf
<1>5. ringHead <= TicketOf(i) /\ ringHead' <= TicketOf(i)
  BY <1>0, <1>1, <1>3, <1>4
<1>6. ASSUME cell[i].index \in Raising PROVE Finishes(t)
  <2>1. PICK u \in Threads : op[u].pc \in {"E_threshold", "E_raise"} /\ op[u].arg = cell[i].index
    BY <1>6 DEF Raising
  <2>2. op'[u] # op[u] \/ u = t
    BY <1>1, <1>3, <2>1 DEF Raising
  <2>3. u = t
    BY <2>2 DEF Outcome
  <2>4. ~(op'[t].pc = "E_raise" /\ op'[t].arg = op[t].arg)
    BY <1>1, <1>3, <2>1, <2>3 DEF Raising
  <2> QED
    BY <2>1, <2>3, <2>4 DEF Turns, CallTurns, EnqueueTurns, AskTurns, TicketTurns, TailTurns,
       LowerTurns, Goes, EnqueuingPcs, CatchPcs, Finishes
<1> QED
  BY <1>3, <1>4, <1>5, <1>6 DEF Offered

\* Who goes from one point of dequeue() to the other draws a ticket.
LEMMA ClaimsTicket ==
  ASSUME NEW t \in Threads, Outcome(t), Goes(t, "D_ticket", "D_load")
  PROVE  Claims(t)
BY DEF Goes, Outcome, Enters, EnqueueOutcome, DequeueOutcome, Draws, Judges, Dares,
   Restarts, Commits, Raises, Decides, Waits, Again, Prepares, Passes, Takes, Replaces,
   Searches, FreePcs, TicketPcs

\* An index stays stored under its ticket until the dequeuer of the ticket takes it.
LEMMA StoredKept ==
  ASSUME ServiceInv, ServiceInv', NEW t \in Threads, Outcome(t), NEW k, Stored(k),
         ~(Takes(t) /\ k = op[t].ticket)
  PROVE  Stored(k)'
<1>0. Typed /\ Typed' /\ TicketInv /\ CallsAreSound
  BY Types, TypesNext DEF ServiceInv, TicketInv
<1>1. PICK i \in 0..(N - 1) : Committed(i) /\ TicketOf(i) = k
  BY DEF Stored
<1>2. cell[i].index \in Indexes
  BY <1>0, <1>1 DEF CallsAreSound, Committed
<1>3. cell'[i].index = cell[i].index
  <2> SUFFICES ASSUME Takes(t), i = Cell(op[t].ticket) PROVE FALSE
    BY <1>0, <1>2, Elements
  <2> QED
    BY <1>0, <1>1, TakesItsTicket
<1>4. TicketOf(i)' = TicketOf(i)
  BY <1>0, <1>2, <1>3, Elements, EmptyIsNoIndex
<1>5. Committed(i)'
  BY <1>1, <1>3 DEF Committed
<1> QED
  BY <1>1, <1>4, <1>5 DEF Stored

\* A dequeuer gives up no ticket that an index is stored under.
LEMMA GivesUpNothing ==
  ASSUME ServiceInv, NEW t \in Threads, Outcome(t), Goes(t, op[t].pc, "D_tail"),
         op[t].pc \in SpendPcs
  PROVE  ~Stored(op[t].ticket)
<1> SUFFICES ASSUME NEW i \in 0..(N - 1), Committed(i), TicketOf(i) = op[t].ticket
             PROVE  FALSE
  BY DEF Stored
<1>0. Typed /\ TicketInv /\ CallsAreSound /\ FilledByTicket /\ ViewsAreOld /\ Sound(t)
  BY Types DEF ServiceInv, TicketInv, CallsAreSound
<1>1. cell[i].cycle \in Nat
  BY <1>0 DEF FilledByTicket
<1>2. i = Cell(op[t].ticket) /\ cell[i].cycle = Lap(t)
  BY <1>1, Unsplit DEF TicketOf, Lap
<1>3. Here(t).cycle = Lap(t) /\ Lap(t) \in Int
  BY <1>1, <1>2 DEF Here
<1>4. Passes(t) \/ Replaces(t)
  BY DEF Goes, SpendPcs, Outcome, Enters, EnqueueOutcome, DequeueOutcome, Draws, Judges, Dares,
     Restarts, Commits, Raises, Claims, Decides, Waits, Again, Prepares, Takes, Searches,
     FreePcs, TicketPcs
<1>5. op[t].entry.cycle \in Int
  BY <1>0 DEF Typed
<1>6. CASE Passes(t)
  <2>1. op[t].pc = "D_wait" /\ Lap(t) <= op[t].entry.cycle
    BY <1>3, <1>6 DEF Passes
  <2>2. op[t].entry.cycle # Lap(t) /\ op[t].entry.cycle <= Here(t).cycle
    BY <1>0, <2>1 DEF Sound, ViewsAreOld, ViewPcs
  <2> QED
    BY <1>3, <1>5, <2>1, <2>2
<1>7. CASE Replaces(t)
  BY <1>0, <1>3, <1>7 DEF Replaces, Sound
<1> QED
  BY <1>4, <1>6, <1>7

\* The dequeuers that may still lower the threshold.
LEMMA PendKept ==
  ASSUME ServiceInv, ServiceInv', Mode, ~freeList, NEW t \in Threads, Outcome(t), Turns(t)
  PROVE  /\ Pend' \subseteq Pend \cup {t}
         /\ t \in Pend' => t \in Pend \/ (Claims(t) /\ ~Stored(ringHead))
         /\ LowerTurns(t) => t \in Pend /\ t \notin Pend'
<1>0. \A u \in Threads \ {t} : op'[u] = op[u]
  BY DEF Outcome
<1>1. ASSUME NEW u, u \in Pend', u # t PROVE u \in Pend
  <2>1. u \in Threads /\ op'[u] = op[u]
    BY <1>0, <1>1 DEF Pend
  <2>2. CASE op[u].pc \in LowerPcs
    BY <2>1, <2>2 DEF Pend
  <2>3. CASE op[u].pc \in SpendPcs /\ ~Stored(op[u].ticket)'
    <3>1. ~(Takes(t) /\ op[u].ticket = op[t].ticket)
      BY <1>1, <2>1, <2>3
         DEF ServiceInv, TicketInv, TicketsAreDrawn, TicketPcs, SpendPcs, Takes
    <3>2. ~Stored(op[u].ticket)
      <4>1. PICK k : k = op[u].ticket
        OBVIOUS
      <4>2. op'[u].ticket = k
        BY <2>1, <4>1
      <4> QED
        BY <2>3, <3>1, <4>1, <4>2, StoredKept
    <3> QED
      BY <2>1, <2>3, <3>2 DEF Pend
  <2> QED
    BY <1>1, <2>1, <2>2, <2>3 DEF Pend
<1>2. ASSUME t \in Pend' PROVE t \in Pend \/ (Claims(t) /\ ~Stored(ringHead))
  <2>1. \/ op[t].pc \in LowerPcs
        \/ op[t].pc \in SpendPcs /\ op'[t].pc = "D_tail"
        \/ op[t].pc \in SpendPcs /\ op'[t].pc \in SpendPcs
        \/ Goes(t, "D_ticket", "D_load")
    <3>1. op'[t].pc \in LowerPcs \cup SpendPcs
      BY <1>2 DEF Pend
    <3>2. op[t].pc \in SpendPcs => ~op[t].nonempty
      BY DEF SpendPcs, Mode, ModeOf, TicketPcs
    <3> QED
      BY <3>1, <3>2 DEF Turns, CallTurns, EnqueueTurns, AskTurns, TicketTurns, TailTurns,
         LowerTurns, Goes, EnqueuingPcs, CatchPcs, TicketPcs, LowerPcs, SpendPcs
  <2>2. CASE op[t].pc \in LowerPcs
    BY <2>2 DEF Pend
  <2>3. CASE op[t].pc \in SpendPcs /\ op'[t].pc = "D_tail"
    BY <2>3, GivesUpNothing DEF Pend, Goes
  <2>4. CASE op[t].pc \in SpendPcs /\ op'[t].pc \in SpendPcs
    <3>1. KeepsTicket(t) /\ ~Takes(t)
      BY <2>4 DEF SpendPcs, Outcome, Enters, EnqueueOutcome, DequeueOutcome, Draws, Judges,
         Dares, Restarts, Commits, Raises, Claims, Decides, Waits, Again, Prepares, Passes,
         Takes, Replaces, Searches, FreePcs, TicketPcs
    <3>2. ~Stored(op[t].ticket)'
      BY <1>2, <2>4 DEF Pend, SpendPcs, LowerPcs, CatchPcs
    <3>3. PICK k : k = op[t].ticket
      OBVIOUS
    <3>4. ~Stored(k)'
      BY <3>1, <3>2, <3>3 DEF KeepsTicket
    <3> QED
      BY <2>4, <3>1, <3>3, <3>4, StoredKept DEF Pend
  <2>5. CASE Goes(t, "D_ticket", "D_load")
    <3>1. Claims(t)
      BY <2>5, ClaimsTicket
    <3>2. ~Stored(op[t].ticket)'
      BY <1>2, <2>5 DEF Pend, Goes, LowerPcs, CatchPcs
    <3>3. PICK k : k = ringHead
      OBVIOUS
    <3>4. ~Stored(k)' /\ ~Takes(t)
      BY <2>5, <3>1, <3>2, <3>3 DEF Claims, Takes
    <3> QED
      BY <3>1, <3>3, <3>4, StoredKept
  <2> QED
    BY <2>1, <2>2, <2>3, <2>4, <2>5
<1>3. LowerTurns(t) => t \in Pend /\ t \notin Pend'
  BY DEF LowerTurns, Goes, Pend, LowerPcs, SpendPcs, CatchPcs
<1> QED
  BY <1>1, <1>2, <1>3

\* The tickets without an index before one on offer.
LEMMA MissingKept ==
  ASSUME ServiceInv, ServiceInv', Mode, ~freeList, NEW t \in Threads, Outcome(t), Turns(t),
         NEW i \in 0..(N - 1), Offered(i)'
  PROVE  /\ Missing(i)' \subseteq Missing(i) /\ Missing(i) \subseteq Window
         /\ Claims(t) => ringHead \notin Missing(i)'
         /\ Claims(t) /\ ~Stored(ringHead) => ringHead \in Missing(i)
<1>0. /\ Typed /\ TicketInv /\ ringHead \in Int /\ ringHead' \in Int /\ ringTail \in Int
      /\ ringHead <= ringHead'
  BY Types, TypesNext, CountersGrow DEF ServiceInv, TicketInv, Typed
<1>1. /\ TicketOf(i)' = TicketOf(i) /\ TicketOf(i) \in Int
      /\ ringHead' <= TicketOf(i) /\ TicketOf(i) < ringTail
  BY OfferedKept
<1>2. ASSUME NEW k, k \in Missing(i)' PROVE k \in Missing(i)
  <2>1. k \in ringHead'..(TicketOf(i) - 1) /\ ~Stored(k)'
    BY <1>1, <1>2 DEF Missing
  <2>2. k \in Int /\ ringHead' <= k /\ k <= TicketOf(i) - 1
    BY <1>0, <1>1, <2>1
  <2>3. ~(Takes(t) /\ k = op[t].ticket)
    <3> SUFFICES ASSUME Takes(t), k = op[t].ticket PROVE FALSE
      OBVIOUS
    <3>1. k < ringHead
      BY <1>0, TakesItsTicket
    <3> QED
      BY <1>0, <2>2, <3>1
  <2>4. ~Stored(k)
    BY <2>1, <2>3, StoredKept
  <2> QED
    BY <1>0, <1>1, <2>2, <2>4 DEF Missing
<1>3. Missing(i) \subseteq Window
  BY <1>0, <1>1 DEF Missing, Window
<1>4. Claims(t) => ringHead' = ringHead + 1
  BY DEF Claims
<1>5. ASSUME Claims(t) PROVE ringHead \notin Missing(i)'
  <2>1. Missing(i)' \subseteq ringHead'..(TicketOf(i) - 1)
    BY <1>1 DEF Missing
  <2> QED
    BY <1>0, <1>1, <1>4, <1>5, <2>1
<1>6. ASSUME Claims(t), ~Stored(ringHead) PROVE ringHead \in Missing(i)
  BY <1>0, <1>1, <1>4, <1>6 DEF Missing
<1> QED
  BY <1>2, <1>3, <1>5, <1>6

\* Where the threshold is raised it covers them: fewer tickets are skipped than
\* there are indexes, and every other one has a thread of its own.
LEMMA RaisedEnough ==
  ASSUME ServiceInv, SkipInv, NEW t \in Threads, Finishes(t),
         \A u \in Threads \ {t} : op'[u] = op[u], NEW S \in SUBSET Window,
         \A k \in S : ~Stored(k), IsFiniteSet(Threads)
  PROVE  Cardinality(S) + Cardinality(Pend') <= Half - 1 + Cardinality(Threads) - 1
<1> DEFINE B == {k \in S : Bound(k)}
           L == {u \in Threads : op[u].pc \in LatePcs}
           f == [k \in B |-> CHOOSE u \in L : op[u].ticket = k]
<1>1. PICK Q : Q = Pend'
  OBVIOUS
<1>2. /\ IsFiniteSet(Threads \ {t}) /\ Cardinality(Threads \ {t}) = Cardinality(Threads) - 1
      /\ Cardinality(Threads) \in Nat
  BY FS_RemoveElement, FS_CardinalityType
<1>3. t \notin L /\ t \notin Q /\ Q \subseteq Threads /\ L \subseteq Threads
  BY <1>1 DEF Finishes, Goes, LatePcs, Pend, LowerPcs, SpendPcs, CatchPcs
<1>4. L \cap Q = {}
  <2> SUFFICES ASSUME NEW u \in L, u \in Q PROVE FALSE
    OBVIOUS
  <2>1. op'[u] = op[u]
    BY <1>3
  <2> QED
    BY <1>1, <2>1 DEF LatePcs, Pend, LowerPcs, SpendPcs, CatchPcs
<1>5. \A k \in B : f[k] \in L /\ op[f[k]].ticket = k
  BY DEF Bound
<1>6. S \ B \subseteq Skips
  BY DEF Skips
<1> HIDE DEF L
<1>7. f \in Injection(B, L)
  <2>1. f \in [B -> L]
    BY <1>5
  <2> QED
    BY <1>5, <2>1 DEF Injection, IsInjective
<1> HIDE DEF f
<1>8. /\ IsFiniteSet(L) /\ IsFiniteSet(Q) /\ Cardinality(L) \in Nat /\ Cardinality(Q) \in Nat
      /\ Cardinality(L) + Cardinality(Q) <= Cardinality(Threads) - 1
  <2>1. L \in SUBSET (Threads \ {t}) /\ Q \in SUBSET (Threads \ {t})
        /\ L \cup Q \in SUBSET (Threads \ {t})
    BY <1>3
  <2>2. /\ IsFiniteSet(L) /\ IsFiniteSet(Q)
        /\ Cardinality(L \cup Q) <= Cardinality(Threads \ {t})
    BY <1>2, <2>1, FS_Subset
  <2>3. /\ Cardinality(L) \in Nat /\ Cardinality(Q) \in Nat
        /\ Cardinality(L \cup Q) = Cardinality(L) + Cardinality(Q)
    <3>1. Cardinality(L \cup Q) = Cardinality(L) + Cardinality(Q) - Cardinality(L \cap Q)
      BY <2>2, FS_Union
    <3>2. Cardinality(L \cap Q) = 0
      BY <1>4, FS_EmptySet
    <3>3. Cardinality(L) \in Nat /\ Cardinality(Q) \in Nat
      BY <2>2, FS_CardinalityType
    <3> QED
      BY <3>1, <3>2, <3>3
  <2> QED
    BY <1>2, <2>2, <2>3
<1>9. IsFiniteSet(B) /\ Cardinality(B) <= Cardinality(L) /\ Cardinality(B) \in Nat
  BY <1>7, <1>8, FS_Injection, FS_CardinalityType
<1>10. /\ IsFiniteSet(S \ B) /\ Cardinality(S \ B) <= Half - 1 /\ Cardinality(S \ B) \in Nat
  <2>1. IsFiniteSet(Skips) /\ Cardinality(Skips) \in Nat /\ Cardinality(Skips) <= Half - 1
    BY SkipBound
  <2>2. IsFiniteSet(S \ B) /\ Cardinality(S \ B) <= Cardinality(Skips)
    BY <1>6, <2>1, FS_Subset
  <2>3. Cardinality(S \ B) \in Nat
    BY <2>2, FS_CardinalityType
  <2> QED
    BY <2>1, <2>2, <2>3, HalfAssumption
<1>11. Cardinality(S) = Cardinality(S \ B) + Cardinality(B)
  <2>1. S = (S \ B) \cup B /\ (S \ B) \cap B = {}
    OBVIOUS
  <2> HIDE DEF B
  <2>2. PICK A : A = S \ B
    OBVIOUS
  <2>3. Cardinality(A \cup B) = Cardinality(A) + Cardinality(B) - Cardinality(A \cap B)
    BY <1>9, <1>10, <2>2, FS_Union
  <2>4. Cardinality(A \cap B) = 0
    BY <2>1, <2>2, FS_EmptySet
  <2>5. S = A \cup B
    BY <2>1, <2>2
  <2>6. Cardinality(A) \in Nat /\ Cardinality(B) \in Nat
    BY <1>9, <1>10, <2>2
  <2>7. Cardinality(A \cup B) = Cardinality(A) + Cardinality(B)
    BY <2>3, <2>4, <2>6
  <2>8. Cardinality(S) = Cardinality(A) + Cardinality(B)
    BY <2>5, <2>7
  <2> QED
    BY <2>2, <2>8
<1> HIDE DEF B
<1> QED
  BY <1>1, <1>2, <1>8, <1>9, <1>10, <1>11, HalfAssumption

LEMMA ThresholdKept ==
  ASSUME ServiceInv, ServiceInv', GapInv, Mode, ThresholdInv, NEW t \in Threads, Outcome(t),
         Turns(t), freeList' = freeList,
         IsFiniteSet(Threads), Cardinality(Threads) <= N + 1
  PROVE  ThresholdInv'
<1>0. /\ LapInv /\ threshold \in Int /\ Threshold3 \in Int
      /\ Half \in Nat /\ N = 2 * Half /\ Threshold3 = 3 * Half - 1
      /\ Cardinality(Threads) \in Nat
  BY HalfAssumption, FS_CardinalityType DEF ServiceInv, LapInv, ThresholdInv, Threshold3, N
<1>1. /\ threshold' \in Int
      /\ \/ threshold' = threshold /\ ~LowerTurns(t)
         \/ threshold' = Threshold3 /\ Finishes(t)
         \/ threshold' = threshold - 1 /\ LowerTurns(t)
  <2>1. CallTurns(t) \/ EnqueueTurns(t) \/ AskTurns(t) \/ TicketTurns(t) \/ TailTurns(t)
          => ~LowerTurns(t)
    BY DEF CallTurns, EnqueueTurns, AskTurns, TicketTurns, TailTurns, LowerTurns, Goes,
       EnqueuingPcs, CatchPcs
  <2> QED
    BY <1>0, <2>1 DEF Turns, Finishes
<1>2. Finishes(t) => threshold' = Threshold3
  BY DEF Finishes, Turns, CallTurns, EnqueueTurns, AskTurns, TicketTurns, TailTurns, LowerTurns,
     Goes, EnqueuingPcs, CatchPcs
<1>3. ~freeList => threshold' <= Threshold3
  BY <1>0, <1>1 DEF ThresholdInv
<1>4. ASSUME ~freeList, NEW i \in 0..(N - 1), Offered(i)' PROVE Covered(i)'
  <2>1. PICK P, Q, M, R : P = Pend /\ Q = Pend' /\ M = Missing(i) /\ R = Missing(i)'
    OBVIOUS
  <2>2. /\ Q \subseteq P \cup {t}
        /\ t \in Q => t \in P \/ (Claims(t) /\ ~Stored(ringHead))
        /\ LowerTurns(t) => t \in P /\ t \notin Q
    BY <1>4, <2>1, PendKept
  <2>3. /\ R \subseteq M /\ M \subseteq Window
        /\ Claims(t) => ringHead \notin R
        /\ Claims(t) /\ ~Stored(ringHead) => ringHead \in M
    BY <1>4, <2>1, MissingKept
  <2>4. /\ IsFiniteSet(P) /\ IsFiniteSet(Q) /\ IsFiniteSet(M) /\ IsFiniteSet(R)
        /\ Cardinality(P) \in Nat /\ Cardinality(Q) \in Nat
        /\ Cardinality(M) \in Nat /\ Cardinality(R) \in Nat
    <3>1. P \in SUBSET Threads /\ Q \in SUBSET Threads
      BY <2>1 DEF Pend
    <3>2. IsFiniteSet(Window)
      BY SkipBound DEF GapInv
    <3>3. M \in SUBSET Window /\ R \in SUBSET Window
      BY <2>3
    <3>4. IsFiniteSet(P) /\ IsFiniteSet(Q)
      BY <3>1, FS_Subset
    <3>5. IsFiniteSet(M) /\ IsFiniteSet(R)
      BY <3>2, <3>3, FS_Subset
    <3> QED
      BY <3>4, <3>5, FS_CardinalityType
  <2>5. Cardinality(R) + Cardinality(Q) <= threshold'
    <3>1. CASE Finishes(t)
      <4>1. \A k \in M : ~Stored(k)
        BY <2>1 DEF Missing
      <4>2. Cardinality(M) + Cardinality(Q) <= Half - 1 + Cardinality(Threads) - 1
        BY <2>1, <2>3, <3>1, <4>1, RaisedEnough DEF GapInv, Outcome
      <4>3. Cardinality(R) <= Cardinality(M)
        BY <2>3, <2>4, FS_Subset
      <4> QED
        BY <1>0, <1>2, <2>4, <3>1, <4>2, <4>3
    <3>2. CASE ~Finishes(t)
      <4>1. Cardinality(M) + Cardinality(P) <= threshold
        BY <1>4, <2>1, <3>2, OfferedKept DEF ThresholdInv, Covered
      <4>2. threshold' = threshold \/ (threshold' = threshold - 1 /\ LowerTurns(t))
        BY <1>1, <3>2
      <4>3. CASE t \in Q /\ t \notin P
        <5>1. ringHead \in M /\ ringHead \notin R /\ ~LowerTurns(t)
          BY <2>2, <2>3, <4>3
        <5>2. R \in SUBSET (M \ {ringHead})
          BY <2>3, <5>1
        <5>3. IsFiniteSet(M \ {ringHead}) /\ Cardinality(M \ {ringHead}) = Cardinality(M) - 1
          BY <2>4, <5>1, FS_RemoveElement
        <5>4. Cardinality(R) <= Cardinality(M) - 1
          BY <5>2, <5>3, FS_Subset
        <5>5. IsFiniteSet(P \cup {t}) /\ Cardinality(P \cup {t}) = Cardinality(P) + 1
          BY <2>4, <4>3, FS_AddElement
        <5>6. Cardinality(Q) <= Cardinality(P) + 1
          BY <2>2, <5>5, FS_Subset
        <5> QED
          BY <1>0, <2>4, <4>1, <4>2, <5>1, <5>4, <5>6
      <4>4. CASE t \notin Q \/ t \in P
        <5>1. Cardinality(R) <= Cardinality(M)
          BY <2>3, <2>4, FS_Subset
        <5>2. Q \in SUBSET P
          BY <2>2, <4>4
        <5>3. Cardinality(Q) <= Cardinality(P)
          BY <2>4, <5>2, FS_Subset
        <5>4. ASSUME LowerTurns(t) PROVE Cardinality(Q) <= Cardinality(P) - 1
          <6>1. Q \in SUBSET (P \ {t})
            BY <2>2, <5>2, <5>4
          <6>2. IsFiniteSet(P \ {t}) /\ Cardinality(P \ {t}) = Cardinality(P) - 1
            BY <2>2, <2>4, <5>4, FS_RemoveElement
          <6> QED
            BY <6>1, <6>2, FS_Subset
        <5> QED
          BY <1>0, <2>4, <4>1, <4>2, <5>1, <5>3, <5>4
      <4> QED
        BY <4>3, <4>4
    <3> QED
      BY <3>1, <3>2
  <2> QED
    BY <2>1, <2>5 DEF Covered
<1> QED
  BY <1>1, <1>3, <1>4 DEF ThresholdInv

-----------------------------------------------------------------------------
(* What a call that answers "empty" has seen.                               *)
SawOf(t) ==
  op[t].pc \in CatchPcs \/ (op[t].pc = "D_done" /\ op[t].arg = Invalid) => sawEmpty[t]
Saw == \A t \in Threads : SawOf(t)

LEMMA SawKept ==
  ASSUME ServiceInv, ServiceInv', GapInv, Mode, ThresholdInv, ThresholdInv', Saw,
         NEW t \in Threads,
         Outcome(t), Turns(t), ObserveOffer, freeList' = freeList, IsFiniteSet(Threads)
  PROVE  Saw'
<1>0. /\ Typed /\ TicketInv /\ ringHead \in Int /\ ringTail \in Int /\ ringHead' \in Int
      /\ DOMAIN cell' = 0..(N - 1)
  BY Types DEF ServiceInv, LapInv
<1>1. ASSUME \A i \in 0..(N - 1) : ~Offered(i)' PROVE OnOffer' = {}
  BY <1>0, <1>1 DEF OnOffer, Offered
<1>2. \A u \in Threads : op'[u].pc \in CatchPcs \cup {"D_done"} /\ (sawEmpty[u] \/ OnOffer' = {})
                           => sawEmpty'[u]
  BY DEF ObserveOffer, Dequeuing, DequeuePcs, CatchPcs
<1>3. ASSUME ~freeList, threshold' < 0
      PROVE  OnOffer' = {}
  <2> SUFFICES ASSUME NEW i \in 0..(N - 1), Offered(i)' PROVE FALSE
    BY <1>1
  <2>1. PICK P, M : P = Pend' /\ M = Missing(i)'
    OBVIOUS
  <2>2. Cardinality(P) \in Nat /\ Cardinality(M) \in Nat
    <3>1. IsFiniteSet(Window)
      BY SkipBound DEF GapInv
    <3>2. M \in SUBSET Window
      BY <1>3, <2>1, MissingKept
    <3>3. P \in SUBSET Threads
      BY <2>1 DEF Pend
    <3>4. IsFiniteSet(P) /\ IsFiniteSet(M)
      BY <3>1, <3>2, <3>3, FS_Subset
    <3> QED
      BY <3>4, FS_CardinalityType
  <2>3. Cardinality(M) + Cardinality(P) <= threshold'
    BY <1>3, <2>1 DEF ThresholdInv, Covered
  <2>4. threshold' \in Int
    BY DEF ThresholdInv
  <2> QED
    BY <1>3, <2>2, <2>3, <2>4
<1>4. ASSUME NEW u \in Threads, u # t PROVE SawOf(u)'
  <2>1. SawOf(u) /\ op'[u] = op[u]
    BY <1>4 DEF Saw, Outcome
  <2> QED
    BY <1>2, <2>1 DEF SawOf
<1>5. SawOf(t)'
  <2> SUFFICES ASSUME op'[t].pc \in CatchPcs \/ (op'[t].pc = "D_done" /\ op'[t].arg = Invalid)
               PROVE  sawEmpty'[t]
    BY DEF SawOf
  <2>0. op'[t].pc \in CatchPcs \cup {"D_done"}
    OBVIOUS
  <2>1. \/ op[t].pc \in CatchPcs
        \/ Goes(t, "D_tail", "D_catch") /\ ringTail <= op[t].ticket + 1
        \/ Goes(t, "D_threshold", "D_done") /\ ~(0 <= threshold) /\ threshold' = threshold
        \/ Goes(t, "D_lower", "D_done") /\ ~(0 < threshold) /\ threshold' = threshold - 1
        \/ Goes(t, "D_take", "D_done")
    BY AnswerAssumption DEF Turns, CallTurns, EnqueueTurns, AskTurns, TicketTurns, TailTurns,
       LowerTurns, Goes, EnqueuingPcs, CatchPcs, TicketPcs
  <2>2. CASE op[t].pc \in CatchPcs
    BY <1>2, <2>0, <2>2 DEF Saw, SawOf
  <2>3. CASE Goes(t, "D_tail", "D_catch") /\ ringTail <= op[t].ticket + 1
    <3>1. op[t].ticket < ringHead /\ op[t].ticket \in Int /\ ~freeList
      BY <1>0, <2>3 DEF GapInv, Behind, Goes, Typed, Mode, ModeOf
    <3>2. ASSUME NEW i \in 0..(N - 1), Offered(i)' PROVE FALSE
      <4>1. /\ TicketOf(i) \in Int /\ ringHead <= TicketOf(i) /\ TicketOf(i) < ringTail
        BY <3>1, <3>2, OfferedKept
      <4> QED
        BY <1>0, <2>3, <3>1, <4>1
    <3>3. OnOffer' = {}
      BY <1>1, <3>2
    <3> QED
      BY <1>2, <2>0, <3>3
  <2>4. CASE \/ Goes(t, "D_threshold", "D_done") /\ ~(0 <= threshold) /\ threshold' = threshold
             \/ Goes(t, "D_lower", "D_done") /\ ~(0 < threshold) /\ threshold' = threshold - 1
    <3>1. ~freeList
      BY <2>4 DEF Goes, Mode, ModeOf
    <3>2. threshold' < 0
      BY <2>4 DEF ThresholdInv
    <3> QED
      BY <1>2, <1>3, <2>0, <3>1, <3>2
  <2>5. CASE Goes(t, "D_take", "D_done")
    <3>1. Takes(t)
      BY <2>5 DEF Goes, Outcome, Enters, EnqueueOutcome, DequeueOutcome, Draws, Judges, Dares,
         Restarts, Commits, Raises, Claims, Decides, Waits, Again, Prepares, Passes, Replaces,
         Searches, FreePcs, TicketPcs
    <3>2. op'[t].arg \in Indexes
      BY <1>0, <3>1, TakesItsTicket DEF Takes
    <3>3. op'[t].arg = Invalid
      BY <2>5 DEF Goes, CatchPcs
    <3> QED
      BY <3>2, <3>3, AnswerAssumption
  <2> QED
    BY <2>1, <2>2, <2>3, <2>4, <2>5
<1> QED
  BY <1>4, <1>5 DEF Saw

-----------------------------------------------------------------------------
EmptyInv == Mode /\ ThresholdInv /\ Saw

LEMMA EmptyInit == clientInit => EmptyInv
<1> SUFFICES ASSUME clientInit PROVE EmptyInv
  OBVIOUS
<1>1. op = [t \in Threads |-> Idle] /\ Idle.pc = "idle"
  BY DEF clientInit, InitFull, InitCleared, Idle, Frame
<1>2. Mode /\ Saw
  BY <1>1 DEF Mode, ModeOf, Saw, SawOf, EnqueuePcs, TicketPcs, CatchPcs
<1>3. Threshold3 \in Int /\ -1 <= Threshold3 /\ -1 \in Int
  BY HalfAssumption DEF Threshold3
<1>4. threshold \in Int
  BY <1>3 DEF clientInit, InitFull, InitCleared
<1>5. ASSUME ~freeList
      PROVE  threshold <= Threshold3 /\ \A i \in 0..(N - 1) : ~Offered(i)
  <2>1. threshold = -1 /\ cell = [i \in 0..(N - 1) |-> CellWord(-1, TRUE, Empty)]
    BY <1>5 DEF clientInit, InitCleared
  <2>2. \A i \in 0..(N - 1) : cell[i].index = Empty
    BY <2>1 DEF CellWord
  <2> QED
    BY <1>3, <2>1, <2>2 DEF Offered, Committed
<1> QED
  BY <1>2, <1>4, <1>5 DEF EmptyInv, ThresholdInv

LEMMA EmptyKept ==
  ASSUME ServiceInv, ServiceInv', GapInv, EmptyInv, [clientNext]_clientVars,
         IsFiniteSet(Threads), Cardinality(Threads) <= N + 1
  PROVE  EmptyInv'
<1>1. CASE clientNext
  <2>1. PICK t \in Threads : ThreadStep(t)
    BY <1>1 DEF clientNext
  <2>2. LapInv /\ Outcome(t) /\ Turns(t) /\ ObserveOffer /\ freeList' = freeList
    BY <1>1, <2>1, StepOutcome, Turn DEF ServiceInv, clientNext
  <2>3. Mode'
    BY <2>2, ModeKept DEF EmptyInv, Outcome
  <2>4. ThresholdInv'
    BY <2>2, ThresholdKept DEF EmptyInv
  <2>5. Saw'
    BY <2>2, <2>4, SawKept DEF EmptyInv
  <2> QED
    BY <2>3, <2>4, <2>5 DEF EmptyInv
<1>2. CASE UNCHANGED clientVars
  <2>1. UNCHANGED <<ringHead, threshold, cell, op, freeList, sawEmpty>>
    BY <1>2 DEF clientVars
  <2>2. Mode' /\ Saw'
    BY <2>1 DEF EmptyInv, Mode, ModeOf, Saw, SawOf
  <2>3. ThresholdInv'
    BY <2>1 DEF EmptyInv, ThresholdInv, Offered, Covered, Missing, Stored, Committed,
       TicketOf, Raising, Pend
  <2> QED
    BY <2>2, <2>3 DEF EmptyInv
<1> QED
  BY <1>1, <1>2

\* AnswersAreOrdered: indexes come out in the order in which they went in, and
\* dequeue answers "empty" only if at some time during the call nothing was on
\* offer: the threshold is high enough for the tickets and the threads in use.
\* The class assumes no more threads than cells; one more does no harm yet.
THEOREM AnswersAreTrue ==
  ASSUME IsFiniteSet(Threads), Cardinality(Threads) <= N + 1
  PROVE  clientSpec => []AnswersAreOrdered
<1>1. ServiceInv /\ GapInv /\ [clientNext]_clientVars => GapInv'
  BY GapKept
<1>2. ServiceInv /\ ServiceInv' /\ GapInv /\ EmptyInv /\ [clientNext]_clientVars => EmptyInv'
  BY EmptyKept
<1>3. EmptyInv => EmptyIsHonest
  BY DEF EmptyInv, Saw, SawOf, EmptyIsHonest
<1>4. clientInit => GapInv /\ EmptyInv
  BY GapInit, EmptyInit
<1>5. FifoOrder /\ EmptyIsHonest => AnswersAreOrdered
  BY DEF AnswersAreOrdered
<1> QED
  BY <1>1, <1>2, <1>3, <1>4, <1>5, Service, FirstInFirstOut, PTL DEF clientSpec
=============================================================================
