------------------------------ MODULE AllocFree ------------------------------
(***************************************************************************)
(* zisc/memory/alloc_free_resource-inl.hpp and Memory::Usage (memory-inl): *)
(* memory of the system with a header in front of it that remembers the    *)
(* size, and the total and the peak of the usage in two atomic words.      *)
(***************************************************************************)
EXTENDS Integers, FiniteSets

CONSTANTS
  Callers,
  AllocRequests,    \* the <<size, alignment>> that are asked for
  HeaderSize,  \* sizeof(Header): a power of two
  MinAlign,    \* the larger of alignof(Header) and minAllocAlignment()
  MaxLive      \* bound on the blocks allocated together
ASSUME AllocFreeAssumption ==
  /\ HeaderSize \in Nat /\ MinAlign \in Nat \ {0} /\ MaxLive \in Nat
  /\ AllocRequests \subseteq Nat \X (Nat \ {0})
\* Sizes and alignments are powers of two: the smaller divides the larger.  The
\* header has the alignment of its pointer, and MinAlign is no more than that.
ASSUME AlignmentAssumption ==
  /\ HeaderSize % MinAlign = 0
  /\ \A r \in AllocRequests : r[2] % MinAlign = 0 \/ MinAlign % r[2] = 0

VARIABLES
  total,     \* memory_usage_.total_
  peak,      \* memory_usage_.peak_
  memory,    \* the blocks of the system in use: [id, header, data, size, ...]
  task,      \* thread -> where it is in its call
  highest    \* the largest value total ever had: only observes

allocVars == <<total, peak, memory, task, highest>>

Larger(a, b) == IF a < b THEN b ELSE a
AtRest == [pc |-> "rest", size |-> 0, value |-> 0]
Advance(t, f) == task' = [task EXCEPT ![t] = f]

allocInit ==
  /\ total = 0 /\ peak = 0 /\ memory = {} /\ highest = 0
  /\ task = [t \in Callers |-> AtRest]

calcAllocAlignment(alignment) == Larger(alignment, MinAlign)

\* MUTANT: only whole blocks of the alignment are counted for the header.
calcAllocSizeTight(size, alignment) ==
  LET dataBlock == (size + alignment - 1) \div alignment
      headerBlock == HeaderSize \div alignment
  IN <<(headerBlock + dataBlock) * alignment, headerBlock * alignment>>
calcAllocSize(size, alignment) ==
  LET dataBlock == (size + alignment - 1) \div alignment
      headerBlock == (HeaderSize + alignment - 1) \div alignment
  IN <<(headerBlock + dataBlock) * alignment, headerBlock * alignment>>

\* aligned_alloc may answer null, which is a BadAllocation and no step; the
\* addresses it answers are multiples of the alignment, here 0: what matters
\* is where data and header lie in the block.
AlignedAlloc(t) ==
  /\ task[t].pc = "rest" /\ Cardinality(memory) < MaxLive
  /\ \E r \in AllocRequests :
       LET alignment == calcAllocAlignment(r[2])
           sizes == calcAllocSize(r[1], alignment)
           id == CHOOSE i \in 1..MaxLive : \A b \in memory : b.id # i
       IN /\ memory' = memory \cup
                 {[id |-> id, data |-> sizes[2], header |-> sizes[2] - HeaderSize, size |-> sizes[1],
                   asked |-> r[1], alignment |-> r[2], counted |-> FALSE, by |-> t]}
          /\ Advance(t, [AtRest EXCEPT !.pc = "add", !.size = sizes[1]])
  /\ UNCHANGED <<total, peak, highest>>

\* Usage::add: fetch_add of the total, then fetch_max of the peak, a loop of
\* compare and exchange.
AddTotal(t) ==
  /\ task[t].pc = "add"
  /\ total' = total + task[t].size
  /\ highest' = Larger(highest, total')
  /\ Advance(t, [task[t] EXCEPT !.pc = "load", !.size = total'])
  /\ UNCHANGED <<peak, memory>>

LoadPeak(t) ==
  /\ task[t].pc = "load"
  /\ Advance(t, [task[t] EXCEPT !.pc = "raise", !.value = peak])
  /\ UNCHANGED <<total, peak, memory, highest>>

Finished(t) == {[b EXCEPT !.counted = @ \/ b.by = t] : b \in memory}
\* MUTANT: the larger value is stored, not exchanged.
RaiseStore(t) ==
  /\ task[t].pc = "raise"
  /\ peak' = Larger(task[t].value, task[t].size)
  /\ memory' = Finished(t) /\ Advance(t, AtRest)
  /\ UNCHANGED <<total, highest>>
RaisePeak(t) ==
  /\ task[t].pc = "raise"
  /\ IF peak = task[t].value
       THEN /\ peak' = Larger(task[t].value, task[t].size)
            /\ memory' = Finished(t) /\ Advance(t, AtRest)
       ELSE /\ Advance(t, [task[t] EXCEPT !.value = peak])
            /\ UNCHANGED <<peak, memory>>
  /\ UNCHANGED <<total, highest>>

\* deallocateMemory: the size comes from the header, the memory is given back
\* first and the total is lowered after that.
Free(t) ==
  /\ task[t].pc = "rest"
  /\ \E b \in memory : /\ b.counted
                       /\ memory' = memory \ {b}
                       /\ Advance(t, [AtRest EXCEPT !.pc = "release", !.size = b.size])
  /\ UNCHANGED <<total, peak, highest>>

Release(t) ==
  /\ task[t].pc = "release"
  /\ total' = total - task[t].size
  /\ Advance(t, AtRest)
  /\ UNCHANGED <<peak, memory, highest>>

allocNext == \E t \in Callers :
  \/ AlignedAlloc(t) \/ AddTotal(t) \/ LoadPeak(t) \/ RaisePeak(t)
  \/ Free(t) \/ Release(t)
allocSpec == allocInit /\ [][allocNext]_allocVars

-----------------------------------------------------------------------------
(* Properties                                                              *)

\* Header and data lie in the block, data behind the header, both aligned.
LayoutIsSound == \A b \in memory :
  /\ 0 <= b.header /\ b.header + HeaderSize <= b.data /\ b.data + b.asked <= b.size
  /\ b.data % b.alignment = 0 /\ b.header % MinAlign = 0

\* The bytes in use, and those of the calls at a point of their way.
Bytes(x, n) == {x} \X (1..n)
Allocated == UNION {Bytes(b.id, b.size) : b \in memory}
Underway(pc) == UNION {Bytes(t, task[t].size) : t \in {u \in Callers : task[u].pc = pc}}

\* The total is what is allocated, but for the calls in progress; the peak is
\* never above the largest total there was, and once no allocation is in
\* progress it is that: no raise of another thread is overwritten.
UsageIsExact ==
  /\ total + Cardinality(Underway("add"))
       = Cardinality(Allocated) + Cardinality(Underway("release"))
  /\ peak <= highest
  /\ (\A t \in Callers : task[t].pc \notin {"load", "raise"}) => peak = highest

\* Memory is aligned and large enough for its header and its data, and the
\* statistics (total and peak) agree with what is allocated.
AllocationIsSound == LayoutIsSound /\ UsageIsExact
=============================================================================
