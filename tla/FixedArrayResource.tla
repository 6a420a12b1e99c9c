------------------------- MODULE FixedArrayResource -------------------------
(***************************************************************************)
(* zisc/memory/fixed_array_resource-inl.hpp: CountMax equal storages       *)
(* handed out and taken back by many threads, with a counter (count_) and  *)
(* one ownership bit per storage (used_list_, a Bitset), both atomic.      *)
(* One action per access to shared memory.                                 *)
(***************************************************************************)
EXTENDS Integers, FiniteSets

CONSTANTS
  Requesters,    \* the threads
  CountMax,      \* countMax(): the number of storages
  UsedBits,      \* Bitset::blockBitSize(), bits loaded at once
  MaskBits,      \* up to this offset "1 << offset" yields the intended mask
  PermuteStart,  \* permuteIndex(): spreads the first indexes looked at
  Requests       \* the requests the clients make

Slots == 0..(CountMax - 1)
NBlocks == (CountMax + (UsedBits - 1)) \div UsedBits

ASSUME SizeAssumption == CountMax \in Nat \ {0} /\ UsedBits \in Nat \ {0} /\ MaskBits \in Nat
ASSUME ThreadAssumption == IsFiniteSet(Requesters)
ASSUME PermuteAssumption == PermuteStart \in [Slots -> Slots]
\* A request says if it exceeds sizeMax() and if it exceeds alignmentMax().
ASSUME RequestAssumption == Requests \subseteq [size : BOOLEAN, alignment : BOOLEAN]

VARIABLES
  count,   \* count_
  used,    \* used_list_: the storages whose bit is set
  owned,   \* the storages clients hold (given by allocate, not yet given back)
  leaked,  \* calls that ended in "Fatal error" since the last clear (observer)
  progress \* thread -> the frame of its call

fixedVars == <<count, used, owned, leaked, progress>>

Stage(pc) == [pc |-> pc, slot |-> 0, mask |-> {}, visits |-> 0, oversize |-> FALSE]
Outside == Stage("idle")
Continue(t, f) == progress' = [progress EXCEPT ![t] = f]

fixedInit ==
  /\ count = 0 /\ used = {} /\ owned = {} /\ leaked = 0
  /\ progress = [t \in Requesters |-> Outside]

-----------------------------------------------------------------------------
(* allocateMemory(size, alignment)                                         *)

\* A request is turned down only if it is too large AND too coarse.
Allocate(t) == \E r \in Requests :
  /\ progress[t] = Outside
  /\ ~(r.size /\ r.alignment)
  /\ Continue(t, [Stage("count") EXCEPT !.oversize = r.size \/ r.alignment])
  /\ UNCHANGED <<count, used, owned, leaked>>

\* The mask of findAndGetOwnership hides the bits below the first index.  The
\* shift is done on an int: beyond MaskBits the outcome is any mask.
Masks(offset) ==
  IF offset < MaskBits THEN {0..(offset - 1)} ELSE SUBSET (0..(UsedBits - 1))
SearchFrom(f, start, mask) ==
  [f EXCEPT !.pc = "load", !.slot = start - (start % UsedBits), !.mask = mask,
            !.visits = 0]

\* MUTANT: one call too many passes the limit.
CountOneMore(t) ==
  /\ progress[t].pc = "count"
  /\ count' = count + 1
  /\ IF count <= CountMax
       THEN LET start == PermuteStart[count % CountMax] IN
            \E mask \in Masks(start % UsedBits) :
              Continue(t, SearchFrom(progress[t], start, mask))
       ELSE Continue(t, [progress[t] EXCEPT !.pc = "undo"])
  /\ UNCHANGED <<used, owned, leaked>>

\* Below the limit the old count, permuted, says where the search begins.
Count(t) ==
  /\ progress[t].pc = "count"
  /\ count' = count + 1
  /\ IF count < CountMax
       THEN LET start == PermuteStart[count] IN
            \E mask \in Masks(start % UsedBits) :
              Continue(t, SearchFrom(progress[t], start, mask))
       ELSE Continue(t, [progress[t] EXCEPT !.pc = "undo"])
  /\ UNCHANGED <<used, owned, leaked>>

\* MUTANT: the count is not taken back.
UndoNothing(t) ==
  /\ progress[t].pc = "undo"
  /\ Continue(t, Outside)
  /\ UNCHANGED <<count, used, owned, leaked>>

\* Over the limit: take the count back and throw BadAllocation.
Undo(t) ==
  /\ progress[t].pc = "undo"
  /\ count' = count - 1
  /\ Continue(t, Outside)
  /\ UNCHANGED <<used, owned, leaked>>

(* findAndGetOwnership: slot is the base of the block under examination.   *)

\* The number of leading ones of the block, hidden bits included.
CountrOne(base, mask, k) ==
  /\ k \in 0..UsedBits
  /\ \A j \in 0..(k - 1) : j \in mask \/ base + j \in used
  /\ k = UsedBits \/ (k \notin mask /\ base + k \notin used)

NextBlock(base, k) == IF CountMax <= base + k THEN 0 ELSE base + UsedBits

\* The search goes over the blocks twice: the first look at the first block hides
\* some of its bits.
MaxVisits == 2 * NBlocks

LoadBlock(t) ==
  /\ progress[t].pc = "load"
  /\ \E k \in 0..UsedBits :
       /\ CountrOne(progress[t].slot, progress[t].mask, k)
       /\ \/ /\ k # UsedBits /\ progress[t].slot + k < CountMax
             /\ Continue(t, [progress[t] EXCEPT !.pc = "claim", !.slot = @ + k])
             /\ UNCHANGED leaked
          \/ /\ k = UsedBits \/ CountMax <= progress[t].slot + k
             /\ progress[t].visits + 1 < MaxVisits
             /\ Continue(t, [progress[t] EXCEPT !.slot = NextBlock(@, k), !.mask = {},
                                              !.visits = @ + 1])
             /\ UNCHANGED leaked
          \/ \* "Fatal error. Appropriate storage not found."
             /\ k = UsedBits \/ CountMax <= progress[t].slot + k
             /\ progress[t].visits + 1 = MaxVisits
             /\ Continue(t, Outside)
             /\ leaked' = leaked + 1
  /\ UNCHANGED <<count, used, owned>>

\* MUTANT: the candidate is taken whatever its bit was.
ClaimAnyway(t) ==
  /\ progress[t].pc = "claim"
  /\ used' = used \cup {progress[t].slot} /\ owned' = owned \cup {progress[t].slot}
  /\ Continue(t, Outside)
  /\ UNCHANGED <<count, leaked>>

\* testAndSet(candidate, true); a lost race looks at the same block again.
Claim(t) ==
  /\ progress[t].pc = "claim"
  /\ used' = used \cup {progress[t].slot}
  /\ IF progress[t].slot \notin used
       THEN owned' = owned \cup {progress[t].slot} /\ Continue(t, Outside)
       ELSE /\ UNCHANGED owned
            /\ Continue(t, [progress[t] EXCEPT !.pc = "load",
                                             !.slot = @ - (@ % UsedBits)])
  /\ UNCHANGED <<count, leaked>>

-----------------------------------------------------------------------------
(* deallocateMemory(data), by any thread, of a storage a client holds      *)

deallocateMemory(t) == \E s \in owned :
  /\ progress[t] = Outside
  /\ Continue(t, [Stage("unset") EXCEPT !.slot = s])
  /\ owned' = owned \ {s}
  /\ UNCHANGED <<count, used, leaked>>

Unset(t) ==
  /\ progress[t].pc = "unset"
  /\ used' = used \ {progress[t].slot}
  /\ Continue(t, Stage("uncount"))
  /\ UNCHANGED <<count, owned, leaked>>

Uncount(t) ==
  /\ progress[t].pc = "uncount"
  /\ count' = count - 1
  /\ Continue(t, Outside)
  /\ UNCHANGED <<used, owned, leaked>>

\* clear(), by a client that has the resource for itself; what the clients
\* held is theirs no longer.
ClearAll ==
  /\ \A t \in Requesters : progress[t] = Outside
  /\ count' = 0 /\ used' = {} /\ owned' = {} /\ leaked' = 0
  /\ UNCHANGED progress

-----------------------------------------------------------------------------
fixedStep(t) ==
  \/ Allocate(t) \/ Count(t) \/ Undo(t) \/ LoadBlock(t) \/ Claim(t)
  \/ deallocateMemory(t) \/ Unset(t) \/ Uncount(t)

fixedNext == ClearAll \/ \E t \in Requesters : fixedStep(t)

fixedSpec == fixedInit /\ [][fixedNext]_fixedVars

-----------------------------------------------------------------------------
(* Properties                                                              *)

At(pc) == {t \in Requesters : progress[t].pc = pc}
Searching == At("load") \cup At("claim")
Returning == At("unset") \cup At("uncount")

Frames ==
  [pc : {"idle", "count", "undo", "load", "claim", "unset", "uncount"},
   slot : Nat, mask : SUBSET (0..(UsedBits - 1)), visits : Nat,
   oversize : BOOLEAN]

\* Every variable stays in its range.
TypeOK ==
  /\ count \in Nat /\ leaked \in Nat
  /\ used \subseteq Slots /\ owned \subseteq Slots
  /\ progress \in [Requesters -> Frames]

\* The storage a thread is about to mark or unmark is one of the array.
SlotInArray ==
  \A t \in Requesters : progress[t].pc \in {"claim", "unset"} => progress[t].slot \in Slots

\* The ownership bits tell the truth: a storage is marked exactly while one
\* client holds it or one deallocate is about to unmark it.  So no storage is
\* given out twice, and the assertion "The ownership of the data was broken."
\* of deallocateMemory never fires.
Exclusive ==
  /\ used = owned \cup {progress[t].slot : t \in At("unset")}
  /\ \A t \in At("unset") : progress[t].slot \notin owned
  /\ \A t, u \in At("unset") : t # u => progress[t].slot # progress[u].slot

\* What count_ is charged with: the storages held, the searches, the calls giving a
\* storage back, and the refused calls that still have to undo.
Charged ==
  Cardinality(owned) + Cardinality(Searching) + Cardinality(Returning) + Cardinality(At("undo"))

\* In every state of every interleaving count_ covers what it is charged with, and
\* it is exactly that until a search ends in "Fatal error": such a call does not
\* take its count back (CountIsUsed).
CountAccounts == Charged <= count /\ (leaked = 0 => count = Charged)

\* However the calls interleave, storages held, being looked for and being
\* given back never outnumber the array: a search always has a storage left.
CapacityRespected ==
  Cardinality(owned) + Cardinality(Searching) + Cardinality(Returning) + leaked <= CountMax

\* With a single block of bits, no search fails: its last load sees the whole
\* array at one instant.
OneBlockNeverFails == NBlocks = 1 => leaked = 0

\* The words of fixed_array_resource.hpp on count(): "Return the number of used
\* storage in the fixed array", when nobody is in the middle of a call.  They fail:
\* a search that comes too late to every block throws and keeps its count.
CountIsUsed ==
  (\A t \in Requesters : progress[t] = Outside) => count = Cardinality(used)

\* No storage of sizeMax() bytes is given to a larger or coarser request.  NOT
\* true of the code, whose test wants both limits exceeded.
OversizeRefused == \A t \in Requesters : progress[t].pc = "claim" => ~progress[t].oversize
=============================================================================
