------------------------------- MODULE Bitset -------------------------------
(***************************************************************************)
(* zisc/concurrency/bitset-inl.hpp: bits in blocks of one atomic word.  An *)
(* operation on a range goes block by block, and reset() is a load and a   *)
(* store of every block, not one atomic operation.  A block is the set of  *)
(* the bits that are set in it.                                            *)
(*                                                                         *)
(* meant, torn, sawSet and sawClear only observe.                          *)
(***************************************************************************)
EXTENDS Integers, FiniteSets

CONSTANTS
  Users,
  BlockBits,  \* blockBitSize(): bits of a block
  Blocks,     \* blocks of the chunks that setSize() allocates
  BitSize     \* size(): at most Blocks * BlockBits
ASSUME BitsetAssumption == /\ BlockBits \in Nat \ {0} /\ Blocks \in Nat
                           /\ BitSize \in 1..(Blocks * BlockBits)

VARIABLES
  block,    \* chunk_list_: number of a block -> the bits set in it
  call,     \* thread -> its call
  meant,    \* the positions whose last testAndSet or reset set them
  torn,     \* blocks written by somebody else between the load and the store
            \* of a reset, until they are in order again
  sawSet,   \* thread -> positions set at some time during its query
  sawClear  \* thread -> positions clear at some time during its query

bitVars == <<block, call, meant, torn, sawSet, sawClear>>

Positions == 0..(BitSize - 1)
BlockOf(pos) == pos \div BlockBits
AllBits == 0..(BlockBits - 1)
IsSet(pos) == pos % BlockBits \in block[BlockOf(pos)]

\* makeMask(pos) and makeMask(begin, end).
BitMask(pos) == {pos % BlockBits}
\* MUTANT: the mask of a range ends one bit early in a full last block.
MaskShort(begin, end) == {i \in AllBits : begin % BlockBits <= i /\ i < end % BlockBits}
Mask(begin, end) == {i \in AllBits : begin % BlockBits <= i /\ i <= (end - 1) % BlockBits}

NoCall == [pc |-> "idle", kind |-> "none", begin |-> 0, end |-> 0, pos |-> 0,
           loaded |-> {}, value |-> FALSE, result |-> 0]

bitInit ==
  /\ block = [i \in 0..(Blocks - 1) |-> {}]
  /\ call = [t \in Users |-> NoCall]
  /\ meant = {} /\ torn = {}
  /\ sawSet = [t \in Users |-> {}] /\ sawClear = [t \in Users |-> {}]

Become(t, c) == call' = [call EXCEPT ![t] = c]

\* A write to a block tears the resets that have loaded it.  The block stays
\* torn until they have stored and its bits are what they are meant to be.
Tears(t, i) == \E u \in Users \ {t} :
  call[u].pc = "store" /\ BlockOf(call[u].pos) = i
Write(t, i, bits, intended) ==
  /\ block' = [block EXCEPT ![i] = bits]
  /\ meant' = intended
  /\ torn' = {j \in (IF Tears(t, i) THEN torn \cup {i} ELSE torn) :
                Tears(t, j) \/ \E p \in Positions :
                                 BlockOf(p) = j /\ IsSet(p)' # (p \in intended)}

\* What a query may have seen: the state at every step of its call.
Asked(t) == call[t].begin..(call[t].end - 1)
Queried(t) == IF call[t].kind \in {"isAll", "isNone", "count"} THEN Asked(t) ELSE {}
Observe ==
  /\ sawSet' = [t \in Users |-> {p \in Queried(t)' : p \in sawSet[t] \/ IsSet(p)'}]
  /\ sawClear' = [t \in Users |-> {p \in Queried(t)' : p \in sawClear[t] \/ ~IsSet(p)'}]

-----------------------------------------------------------------------------

\* testAndSet(pos, value): fetch_or of the mask, or fetch_and of its inverse.
TestAndSet(t) ==
  /\ call[t] = NoCall
  /\ \E pos \in Positions, value \in BOOLEAN :
       LET old == block[BlockOf(pos)] IN
         Write(t, BlockOf(pos), IF value THEN old \cup BitMask(pos) ELSE old \ BitMask(pos),
               IF value THEN meant \cup {pos} ELSE meant \ {pos})
  /\ UNCHANGED call

\* reset(begin, end, value), isAll, isNone and count (isAny is ~isNone): the
\* loop of iterate() starts at the first position of the block of begin.  Bound:
\* the ranges begin in the first block and have two bits at least.
Call(t) ==
  /\ call[t] = NoCall
  /\ \E kind \in {"reset", "isAll", "isNone", "count"}, begin, end \in 0..BitSize, value \in BOOLEAN :
       /\ begin + 1 < end /\ begin < BlockBits /\ (value => kind = "reset")
       /\ Become(t, [NoCall EXCEPT !.pc = IF kind = "reset" THEN "load" ELSE "look",
                       !.kind = kind, !.begin = begin, !.end = end, !.value = value,
                       !.pos = BlockOf(begin) * BlockBits])
  /\ UNCHANGED <<block, meant, torn>>

Later(a, b) == IF a < b THEN b ELSE a
Sooner(a, b) == IF a < b THEN a ELSE b
MaskAt(c) == Mask(Later(c.pos, c.begin), Sooner(c.pos + BlockBits, c.end))
\* The next block of the range, or the end of the call.
Further(c, first) == IF c.pos + BlockBits < c.end
                       THEN [c EXCEPT !.pc = first, !.pos = c.pos + BlockBits]
                       ELSE [c EXCEPT !.pc = "done"]

ResetLoad(t) ==
  /\ call[t].pc = "load"
  /\ Become(t, [call[t] EXCEPT !.pc = "store", !.loaded = block[BlockOf(call[t].pos)]])
  /\ UNCHANGED <<block, meant, torn>>

\* MUTANT: the whole block is overwritten.
ResetWhole(t) ==
  /\ call[t].pc = "store"
  /\ LET c == call[t]
         i == BlockOf(c.pos)
         range == {p \in Positions : BlockOf(p) = i /\ c.begin <= p /\ p < c.end}
     IN /\ Write(t, i, IF c.value THEN AllBits ELSE {},
                 IF c.value THEN meant \cup range ELSE meant \ range)
        /\ Become(t, Further([c EXCEPT !.loaded = {}], "load"))

ResetStore(t) ==
  /\ call[t].pc = "store"
  /\ LET c == call[t]
         i == BlockOf(c.pos)
         range == {p \in Positions : BlockOf(p) = i /\ c.begin <= p /\ p < c.end}
     IN /\ Write(t, i, IF c.value THEN c.loaded \cup MaskAt(c) ELSE c.loaded \ MaskAt(c),
                 IF c.value THEN meant \cup range ELSE meant \ range)
        /\ Become(t, Further([c EXCEPT !.loaded = {}], "load"))

\* One block of a query.  isAll and isNone stop at the first block that
\* answers no; count goes through all blocks.
Look(t) ==
  /\ call[t].pc = "look"
  /\ LET c == call[t]
         bits == block[BlockOf(c.pos)] \cap MaskAt(c)
         yes == IF c.kind = "isAll" THEN bits = MaskAt(c) ELSE bits = {}
     IN \/ /\ c.kind = "count"
           /\ Become(t, Further([c EXCEPT !.result = @ + Cardinality(bits)], "look"))
        \/ c.kind # "count" /\ yes /\ Become(t, Further([c EXCEPT !.result = 1], "look"))
        \/ c.kind # "count" /\ ~yes /\ Become(t, [c EXCEPT !.result = 0, !.pc = "done"])
  /\ UNCHANGED <<block, meant, torn>>

Return(t) ==
  /\ call[t].pc = "done"
  /\ Become(t, NoCall)
  /\ UNCHANGED <<block, meant, torn>>

bitNext == /\ \E t \in Users : \/ TestAndSet(t) \/ Call(t) \/ ResetLoad(t)
                                 \/ ResetStore(t) \/ Look(t) \/ Return(t)
           /\ Observe
bitSpec == bitInit /\ [][bitNext]_bitVars

-----------------------------------------------------------------------------
(* Properties                                                              *)

\* reset() can lose the writes of others, but only in a block that somebody
\* wrote between its load and its store, and only until a later write repairs
\* it: everywhere else each bit is what the
\* last testAndSet or reset of its position made it, and no reset reaches a
\* bit outside of its range.
ResetIsLocal == \A p \in Positions :
  BlockOf(p) \notin torn => (IsSet(p) <=> p \in meant)

\* testAndSet() sets a value "atomically" (bitset.hpp 125): a position that no
\* reset in progress has in its range is what the last testAndSet or reset of it
\* made it.  NOT true of the code: a reset stores back the bits beside its range
\* as it has loaded them.
WritesAreKept == \A p \in Positions :
  (\A t \in Users : call[t].kind = "reset" => p \notin Asked(t))
    => (IsSet(p) <=> p \in meant)

\* The answers of isAll, isNone and count, although the blocks are looked at
\* one after the other: yes means that every bit of the range was so at some
\* time during the call, no that some bit was not; and the count lies between
\* the bits that were set all along and those that ever were.
AnswersAreHonest == \A t \in Users : call[t].pc = "done" =>
  LET range == Asked(t)
      ever == Cardinality(range \cap sawSet[t])
      always == Cardinality(range \ sawClear[t])
  IN CASE call[t].kind = "isAll" ->
            IF call[t].result = 1 THEN range \subseteq sawSet[t] ELSE range \cap sawClear[t] # {}
       [] call[t].kind = "isNone" ->
            IF call[t].result = 1 THEN range \subseteq sawClear[t] ELSE range \cap sawSet[t] # {}
       [] call[t].kind = "count" -> always <= call[t].result /\ call[t].result <= ever
       [] OTHER -> TRUE
=============================================================================
