---------------------------- MODULE BitsetProofs ----------------------------
(***************************************************************************)
(* Theorems about Bitset, for any set of users, any size of a block and    *)
(* any number of blocks.                                                   *)
(*                                                                         *)
(* Resets are local: what is needed besides is that a reset which has      *)
(* loaded a block that nobody has torn has loaded what the block still is, *)
(* so that its store changes the places of its mask alone; and those are   *)
(* the positions of the block that lie in the range.                       *)
(*                                                                         *)
(* The answers hold: while a query goes on they hold of the positions      *)
(* whose blocks it has looked at, and a look adds those of one block.      *)
(***************************************************************************)
EXTENDS Bitset, FiniteSetTheorems, TLAPS

(***************************************************************************)
(* Positions and blocks.                                                   *)
(***************************************************************************)
LEMMA Constants == BlockBits \in Nat \ {0} /\ Blocks \in Nat /\ BitSize \in Nat
                   /\ BitSize <= Blocks * BlockBits /\ Blocks * BlockBits \in Nat
<1>1. BlockBits \in Nat \ {0} /\ Blocks \in Nat
  BY BitsetAssumption
<1>2. Blocks * BlockBits \in Nat
  BY <1>1
<1> QED
  BY <1>1, <1>2, BitsetAssumption

\* The place of a position in its block.
LEMMA PlaceOf ==
  ASSUME NEW p \in Nat
  PROVE  /\ BlockOf(p) \in Nat /\ p % BlockBits \in AllBits
         /\ p = BlockOf(p) * BlockBits + (p % BlockBits)
BY Constants DEF BlockOf, AllBits

\* The position of a place in a block.
LEMMA PositionOf ==
  ASSUME NEW i \in Nat, NEW k \in AllBits
  PROVE  /\ i * BlockBits + k \in Nat
         /\ BlockOf(i * BlockBits + k) = i
         /\ (i * BlockBits + k) % BlockBits = k
<1>1. k \in 0..(BlockBits - 1) /\ i * BlockBits \in Nat
  BY Constants DEF AllBits
<1> DEFINE p == i * BlockBits + k
<1>2. p \in Nat
  BY <1>1
<1>3. PICK j \in Nat : j = BlockOf(p)
  BY <1>2, PlaceOf
<1>4. PICK r \in 0..(BlockBits - 1) : r = p % BlockBits
  BY <1>2, PlaceOf DEF AllBits
<1>5. i * BlockBits + k = j * BlockBits + r
  BY <1>2, <1>3, <1>4, PlaceOf
<1>6. (i - j) * BlockBits = r - k
  BY <1>1, <1>3, <1>4, <1>5, Constants
<1>7. i - j = 0
  <2>1. CASE i - j >= 1
    BY <2>1, <1>1, <1>3, <1>4, <1>6, Constants
  <2>2. CASE i - j <= -1
    <3>1. (i - j) * BlockBits <= -BlockBits
      BY <2>2, <1>3, Constants
    <3> QED
      BY <3>1, <1>1, <1>4, <1>6, Constants
  <2> QED
    BY <2>1, <2>2, <1>3
<1>8. j = i /\ r = k
  BY <1>1, <1>3, <1>4, <1>5, <1>7, Constants
<1> QED
  BY <1>2, <1>3, <1>4, <1>8

\* The positions of one block are told apart by their places.
LEMMA SamePlace ==
  ASSUME NEW p \in Nat, NEW q \in Nat, BlockOf(p) = BlockOf(q), p % BlockBits = q % BlockBits
  PROVE  p = q
BY PlaceOf

LEMMA BlockIsThere ==
  ASSUME NEW p \in Positions
  PROVE  p \in Nat /\ BlockOf(p) \in 0..(Blocks - 1)
<1>1. p \in Nat /\ p < BitSize
  BY Constants DEF Positions
<1>2. PICK i \in Nat : i = BlockOf(p)
  BY <1>1, PlaceOf
<1>3. p = i * BlockBits + (p % BlockBits) /\ p % BlockBits \in Nat
  BY <1>1, <1>2, PlaceOf, Constants DEF AllBits
<1>4. i * BlockBits < Blocks * BlockBits
  BY <1>1, <1>3, Constants
<1>5. i < Blocks
  <2>1. SUFFICES ASSUME i >= Blocks PROVE FALSE
    BY Constants
  <2>2. i * BlockBits >= Blocks * BlockBits
    BY <2>1, Constants
  <2> QED
    BY <2>2, <1>4, Constants
<1> QED
  BY <1>1, <1>2, <1>5, Constants

(***************************************************************************)
(* A call.                                                                 *)
(***************************************************************************)
Calls == [pc : {"idle", "load", "store", "look", "done"},
          kind : {"none", "reset", "isAll", "isNone", "count"},
          begin : Nat, end : Nat, pos : Nat, loaded : SUBSET AllBits,
          value : BOOLEAN, result : Nat]

\* The call stands at the start of block i, and the block holds some of its range.
StandsAt(c, i) == /\ i \in 0..(Blocks - 1) /\ c.pos = i * BlockBits
                  /\ c.begin < c.end /\ c.end <= BitSize
                  /\ c.pos < c.end /\ c.begin < c.pos + BlockBits

IsCall(c) == /\ c \in Calls
             /\ c.pc # "idle" => \E i \in 0..(Blocks - 1) : StandsAt(c, i)
             /\ c.pc \in {"load", "store"} => c.kind = "reset"
             /\ c.pc = "look" => c.kind \in {"isAll", "isNone", "count"}

LEMMA NoCallIs == NoCall \in Calls /\ IsCall(NoCall) /\ NoCall.pc = "idle" /\ NoCall.kind = "none"
BY DEF NoCall, Calls, IsCall

LEMMA Stands ==
  ASSUME NEW c \in Calls, NEW i, StandsAt(c, i)
  PROVE  /\ i \in Nat /\ i \in 0..(Blocks - 1) /\ BlockOf(c.pos) = i
         /\ c.pos = i * BlockBits /\ c.pos \in Nat /\ c.begin \in Nat /\ c.end \in Nat
         /\ c.begin < c.end /\ c.end <= BitSize
         /\ c.pos < c.end /\ c.begin < c.pos + BlockBits
<1>1. i \in Nat /\ i \in 0..(Blocks - 1)
  BY Constants DEF StandsAt
<1>2. 0 \in AllBits /\ i * BlockBits \in Nat
  BY <1>1, Constants DEF AllBits
<1>3. BlockOf(i * BlockBits + 0) = i
  BY <1>1, <1>2, PositionOf
<1>4. i * BlockBits + 0 = i * BlockBits
  BY <1>2
<1> QED
  BY <1>1, <1>2, <1>3, <1>4 DEF StandsAt, Calls

\* makeMask: the places of the block that belong to the range.
LEMMA MaskIsRange ==
  ASSUME NEW c \in Calls, NEW i, StandsAt(c, i), NEW p \in Nat, BlockOf(p) = i
  PROVE  p % BlockBits \in MaskAt(c) <=> c.begin <= p /\ p < c.end
<1>1. /\ i \in Nat /\ c.pos = i * BlockBits /\ c.pos \in Nat /\ c.begin \in Nat /\ c.end \in Nat
      /\ c.begin < c.end /\ c.pos < c.end /\ c.begin < c.pos + BlockBits
  BY Stands
<1> DEFINE b == Later(c.pos, c.begin)
           e == Sooner(c.pos + BlockBits, c.end)
<1>2. /\ b \in Nat /\ e \in Nat /\ c.pos <= b /\ b < c.pos + BlockBits
      /\ c.pos < e /\ e <= c.pos + BlockBits
      /\ c.begin <= b /\ e <= c.end
      /\ b = c.pos \/ b = c.begin
      /\ e = c.pos + BlockBits \/ e = c.end
  BY <1>1, Constants DEF Later, Sooner
<1> HIDE DEF b, e
<1>3. \A k \in AllBits : (c.pos + k) % BlockBits = k
  BY <1>1, PositionOf
<1>4. b - c.pos \in AllBits /\ (e - 1) - c.pos \in AllBits
  BY <1>1, <1>2, Constants DEF AllBits
<1>5. b % BlockBits = b - c.pos
  <2>1. c.pos + (b - c.pos) = b
    BY <1>1, <1>2
  <2> QED
    BY <2>1, <1>3, <1>4
<1>6. (e - 1) % BlockBits = (e - 1) - c.pos
  <2>1. c.pos + ((e - 1) - c.pos) = e - 1
    BY <1>1, <1>2
  <2> QED
    BY <2>1, <1>3, <1>4
<1>7. PICK k \in AllBits : k = p % BlockBits /\ p = c.pos + k
  BY <1>1, PlaceOf
<1>8. k \in MaskAt(c) <=> b - c.pos <= k /\ k <= (e - 1) - c.pos
  BY <1>5, <1>6, <1>7 DEF MaskAt, Mask, b, e
<1>9. k \in Nat /\ k < BlockBits
  BY <1>7, Constants DEF AllBits
<1>10. (b - c.pos <= k /\ k <= (e - 1) - c.pos) <=> (c.begin <= p /\ p < c.end)
  BY <1>1, <1>2, <1>7, <1>9, Constants
<1> QED
  BY <1>7, <1>8, <1>10

LEMMA MaskIsBits == ASSUME NEW c PROVE MaskAt(c) \subseteq AllBits
BY DEF MaskAt, Mask

\* What the next block of a range has in common with this one.
SameRange(d, c) == /\ d.kind = c.kind /\ d.begin = c.begin /\ d.end = c.end
                   /\ d.value = c.value /\ d.result = c.result

LEMMA FurtherIs ==
  ASSUME NEW c \in Calls, NEW i, StandsAt(c, i), NEW first \in {"load", "look"}
  PROVE  /\ Further(c, first) \in Calls
         /\ SameRange(Further(c, first), c)
         /\ \/ /\ Further(c, first).pc = first /\ StandsAt(Further(c, first), i + 1)
               /\ Further(c, first).pos = c.pos + BlockBits
            \/ /\ Further(c, first).pc = "done" /\ StandsAt(Further(c, first), i)
               /\ Further(c, first).pos = c.pos /\ c.end <= c.pos + BlockBits
<1>1. /\ i \in Nat /\ i \in 0..(Blocks - 1) /\ c.pos = i * BlockBits /\ c.pos \in Nat
      /\ c.begin \in Nat /\ c.end \in Nat
      /\ c.begin < c.end /\ c.end <= BitSize /\ c.pos < c.end /\ c.begin < c.pos + BlockBits
  BY Stands
<1>2. CASE c.pos + BlockBits < c.end
  <2>1. PICK d : d = [c EXCEPT !.pc = first, !.pos = c.pos + BlockBits]
    OBVIOUS
  <2>2. Further(c, first) = d
    BY <1>2, <2>1 DEF Further
  <2>3. c.pos + BlockBits \in Nat
    BY <1>1, Constants
  <2>4. /\ d \in Calls /\ SameRange(d, c) /\ d.pc = first /\ d.pos = c.pos + BlockBits
    BY <2>1, <2>3 DEF Calls, SameRange
  <2>5. (i + 1) * BlockBits = i * BlockBits + BlockBits
    BY <1>1, Constants
  <2>6. i + 1 \in 0..(Blocks - 1)
    <3>1. (i + 1) * BlockBits < Blocks * BlockBits
      BY <1>1, <1>2, <2>5, Constants
    <3>2. SUFFICES ASSUME i + 1 >= Blocks PROVE FALSE
      BY <1>1, Constants
    <3>3. (i + 1) * BlockBits >= Blocks * BlockBits
      BY <1>1, <3>2, Constants
    <3> QED
      BY <3>1, <3>3, <1>1, Constants
  <2>7. d.begin = c.begin /\ d.end = c.end
    BY <2>4 DEF SameRange
  <2>8. StandsAt(d, i + 1)
    BY <1>1, <1>2, <2>4, <2>5, <2>6, <2>7, Constants DEF StandsAt
  <2> QED
    BY <2>2, <2>4, <2>8
<1>3. CASE ~(c.pos + BlockBits < c.end)
  <2>1. PICK d : d = [c EXCEPT !.pc = "done"]
    OBVIOUS
  <2>2. Further(c, first) = d
    BY <1>3, <2>1 DEF Further
  <2>3. d \in Calls /\ SameRange(d, c) /\ d.pc = "done" /\ d.pos = c.pos
    BY <2>1 DEF Calls, SameRange
  <2>4. StandsAt(d, i)
    BY <2>3 DEF StandsAt, SameRange
  <2>5. c.end <= c.pos + BlockBits
    BY <1>1, <1>3, Constants
  <2> QED
    BY <2>2, <2>3, <2>4, <2>5
<1> QED
  BY <1>2, <1>3

(***************************************************************************)
(* The calls and the blocks.                                               *)
(***************************************************************************)
CallsInv == /\ call \in [Users -> Calls] /\ \A t \in Users : IsCall(call[t])
            /\ block \in [0..(Blocks - 1) -> SUBSET AllBits]

\* A reset that has loaded a block nobody has torn has loaded what the block is.
LoadsAreFresh == \A t \in Users :
  call[t].pc = "store" /\ BlockOf(call[t].pos) \notin torn =>
    call[t].loaded = block[BlockOf(call[t].pos)]

LocalInv == CallsInv /\ LoadsAreFresh /\ ResetIsLocal

\* What Become does.
LEMMA Became ==
  ASSUME CallsInv, NEW t \in Users, NEW c, IsCall(c), Become(t, c)
  PROVE  /\ call' \in [Users -> Calls] /\ \A u \in Users : IsCall(call'[u])
         /\ call'[t] = c /\ \A u \in Users \ {t} : call'[u] = call[u]
<1>1. /\ call' \in [Users -> Calls]
      /\ call'[t] = c /\ \A u \in Users \ {t} : call'[u] = call[u]
  BY DEF CallsInv, Become, IsCall
<1>2. \A u \in Users : IsCall(call'[u])
  BY <1>1, Zenon DEF CallsInv
<1> QED
  BY <1>1, <1>2

\* The calls as a step leaves them: those of the others as they were, and
\* the one of t that of no reset that has loaded a block.
OnlyFrom(t) == /\ call' \in [Users -> Calls] /\ \A u \in Users : IsCall(call'[u])
               /\ \A u \in Users \ {t} : call'[u] = call[u]

LEMMA InitLocal == bitInit => LocalInv
<1> SUFFICES ASSUME bitInit PROVE LocalInv
  OBVIOUS
<1>1. \A t \in Users : call[t] = NoCall
  BY DEF bitInit
<1>2. call \in [Users -> Calls] /\ \A t \in Users : IsCall(call[t])
  BY <1>1, NoCallIs DEF bitInit
<1>3. \A t \in Users : call[t].pc # "store"
  BY <1>1, NoCallIs
<1>4. block \in [0..(Blocks - 1) -> SUBSET AllBits] /\ meant = {}
      /\ \A i \in 0..(Blocks - 1) : block[i] = {}
  BY DEF bitInit
<1>5. ResetIsLocal
  BY <1>4, BlockIsThere DEF ResetIsLocal, IsSet
<1> QED
  BY <1>2, <1>3, <1>4, <1>5 DEF LocalInv, CallsInv, LoadsAreFresh

\* A write to block i by t that no reset of another stands in between: the
\* bits of an untorn block are as intended.
LEMMA Written ==
  ASSUME LocalInv, NEW t \in Users, NEW i \in 0..(Blocks - 1),
         NEW bits \in SUBSET AllBits, NEW intended,
         Write(t, i, bits, intended), OnlyFrom(t), call'[t].pc # "store",
         \A p \in Positions : BlockOf(p) # i => (p \in intended <=> p \in meant),
         i \notin torn => \A p \in Positions :
           BlockOf(p) = i => (p % BlockBits \in bits <=> p \in intended)
  PROVE  LocalInv'
<1>1. /\ block' \in [0..(Blocks - 1) -> SUBSET AllBits]
      /\ block'[i] = bits /\ \A j \in 0..(Blocks - 1) \ {i} : block'[j] = block[j]
  BY DEF Write, LocalInv, CallsInv
<1>2. meant' = intended
  BY DEF Write
<1>3. CallsInv'
  BY <1>1 DEF OnlyFrom, CallsInv
<1>4. \A j : j \notin torn' /\ j \notin torn => j # i \/ ~Tears(t, i)
  BY DEF Write
<1>5. \A j : j \in torn /\ j \notin torn' =>
               ~Tears(t, j) /\ \A p \in Positions : BlockOf(p) = j => (IsSet(p)' <=> p \in intended)
  BY DEF Write
<1>6. LoadsAreFresh'
  <2> SUFFICES ASSUME NEW u \in Users, call'[u].pc = "store",
                      BlockOf(call'[u].pos) \notin torn'
               PROVE  call'[u].loaded = block'[BlockOf(call'[u].pos)]
    BY DEF LoadsAreFresh
  <2>1. u # t /\ call'[u] = call[u]
    BY DEF OnlyFrom
  <2>2. PICK j \in 0..(Blocks - 1) : StandsAt(call[u], j)
    BY <2>1 DEF LocalInv, CallsInv, IsCall
  <2>3. BlockOf(call[u].pos) = j
    BY <2>2, Stands DEF LocalInv, CallsInv
  <2>4. Tears(t, j)
    BY <2>1, <2>3 DEF Tears
  <2>5. j \notin torn
    BY <1>5, <2>1, <2>3, <2>4
  <2>6. j # i
    BY <1>4, <2>1, <2>3, <2>4, <2>5
  <2>7. call[u].loaded = block[j]
    BY <2>1, <2>3, <2>5 DEF LocalInv, LoadsAreFresh
  <2> QED
    BY <1>1, <2>1, <2>3, <2>6, <2>7
<1>7. ResetIsLocal'
  <2> SUFFICES ASSUME NEW p \in Positions, BlockOf(p) \notin torn'
               PROVE  IsSet(p)' <=> p \in meant'
    BY DEF ResetIsLocal, Positions, BlockOf
  <2>1. PICK j \in 0..(Blocks - 1) : j = BlockOf(p)
    BY BlockIsThere
  <2>2. IsSet(p)' <=> p % BlockBits \in block'[j]
    BY <2>1 DEF IsSet, BlockOf
  <2>3. CASE j \in torn
    BY <1>2, <1>5, <2>1, <2>3
  <2>4. CASE j \notin torn /\ j = i
    BY <1>1, <1>2, <2>1, <2>2, <2>4
  <2>5. CASE j \notin torn /\ j # i
    <3>1. p % BlockBits \in block[j] <=> p \in meant
      BY <2>1, <2>5 DEF LocalInv, ResetIsLocal, IsSet
    <3> QED
      BY <1>1, <1>2, <2>1, <2>2, <2>5, <3>1
  <2> QED
    BY <2>3, <2>4, <2>5
<1> QED
  BY <1>3, <1>6, <1>7 DEF LocalInv

LEMMA LocalTestAndSet ==
  ASSUME LocalInv, NEW t \in Users, TestAndSet(t)
  PROVE  LocalInv'
<1>1. PICK pos \in Positions, value \in BOOLEAN :
        Write(t, BlockOf(pos),
              IF value THEN block[BlockOf(pos)] \cup BitMask(pos)
                       ELSE block[BlockOf(pos)] \ BitMask(pos),
              IF value THEN meant \cup {pos} ELSE meant \ {pos})
  BY DEF TestAndSet
<1>2. PICK i \in 0..(Blocks - 1) : i = BlockOf(pos)
  BY BlockIsThere
<1>3. PICK bits : bits = IF value THEN block[i] \cup {pos % BlockBits}
                                  ELSE block[i] \ {pos % BlockBits}
  OBVIOUS
<1>4. PICK intended : intended = IF value THEN meant \cup {pos} ELSE meant \ {pos}
  OBVIOUS
<1>5. Write(t, i, bits, intended)
  BY <1>1, <1>2, <1>3, <1>4 DEF BitMask
<1>6. bits \in SUBSET AllBits
  <2>1. pos % BlockBits \in AllBits
    BY PlaceOf, BlockIsThere
  <2>2. block[i] \in SUBSET AllBits
    BY DEF LocalInv, CallsInv
  <2> QED
    BY <1>3, <2>1, <2>2
<1>7. call' = call /\ call[t].pc # "store"
  BY NoCallIs DEF TestAndSet
<1>8. OnlyFrom(t)
  BY <1>7 DEF OnlyFrom, LocalInv, CallsInv
<1>9. \A p \in Positions : BlockOf(p) # i => (p \in intended <=> p \in meant)
  BY <1>2, <1>4
<1>10. ASSUME i \notin torn, NEW p \in Positions, BlockOf(p) = i
       PROVE  p % BlockBits \in bits <=> p \in intended
  <2>1. p % BlockBits \in block[i] <=> p \in meant
    BY <1>10 DEF LocalInv, ResetIsLocal, IsSet
  <2>2. p % BlockBits = pos % BlockBits <=> p = pos
    BY <1>2, <1>10, SamePlace, BlockIsThere
  <2> QED
    BY <1>3, <1>4, <2>1, <2>2
<1> QED
  BY <1>5, <1>6, <1>7, <1>8, <1>9, <1>10, Written

LEMMA LocalResetStore ==
  ASSUME LocalInv, NEW t \in Users, ResetStore(t)
  PROVE  LocalInv'
<1>1. PICK c \in Calls : c = call[t] /\ IsCall(c) /\ c.pc = "store"
  BY DEF LocalInv, CallsInv, ResetStore
<1>2. PICK i \in 0..(Blocks - 1) : StandsAt(c, i)
  BY <1>1 DEF IsCall
<1>3. BlockOf(c.pos) = i
  BY <1>2, Stands
<1>4. PICK range : range = {p \in Positions : BlockOf(p) = i /\ c.begin <= p /\ p < c.end}
  OBVIOUS
<1>5. PICK bits : bits = IF c.value THEN c.loaded \cup MaskAt(c) ELSE c.loaded \ MaskAt(c)
  OBVIOUS
<1>6. PICK intended : intended = IF c.value THEN meant \cup range ELSE meant \ range
  OBVIOUS
<1>7. PICK d : d = [c EXCEPT !.loaded = {}]
  OBVIOUS
<1>8. Write(t, i, bits, intended) /\ Become(t, Further(d, "load"))
  BY <1>1, <1>3, <1>4, <1>5, <1>6, <1>7 DEF ResetStore
<1>9. d \in Calls /\ StandsAt(d, i) /\ d.kind = "reset"
  BY <1>1, <1>2, <1>7 DEF Calls, StandsAt, IsCall
<1>10. PICK e : e = Further(d, "load")
  OBVIOUS
<1>11. IsCall(e) /\ e.pc # "store"
  <2>1. /\ e \in Calls /\ SameRange(e, d)
        /\ e.pc \in {"load", "done"} /\ (StandsAt(e, i + 1) \/ StandsAt(e, i))
    BY <1>9, <1>10, FurtherIs
  <2>2. e.kind = "reset"
    BY <1>9, <2>1 DEF SameRange
  <2>3. \E j \in 0..(Blocks - 1) : StandsAt(e, j)
    BY <2>1 DEF StandsAt
  <2> QED
    BY <2>1, <2>2, <2>3 DEF IsCall
<1>12. OnlyFrom(t) /\ call'[t] = e
  BY <1>8, <1>10, <1>11, Became DEF OnlyFrom, LocalInv
<1>13. bits \in SUBSET AllBits
  BY <1>5, MaskIsBits DEF Calls
<1>14. \A p \in Positions : BlockOf(p) # i => (p \in intended <=> p \in meant)
  BY <1>4, <1>6
<1>15. ASSUME i \notin torn, NEW p \in Positions, BlockOf(p) = i
       PROVE  p % BlockBits \in bits <=> p \in intended
  <2>1. c.loaded = block[i]
    BY <1>1, <1>3, <1>15 DEF LocalInv, LoadsAreFresh
  <2>2. p % BlockBits \in block[i] <=> p \in meant
    BY <1>15 DEF LocalInv, ResetIsLocal, IsSet
  <2>3. p % BlockBits \in MaskAt(c) <=> p \in range
    BY <1>2, <1>4, <1>15, MaskIsRange, BlockIsThere
  <2> QED
    BY <1>5, <1>6, <2>1, <2>2, <2>3
<1> QED
  BY <1>8, <1>11, <1>12, <1>13, <1>14, <1>15, Written

\* A step that writes nothing, after which t has stored or has loaded afresh.
LEMMA NotWritten ==
  ASSUME LocalInv, NEW t \in Users, OnlyFrom(t), UNCHANGED <<block, meant, torn>>,
         call'[t].pc = "store" => call'[t].loaded = block[BlockOf(call'[t].pos)]
  PROVE  LocalInv'
<1>1. CallsInv'
  BY DEF LocalInv, CallsInv, OnlyFrom
<1>2. LoadsAreFresh'
  BY DEF LocalInv, LoadsAreFresh, OnlyFrom, BlockOf
<1>3. ResetIsLocal'
  BY DEF LocalInv, ResetIsLocal, IsSet, Positions, BlockOf
<1> QED
  BY <1>1, <1>2, <1>3 DEF LocalInv

\* A new call stands at the block of its first position and has counted nothing.
LEMMA CallIs ==
  ASSUME CallsInv, NEW t \in Users, Call(t)
  PROVE  /\ OnlyFrom(t) /\ call'[t].pc \in {"load", "look"}
         /\ call'[t].result = 0 /\ call'[t].pos <= call'[t].begin
<1>1. PICK kind \in {"reset", "isAll", "isNone", "count"}, begin \in 0..BitSize, end \in 0..BitSize,
           value \in BOOLEAN :
        /\ begin + 1 < end /\ begin < BlockBits
        /\ Become(t, [NoCall EXCEPT !.pc = IF kind = "reset" THEN "load" ELSE "look",
                       !.kind = kind, !.begin = begin, !.end = end, !.value = value,
                       !.pos = BlockOf(begin) * BlockBits])
  BY DEF Call
<1>2. PICK c : c = [NoCall EXCEPT !.pc = IF kind = "reset" THEN "load" ELSE "look",
                       !.kind = kind, !.begin = begin, !.end = end, !.value = value,
                       !.pos = BlockOf(begin) * BlockBits]
  OBVIOUS
<1>3. begin \in Positions /\ begin \in Nat /\ end \in Nat /\ end <= BitSize /\ begin < end
  BY <1>1, Constants DEF Positions
<1>4. PICK i \in 0..(Blocks - 1) : i = BlockOf(begin)
  BY <1>3, BlockIsThere
<1>5. /\ i * BlockBits \in Nat /\ i * BlockBits <= begin /\ begin < i * BlockBits + BlockBits
  <2>1. PICK k \in AllBits : begin = i * BlockBits + k
    BY <1>3, <1>4, PlaceOf
  <2>2. k \in Nat /\ k < BlockBits /\ i * BlockBits \in Nat
    BY <1>4, Constants DEF AllBits
  <2> QED
    BY <1>3, <2>1, <2>2, Constants
<1>6. /\ c.pc = (IF kind = "reset" THEN "load" ELSE "look") /\ c.kind = kind
      /\ c.begin = begin /\ c.end = end /\ c.pos = i * BlockBits
      /\ c.value = value /\ c.loaded = {} /\ c.result = 0
      /\ c = [pc |-> c.pc, kind |-> c.kind, begin |-> c.begin, end |-> c.end, pos |-> c.pos,
              loaded |-> c.loaded, value |-> c.value, result |-> c.result]
  BY <1>2, <1>4 DEF NoCall
<1>7. c \in Calls
  BY <1>1, <1>3, <1>5, <1>6 DEF Calls
<1>8. StandsAt(c, i)
  BY <1>3, <1>5, <1>6, Constants DEF StandsAt
<1>9. IsCall(c) /\ c.pc # "store"
  BY <1>6, <1>7, <1>8, <1>4 DEF IsCall
<1>10. OnlyFrom(t) /\ call'[t] = c
  BY <1>1, <1>2, <1>9, Became DEF OnlyFrom
<1> QED
  BY <1>5, <1>6, <1>9, <1>10

LEMMA LocalResetLoad ==
  ASSUME LocalInv, NEW t \in Users, ResetLoad(t)
  PROVE  LocalInv'
<1>1. PICK c \in Calls : c = call[t] /\ IsCall(c) /\ c.pc = "load"
  BY DEF LocalInv, CallsInv, ResetLoad
<1>2. PICK i \in 0..(Blocks - 1) : StandsAt(c, i)
  BY <1>1 DEF IsCall
<1>3. BlockOf(c.pos) = i
  BY <1>2, Stands
<1>4. PICK d : d = [c EXCEPT !.pc = "store", !.loaded = block[i]]
  OBVIOUS
<1>5. block[i] \in SUBSET AllBits
  BY DEF LocalInv, CallsInv
<1>6. /\ d \in Calls /\ d.pc = "store" /\ d.loaded = block[i] /\ d.kind = c.kind
      /\ d.begin = c.begin /\ d.end = c.end /\ d.pos = c.pos
  BY <1>4, <1>5 DEF Calls
<1>7. StandsAt(d, i)
  BY <1>2, <1>6 DEF StandsAt
<1>8. IsCall(d)
  BY <1>1, <1>6, <1>7 DEF IsCall
<1>9. Become(t, d)
  BY <1>1, <1>3, <1>4 DEF ResetLoad
<1>10. OnlyFrom(t) /\ call'[t] = d
  BY <1>8, <1>9, Became DEF OnlyFrom, LocalInv
<1> QED
  BY <1>3, <1>6, <1>10, NotWritten DEF ResetLoad

\* A call that has looked at its block, whatever it found.
LEMMA Answered ==
  ASSUME NEW c \in Calls, IsCall(c), c.pc = "look", NEW r \in Nat, NEW i, StandsAt(c, i)
  PROVE  /\ [c EXCEPT !.result = r] \in Calls /\ StandsAt([c EXCEPT !.result = r], i)
         /\ IsCall(Further([c EXCEPT !.result = r], "look"))
         /\ Further([c EXCEPT !.result = r], "look").pc # "store"
         /\ IsCall([c EXCEPT !.result = r, !.pc = "done"])
<1>1. PICK d : d = [c EXCEPT !.result = r]
  OBVIOUS
<1>2. d \in Calls /\ StandsAt(d, i) /\ d.kind = c.kind
  BY <1>1 DEF Calls, StandsAt
<1>3. PICK e : e = Further(d, "look")
  OBVIOUS
<1>4. /\ e \in Calls /\ SameRange(e, d)
      /\ e.pc \in {"look", "done"} /\ (StandsAt(e, i + 1) \/ StandsAt(e, i))
  BY <1>2, <1>3, FurtherIs
<1>5. \E j \in 0..(Blocks - 1) : StandsAt(e, j)
  BY <1>4 DEF StandsAt
<1>6. IsCall(e) /\ e.pc # "store"
  BY <1>2, <1>4, <1>5 DEF IsCall, SameRange
<1>7. PICK f : f = [c EXCEPT !.result = r, !.pc = "done"]
  OBVIOUS
<1>8. f \in Calls /\ StandsAt(f, i) /\ f.pc = "done"
  BY <1>7 DEF Calls, StandsAt
<1>9. IsCall(f)
  BY <1>8 DEF IsCall, StandsAt
<1> QED
  BY <1>1, <1>2, <1>3, <1>6, <1>7, <1>9

\* What a look at block i finds, and where it leaves the call.
BitsOfRange(c, i) == block[i] \cap MaskAt(c)
Found(c, i) == IF c.kind = "count" THEN c.result + Cardinality(BitsOfRange(c, i)) ELSE 1
Yes(c, i) == IF c.kind = "isAll" THEN BitsOfRange(c, i) = MaskAt(c) ELSE BitsOfRange(c, i) = {}
Onward(c, i) == Further([c EXCEPT !.result = Found(c, i)], "look")
Stopped(c) == [c EXCEPT !.result = 0, !.pc = "done"]
Looked(c, d, i) == \/ d = Onward(c, i) /\ (c.kind = "count" \/ Yes(c, i))
                   \/ d = Stopped(c) /\ c.kind # "count" /\ ~Yes(c, i)

LEMMA BitsAreFinite ==
  IsFiniteSet(AllBits) /\ \A S \in SUBSET AllBits : IsFiniteSet(S) /\ Cardinality(S) \in Nat
<1>1. IsFiniteSet(AllBits)
  BY Constants, FS_Interval DEF AllBits
<1> QED
  BY <1>1, FS_Subset, FS_CardinalityType

LEMMA LookIs ==
  ASSUME CallsInv, NEW t \in Users, Look(t)
  PROVE  \E i \in 0..(Blocks - 1) :
           /\ StandsAt(call[t], i) /\ Found(call[t], i) \in Nat
           /\ Looked(call[t], call'[t], i)
           /\ OnlyFrom(t) /\ call'[t].pc # "store"
<1>1. PICK c \in Calls : c = call[t] /\ IsCall(c) /\ c.pc = "look"
  BY DEF CallsInv, Look
<1>2. PICK i \in 0..(Blocks - 1) : StandsAt(c, i)
  BY <1>1 DEF IsCall
<1>3. BlockOf(c.pos) = i
  BY <1>2, Stands
<1>4. PICK b \in SUBSET AllBits : b = block[i] \cap MaskAt(c)
  BY MaskIsBits
<1>5. PICK n \in Nat : n = c.result + Cardinality(b)
  BY BitsAreFinite DEF Calls
<1>6. PICK yes \in BOOLEAN : yes = IF c.kind = "isAll" THEN b = MaskAt(c) ELSE b = {}
  OBVIOUS
<1>7. \/ c.kind = "count" /\ Become(t, Further([c EXCEPT !.result = n], "look"))
      \/ c.kind # "count" /\ yes /\ Become(t, Further([c EXCEPT !.result = 1], "look"))
      \/ c.kind # "count" /\ ~yes /\ Become(t, [c EXCEPT !.result = 0, !.pc = "done"])
  BY <1>1, <1>3, <1>4, <1>5, <1>6 DEF Look
<1>8. Found(c, i) = (IF c.kind = "count" THEN n ELSE 1) /\ (Yes(c, i) <=> yes)
  BY <1>4, <1>5, <1>6 DEF Found, Yes, BitsOfRange
<1>9. Found(c, i) \in Nat
  BY <1>8
<1>10. PICK d : Become(t, d) /\ Looked(c, d, i)
  BY <1>7, <1>8 DEF Looked, Onward, Stopped
<1>11. IsCall(d) /\ d.pc # "store"
  <2>1. CASE d = Onward(c, i)
    BY <1>1, <1>2, <1>9, <2>1, Answered DEF Onward
  <2>2. CASE d = Stopped(c)
    <3>1. IsCall(d)
      BY <1>1, <1>2, <2>2, Answered DEF Stopped
    <3> QED
      BY <2>2, <3>1 DEF Stopped, Calls
  <2> QED
    BY <1>10, <2>1, <2>2 DEF Looked
<1>12. OnlyFrom(t) /\ call'[t] = d
  BY <1>10, <1>11, Became DEF OnlyFrom
<1> QED
  BY <1>1, <1>2, <1>9, <1>10, <1>11, <1>12

LEMMA ReturnIs ==
  ASSUME CallsInv, NEW t \in Users, Return(t)
  PROVE  OnlyFrom(t) /\ call'[t].pc = "idle"
<1>1. PICK c : c = NoCall /\ IsCall(c) /\ c.pc = "idle"
  BY NoCallIs
<1> QED
  BY <1>1, Became DEF Return, OnlyFrom

LEMMA StepLocal == LocalInv /\ [bitNext]_bitVars => LocalInv'
<1> SUFFICES ASSUME LocalInv, [bitNext]_bitVars PROVE LocalInv'
  OBVIOUS
<1>1. ASSUME NEW t \in Users, TestAndSet(t) PROVE LocalInv'
  BY <1>1, LocalTestAndSet
<1>2. ASSUME NEW t \in Users, Call(t) PROVE LocalInv'
  BY <1>2, CallIs, NotWritten DEF Call, LocalInv
<1>3. ASSUME NEW t \in Users, ResetLoad(t) PROVE LocalInv'
  BY <1>3, LocalResetLoad
<1>4. ASSUME NEW t \in Users, ResetStore(t) PROVE LocalInv'
  BY <1>4, LocalResetStore
<1>5. ASSUME NEW t \in Users, Look(t) PROVE LocalInv'
  BY <1>5, LookIs, NotWritten DEF Look, LocalInv
<1>6. ASSUME NEW t \in Users, Return(t) PROVE LocalInv'
  BY <1>6, ReturnIs, NotWritten DEF Return, LocalInv
<1>7. CASE UNCHANGED bitVars
  BY <1>7 DEF bitVars, LocalInv, CallsInv, LoadsAreFresh, ResetIsLocal, IsSet, Positions, BlockOf
<1> QED
  BY <1>1, <1>2, <1>3, <1>4, <1>5, <1>6, <1>7 DEF bitNext

\* Outside of the blocks that somebody wrote between the load and the store of
\* a reset, every bit is what the last testAndSet or reset of its position
\* made it: a reset reaches no bit outside of its range.
THEOREM ResetsAreLocal == bitSpec => []ResetIsLocal
<1>1. LocalInv => ResetIsLocal
  BY DEF LocalInv
<1> QED
  BY <1>1, InitLocal, StepLocal, PTL DEF bitSpec

(***************************************************************************)
(* The answers of the queries.                                             *)
(***************************************************************************)
RangeOf(c) == c.begin..(c.end - 1)
\* The positions whose block the call has looked at.
Seen(c) == {p \in RangeOf(c) : c.pc = "done" \/ p < c.pos}

\* What a call knows of the bits it has seen, set at some time or clear.
AllHonest(c, set, clear) ==
  IF c.pc = "look" \/ c.result = 1 THEN Seen(c) \subseteq set ELSE RangeOf(c) \cap clear # {}
CountHonest(c, set, clear) ==
  Cardinality(Seen(c) \ clear) <= c.result /\ c.result <= Cardinality(Seen(c) \cap set)
HonestCall(c, set, clear) ==
  c.pc \in {"look", "done"} =>
    /\ c.kind = "isAll" => AllHonest(c, set, clear)
    /\ c.kind = "isNone" => AllHonest(c, clear, set)
    /\ c.kind = "count" => CountHonest(c, set, clear)

HonestInv == CallsInv /\ \A t \in Users : HonestCall(call[t], sawSet[t], sawClear[t])

LEMMA SeenIsFinite ==
  ASSUME NEW c \in Calls
  PROVE  /\ IsFiniteSet(RangeOf(c)) /\ Seen(c) \subseteq RangeOf(c)
         /\ \A S \in SUBSET RangeOf(c) : IsFiniteSet(S) /\ Cardinality(S) \in Nat
         /\ \A S \in SUBSET RangeOf(c) : \A T \in SUBSET S : Cardinality(T) <= Cardinality(S)
<1>1. c.begin \in Int /\ c.end - 1 \in Int
  BY DEF Calls
<1>2. IsFiniteSet(RangeOf(c))
  BY <1>1, FS_Interval DEF RangeOf
<1>3. \A S \in SUBSET RangeOf(c) : IsFiniteSet(S) /\ Cardinality(S) \in Nat
  BY <1>2, FS_Subset, FS_CardinalityType
<1>4. \A S \in SUBSET RangeOf(c) : \A T \in SUBSET S : Cardinality(T) <= Cardinality(S)
  BY <1>3, FS_Subset
<1> QED
  BY <1>2, <1>3, <1>4 DEF Seen

\* To see more of the bits does no harm.
LEMMA Wider ==
  ASSUME NEW c \in Calls, NEW set, NEW clear, NEW set2, NEW clear2,
         HonestCall(c, set, clear),
         RangeOf(c) \cap set \subseteq set2, RangeOf(c) \cap clear \subseteq clear2
  PROVE  HonestCall(c, set2, clear2)
<1>1. Seen(c) \subseteq RangeOf(c)
  BY SeenIsFinite
<1>2. AllHonest(c, set, clear) => AllHonest(c, set2, clear2)
  BY <1>1 DEF AllHonest
<1>3. AllHonest(c, clear, set) => AllHonest(c, clear2, set2)
  BY <1>1 DEF AllHonest
<1>4. ASSUME CountHonest(c, set, clear) PROVE CountHonest(c, set2, clear2)
  <2>1. PICK A \in SUBSET RangeOf(c) : A = Seen(c) \ clear
    BY <1>1
  <2>2. PICK A2 \in SUBSET RangeOf(c) : A2 = Seen(c) \ clear2
    BY <1>1
  <2>3. PICK E \in SUBSET RangeOf(c) : E = Seen(c) \cap set
    BY <1>1
  <2>4. PICK E2 \in SUBSET RangeOf(c) : E2 = Seen(c) \cap set2
    BY <1>1
  <2>5. A2 \subseteq A /\ E \subseteq E2
    BY <1>1, <2>1, <2>2, <2>3, <2>4
  <2>6. Cardinality(A2) <= Cardinality(A) /\ Cardinality(E) <= Cardinality(E2)
    BY <2>5, SeenIsFinite
  <2>7. Cardinality(A2) \in Nat /\ Cardinality(A) \in Nat
        /\ Cardinality(E) \in Nat /\ Cardinality(E2) \in Nat
    BY SeenIsFinite
  <2>8. Cardinality(A) <= c.result /\ c.result <= Cardinality(E) /\ c.result \in Nat
    BY <1>4, <2>1, <2>3 DEF CountHonest, Calls
  <2> QED
    BY <2>2, <2>4, <2>6, <2>7, <2>8 DEF CountHonest
<1> QED
  BY <1>2, <1>3, <1>4 DEF HonestCall

Queries == {"isAll", "isNone", "count"}

\* What a query sees of a step: the bits of its range as the step leaves them.
LEMMA Observed ==
  ASSUME Observe, NEW t \in Users, call'[t].kind \in Queries
  PROVE  /\ \A p \in RangeOf(call'[t]) : p \in sawSet[t] => p \in sawSet'[t]
         /\ \A p \in RangeOf(call'[t]) : p \in sawClear[t] => p \in sawClear'[t]
         /\ \A p \in RangeOf(call'[t]) : p \in sawSet'[t] \/ p \in sawClear'[t]
         /\ \A p \in RangeOf(call'[t]) :
              p % BlockBits \in block'[BlockOf(p)] => p \in sawSet'[t]
         /\ \A p \in RangeOf(call'[t]) :
              p % BlockBits \notin block'[BlockOf(p)] => p \in sawClear'[t]
<1>1. Queried(t)' = RangeOf(call'[t])
  BY DEF Queried, Asked, RangeOf, Queries
<1>2. /\ sawSet'[t] = {p \in Queried(t)' : p \in sawSet[t] \/ IsSet(p)'}
      /\ sawClear'[t] = {p \in Queried(t)' : p \in sawClear[t] \/ ~IsSet(p)'}
  BY DEF Observe
<1> QED
  BY <1>1, <1>2 DEF IsSet, BlockOf

\* A step leaves the other queries honest.
LEMMA OthersHonest ==
  ASSUME HonestInv, Observe, NEW t \in Users, OnlyFrom(t), NEW u \in Users, call'[u] = call[u]
  PROVE  HonestCall(call'[u], sawSet'[u], sawClear'[u])
<1>1. HonestCall(call[u], sawSet[u], sawClear[u]) /\ call[u] \in Calls
  BY DEF HonestInv, CallsInv
<1>2. CASE call[u].kind \in Queries
  <2>1. /\ RangeOf(call[u]) \cap sawSet[u] \subseteq sawSet'[u]
        /\ RangeOf(call[u]) \cap sawClear[u] \subseteq sawClear'[u]
    BY <1>2, Observed
  <2> QED
    BY <1>1, <2>1, Wider
<1>3. CASE call[u].kind \notin Queries
  BY <1>3 DEF HonestCall, Queries
<1> QED
  BY <1>2, <1>3

\* The positions of the range that lie in block i.
Here(c, i) == {p \in RangeOf(c) : BlockOf(p) = i}

\* The places of the mask are those of the positions that lie here.
LEMMA HereIs ==
  ASSUME NEW c \in Calls, NEW i, StandsAt(c, i)
  PROVE  /\ \A p \in Here(c, i) : p \in Nat /\ p % BlockBits \in MaskAt(c)
         /\ \A k \in MaskAt(c) : \E p \in Here(c, i) : p % BlockBits = k
         /\ \A p \in RangeOf(c) : p \in Here(c, i) <=> c.pos <= p /\ p < c.pos + BlockBits
<1>1. /\ i \in Nat /\ c.pos = i * BlockBits /\ c.pos \in Nat /\ c.begin \in Nat /\ c.end \in Nat
  BY Stands
<1>2. \A p : p \in RangeOf(c) <=> p \in Nat /\ c.begin <= p /\ p < c.end
  BY <1>1 DEF RangeOf
<1>3. \A p \in Here(c, i) : p \in Nat /\ p % BlockBits \in MaskAt(c)
  BY <1>2, MaskIsRange DEF Here
<1>4. ASSUME NEW k \in MaskAt(c) PROVE \E p \in Here(c, i) : p % BlockBits = k
  <2>1. k \in AllBits
    BY MaskIsBits
  <2>2. PICK p \in Nat : p = i * BlockBits + k /\ BlockOf(p) = i /\ p % BlockBits = k
    BY <1>1, <2>1, PositionOf
  <2>3. c.begin <= p /\ p < c.end
    BY <2>2, MaskIsRange
  <2> QED
    BY <1>2, <2>2, <2>3 DEF Here
<1>5. ASSUME NEW p \in RangeOf(c)
      PROVE  p \in Here(c, i) <=> c.pos <= p /\ p < c.pos + BlockBits
  <2>1. p \in Nat
    BY <1>2
  <2>2. ASSUME BlockOf(p) = i PROVE c.pos <= p /\ p < c.pos + BlockBits
    <3>1. PICK r \in AllBits : p = c.pos + r
      BY <1>1, <2>1, <2>2, PlaceOf
    <3> QED
      BY <1>1, <2>1, <3>1, Constants DEF AllBits
  <2>3. ASSUME c.pos <= p, p < c.pos + BlockBits PROVE BlockOf(p) = i
    <3>1. PICK k \in AllBits : k = p - c.pos
      BY <1>1, <2>1, <2>3, Constants DEF AllBits
    <3>2. p = i * BlockBits + k
      BY <1>1, <2>1, <3>1, Constants DEF AllBits
    <3> QED
      BY <1>1, <3>2, PositionOf
  <2> QED
    BY <2>2, <2>3 DEF Here
<1> QED
  BY <1>3, <1>4, <1>5

\* Onward to the next block, or to the end: what has been seen is what had been,
\* and what lies here.
LEMMA SeesOn ==
  ASSUME NEW c \in Calls, c.pc = "look", NEW i, StandsAt(c, i), NEW n \in Nat,
         NEW d, d = Further([c EXCEPT !.result = n], "look")
  PROVE  /\ d \in Calls /\ d.kind = c.kind /\ d.result = n /\ RangeOf(d) = RangeOf(c)
         /\ d.pc \in {"look", "done"}
         /\ Seen(d) = Seen(c) \cup Here(c, i) /\ Seen(c) \cap Here(c, i) = {}
<1>1. PICK e : e = [c EXCEPT !.result = n]
  OBVIOUS
<1>2. /\ e \in Calls /\ StandsAt(e, i) /\ e.kind = c.kind /\ e.begin = c.begin /\ e.end = c.end
      /\ e.pos = c.pos /\ e.result = n
  BY <1>1 DEF Calls, StandsAt
<1>3. /\ d \in Calls /\ SameRange(d, e)
      /\ \/ d.pc = "look" /\ d.pos = c.pos + BlockBits
         \/ d.pc = "done" /\ c.end <= c.pos + BlockBits
  <2>1. d = Further(e, "look")
    BY <1>1
  <2> QED
    BY <1>2, <2>1, FurtherIs
<1>4. RangeOf(d) = RangeOf(c)
  BY <1>2, <1>3 DEF SameRange, RangeOf
<1>5. \A p \in RangeOf(c) : p \in Here(c, i) <=> c.pos <= p /\ p < c.pos + BlockBits
  BY HereIs
<1>6. c.pos \in Nat /\ c.end \in Nat /\ c.begin \in Nat
  BY Stands
<1>7. \A p \in RangeOf(c) : p \in Nat /\ p < c.end
  BY <1>6 DEF RangeOf
<1>8. \A p \in RangeOf(c) : p \in Seen(c) <=> p < c.pos
  BY DEF Seen
<1>9. \A p \in RangeOf(c) : p \in Seen(d) <=> p < c.pos + BlockBits
  BY <1>3, <1>4, <1>6, <1>7, Constants DEF Seen
<1>10. /\ Seen(d) \subseteq RangeOf(c) /\ Seen(c) \subseteq RangeOf(c) /\ Here(c, i) \subseteq RangeOf(c)
  BY <1>4 DEF Seen, Here
<1>11. \A p \in RangeOf(c) : p < c.pos + BlockBits <=> p < c.pos \/ (c.pos <= p /\ p < c.pos + BlockBits)
  BY <1>6, <1>7, Constants
<1>12. \A p \in RangeOf(c) : ~(p < c.pos /\ c.pos <= p)
  BY <1>6, <1>7
<1>13. Seen(d) = Seen(c) \cup Here(c, i)
  BY <1>5, <1>8, <1>9, <1>10, <1>11
<1>14. Seen(c) \cap Here(c, i) = {}
  BY <1>5, <1>8, <1>10, <1>12
<1> QED
  BY <1>2, <1>3, <1>4, <1>13, <1>14 DEF SameRange

\* The bits of the range that are set here are as many as their places.
LEMMA SetHere ==
  ASSUME CallsInv, NEW c \in Calls, NEW i \in 0..(Blocks - 1), StandsAt(c, i)
  PROVE  Cardinality({p \in Here(c, i) : p % BlockBits \in block[i]})
           = Cardinality(BitsOfRange(c, i))
<1>1. PICK S : S = {p \in Here(c, i) : p % BlockBits \in block[i]}
  OBVIOUS
<1>2. PICK T : T = BitsOfRange(c, i)
  OBVIOUS
<1>3. PICK f : f = [p \in S |-> p % BlockBits]
  OBVIOUS
<1>4. f \in [S -> T]
  BY <1>1, <1>2, <1>3, HereIs DEF BitsOfRange
<1>5. \A p, q \in S : f[p] = f[q] => p = q
  BY <1>1, <1>3, HereIs, SamePlace DEF Here
<1>6. \A k \in T : \E p \in S : f[p] = k
  BY <1>1, <1>2, <1>3, HereIs DEF BitsOfRange
<1>7. f \in Bijection(S, T)
  BY <1>4, <1>5, <1>6 DEF Bijection, Injection, Surjection, IsInjective
<1>8. IsFiniteSet(S)
  <2>1. S \in SUBSET RangeOf(c)
    BY <1>1 DEF Here
  <2> QED
    BY <2>1, SeenIsFinite
<1>9. Cardinality(T) = Cardinality(S)
  BY <1>7, <1>8, FS_Bijection DEF ExistsBijection
<1> QED
  BY <1>1, <1>2, <1>9

\* A look at a block that answers no: some bit of the range was not as asked.
LEMMA LookSaysNo ==
  ASSUME CallsInv, Observe, block' = block, NEW t \in Users, NEW c \in Calls, c = call[t],
         c.pc = "look", c.kind \in {"isAll", "isNone"},
         NEW i \in 0..(Blocks - 1), StandsAt(c, i), ~Yes(c, i), call'[t] = Stopped(c)
  PROVE  HonestCall(call'[t], sawSet'[t], sawClear'[t])
<1>1. PICK d : d = Stopped(c)
  OBVIOUS
<1>2. /\ d.pc = "done" /\ d.kind = c.kind /\ d.result = 0 /\ RangeOf(d) = RangeOf(c)
  BY <1>1 DEF Stopped, Calls, RangeOf
<1>3. \A p \in Here(c, i) :
        /\ p \in RangeOf(d) /\ p % BlockBits \in MaskAt(c)
        /\ p % BlockBits \in block[i] => p \in sawSet'[t]
        /\ p % BlockBits \notin block[i] => p \in sawClear'[t]
  <2>1. call'[t].kind \in Queries
    BY <1>1, <1>2 DEF Queries
  <2> QED
    BY <1>1, <1>2, <2>1, Observed, HereIs DEF Here
<1>4. CASE c.kind = "isAll"
  <2>1. PICK k \in MaskAt(c) : k \notin block[i]
    BY <1>4 DEF Yes, BitsOfRange
  <2>2. PICK p \in Here(c, i) : p % BlockBits = k
    BY HereIs
  <2>3. p \in RangeOf(d) \cap sawClear'[t]
    BY <1>3, <2>1, <2>2
  <2> QED
    BY <1>1, <1>2, <1>4, <2>3 DEF HonestCall, AllHonest
<1>5. CASE c.kind = "isNone"
  <2>1. PICK k \in MaskAt(c) : k \in block[i]
    BY <1>5 DEF Yes, BitsOfRange
  <2>2. PICK p \in Here(c, i) : p % BlockBits = k
    BY HereIs
  <2>3. p \in RangeOf(d) \cap sawSet'[t]
    BY <1>3, <2>1, <2>2
  <2> QED
    BY <1>1, <1>2, <1>5, <2>3 DEF HonestCall, AllHonest
<1> QED
  BY <1>4, <1>5

\* A look at a block that goes on.
LEMMA LookGoesOn ==
  ASSUME CallsInv, Observe, block' = block, NEW t \in Users, NEW c \in Calls, c = call[t],
         c.pc = "look", c.kind \in Queries, HonestCall(c, sawSet[t], sawClear[t]),
         NEW i \in 0..(Blocks - 1), StandsAt(c, i), Found(c, i) \in Nat,
         c.kind = "count" \/ Yes(c, i), call'[t] = Onward(c, i)
  PROVE  HonestCall(call'[t], sawSet'[t], sawClear'[t])
<1>1. PICK d : d = Onward(c, i)
  OBVIOUS
<1>2. /\ d \in Calls /\ d.kind = c.kind /\ d.result = Found(c, i) /\ RangeOf(d) = RangeOf(c)
      /\ d.pc \in {"look", "done"}
      /\ Seen(d) = Seen(c) \cup Here(c, i) /\ Seen(c) \cap Here(c, i) = {}
  BY <1>1, SeesOn DEF Onward
<1>3. /\ \A p \in RangeOf(c) : p \in sawSet[t] => p \in sawSet'[t]
      /\ \A p \in RangeOf(c) : p \in sawClear[t] => p \in sawClear'[t]
      /\ \A p \in Here(c, i) : p % BlockBits \in block[i] => p \in sawSet'[t]
      /\ \A p \in Here(c, i) : p % BlockBits \notin block[i] => p \in sawClear'[t]
  BY <1>1, <1>2, Observed DEF Here
<1>4. Seen(c) \subseteq RangeOf(c) /\ Here(c, i) \subseteq RangeOf(c)
  BY DEF Seen, Here
<1>5. CASE c.kind = "isAll"
  <2>1. Seen(c) \subseteq sawSet[t]
    BY <1>5 DEF HonestCall, AllHonest
  <2>2. MaskAt(c) \subseteq block[i]
    BY <1>5 DEF Yes, BitsOfRange
  <2>3. Here(c, i) \subseteq sawSet'[t]
    BY <1>3, <2>2, HereIs
  <2>4. Seen(d) \subseteq sawSet'[t]
    BY <1>2, <1>3, <1>4, <2>1, <2>3
  <2>5. d.result = 1
    BY <1>2, <1>5 DEF Found
  <2> QED
    BY <1>1, <1>2, <1>5, <2>4, <2>5 DEF HonestCall, AllHonest
<1>6. CASE c.kind = "isNone"
  <2>1. Seen(c) \subseteq sawClear[t]
    BY <1>6 DEF HonestCall, AllHonest
  <2>2. MaskAt(c) \cap block[i] = {}
    BY <1>6 DEF Yes, BitsOfRange
  <2>3. Here(c, i) \subseteq sawClear'[t]
    BY <1>3, <2>2, HereIs
  <2>4. Seen(d) \subseteq sawClear'[t]
    BY <1>2, <1>3, <1>4, <2>1, <2>3
  <2>5. d.result = 1
    BY <1>2, <1>6 DEF Found
  <2> QED
    BY <1>1, <1>2, <1>6, <2>4, <2>5 DEF HonestCall, AllHonest
<1>7. CASE c.kind = "count"
  <2>1. PICK A \in SUBSET RangeOf(c) : A = Seen(c) \ sawClear[t]
    BY <1>4
  <2>2. PICK E \in SUBSET RangeOf(c) : E = Seen(c) \cap sawSet[t]
    BY <1>4
  <2>3. PICK S \in SUBSET RangeOf(c) : S = {p \in Here(c, i) : p % BlockBits \in block[i]}
    BY <1>4
  <2>4. PICK A2 \in SUBSET RangeOf(c) : A2 = Seen(d) \ sawClear'[t]
    BY <1>2, <1>4
  <2>5. PICK E2 \in SUBSET RangeOf(c) : E2 = Seen(d) \cap sawSet'[t]
    BY <1>2, <1>4
  <2>6. /\ Cardinality(A) <= c.result /\ c.result <= Cardinality(E) /\ c.result \in Nat
    BY <1>7, <2>1, <2>2 DEF HonestCall, CountHonest, Calls
  <2>7. d.result = c.result + Cardinality(S)
    BY <1>2, <1>7, <2>3, SetHere DEF Found
  <2>8. A2 \subseteq A \cup S
    BY <1>2, <1>3, <1>4, <2>1, <2>3, <2>4
  <2>9. E \cup S \subseteq E2
    BY <1>2, <1>3, <1>4, <2>2, <2>3, <2>5
  <2>10. A \cap S = {} /\ E \cap S = {}
    BY <1>2, <2>1, <2>2, <2>3
  <2>11. \A T \in {A, E, S, A2, E2, A \cup S, E \cup S, {}} : IsFiniteSet(T) /\ Cardinality(T) \in Nat
    <3>1. \A T \in {A, E, S, A2, E2, A \cup S, E \cup S, {}} : T \in SUBSET RangeOf(c)
      OBVIOUS
    <3> QED
      BY <3>1, SeenIsFinite
  <2>12. /\ Cardinality(A \cup S) = Cardinality(A) + Cardinality(S)
         /\ Cardinality(E \cup S) = Cardinality(E) + Cardinality(S)
    <3>1. Cardinality({}) = 0
      BY FS_EmptySet
    <3>2. Cardinality(A \cup S) = Cardinality(A) + Cardinality(S) - Cardinality(A \cap S)
      BY <2>11, FS_Union
    <3>3. Cardinality(E \cup S) = Cardinality(E) + Cardinality(S) - Cardinality(E \cap S)
      BY <2>11, FS_Union
    <3>4. Cardinality(A \cap S) = 0 /\ Cardinality(E \cap S) = 0
      BY <2>10, <3>1, Zenon
    <3>5. Cardinality(A) \in Nat /\ Cardinality(E) \in Nat /\ Cardinality(S) \in Nat
      BY <2>11
    <3> QED
      BY <3>2, <3>3, <3>4, <3>5
  <2>13. Cardinality(A2) <= Cardinality(A \cup S) /\ Cardinality(E \cup S) <= Cardinality(E2)
    <3>1. A \cup S \in SUBSET RangeOf(c)
      OBVIOUS
    <3> QED
      BY <2>8, <2>9, <3>1, SeenIsFinite
  <2>14. Cardinality(A2) <= d.result /\ d.result <= Cardinality(E2)
    BY <2>6, <2>7, <2>11, <2>12, <2>13
  <2> QED
    BY <1>1, <1>2, <1>7, <2>4, <2>5, <2>14 DEF HonestCall, CountHonest
<1> QED
  BY <1>5, <1>6, <1>7 DEF Queries

\* A new query has seen nothing.
LEMMA NewIsHonest ==
  ASSUME NEW c \in Calls, c.pc # "done", c.result = 0, c.pos <= c.begin, NEW set, NEW clear
  PROVE  HonestCall(c, set, clear)
<1>1. c.begin \in Nat /\ c.end \in Nat /\ c.pos \in Nat
  BY DEF Calls
<1>2. Seen(c) = {}
  BY <1>1 DEF Seen, RangeOf
<1>3. Cardinality(Seen(c) \ clear) = 0 /\ Cardinality(Seen(c) \cap set) = 0
  BY <1>2, FS_EmptySet
<1> QED
  BY <1>2, <1>3 DEF HonestCall, AllHonest, CountHonest

LEMMA InitHonest == bitInit => HonestInv
<1> SUFFICES ASSUME bitInit PROVE HonestInv
  OBVIOUS
<1>1. \A t \in Users : call[t].pc = "idle"
  BY NoCallIs DEF bitInit
<1> QED
  BY <1>1, InitLocal DEF HonestInv, LocalInv, HonestCall

\* A step of t, with the query of t honest after it, leaves all honest.
LEMMA OneByOne ==
  ASSUME HonestInv, Observe, NEW t \in Users, OnlyFrom(t),
         block' \in [0..(Blocks - 1) -> SUBSET AllBits],
         HonestCall(call'[t], sawSet'[t], sawClear'[t])
  PROVE  HonestInv'
<1>1. CallsInv'
  BY DEF OnlyFrom, CallsInv
<1>2. ASSUME NEW u \in Users PROVE HonestCall(call'[u], sawSet'[u], sawClear'[u])
  <2>1. CASE u = t
    BY <2>1
  <2>2. CASE u # t
    BY <2>2, OthersHonest DEF OnlyFrom
  <2> QED
    BY <2>1, <2>2
<1>3. \A u \in Users : HonestCall(call[u], sawSet[u], sawClear[u])'
  BY <1>2 DEF HonestCall, AllHonest, CountHonest, Seen, RangeOf
<1> QED
  BY <1>1, <1>3 DEF HonestInv

LEMMA HonestTestAndSet ==
  ASSUME HonestInv, Observe, NEW t \in Users, TestAndSet(t), CallsInv'
  PROVE  HonestInv'
<1>1. call' = call /\ OnlyFrom(t)
  BY DEF TestAndSet, OnlyFrom, HonestInv, CallsInv
<1>2. HonestCall(call'[t], sawSet'[t], sawClear'[t])
  BY <1>1, OthersHonest
<1> QED
  BY <1>1, <1>2, OneByOne DEF CallsInv

LEMMA HonestLook ==
  ASSUME HonestInv, Observe, NEW t \in Users, Look(t)
  PROVE  HonestInv'
<1>1. PICK c \in Calls : c = call[t] /\ IsCall(c) /\ c.pc = "look"
  BY DEF HonestInv, CallsInv, Look
<1>2. PICK i \in 0..(Blocks - 1) :
        /\ StandsAt(c, i) /\ Found(c, i) \in Nat
        /\ Looked(c, call'[t], i) /\ OnlyFrom(t)
  BY <1>1, LookIs DEF HonestInv
<1>3. block' = block /\ CallsInv
  BY DEF Look, HonestInv
<1>4. HonestCall(c, sawSet[t], sawClear[t]) /\ c.kind \in Queries
  BY <1>1 DEF HonestInv, IsCall, Queries
<1>5. HonestCall(call'[t], sawSet'[t], sawClear'[t])
  <2>1. CASE call'[t] = Onward(c, i) /\ (c.kind = "count" \/ Yes(c, i))
    BY <1>1, <1>2, <1>3, <1>4, <2>1, LookGoesOn
  <2>2. CASE call'[t] = Stopped(c) /\ c.kind # "count" /\ ~Yes(c, i)
    BY <1>1, <1>2, <1>3, <1>4, <2>2, LookSaysNo DEF Queries
  <2> QED
    BY <1>2, <2>1, <2>2 DEF Looked
<1> QED
  BY <1>2, <1>3, <1>5, OneByOne DEF CallsInv

\* A step after which t has no query to answer.
LEMMA HonestOther ==
  ASSUME HonestInv, Observe, NEW t \in Users, OnlyFrom(t), CallsInv',
         call'[t].pc \in {"look", "done"} => call'[t].kind \notin Queries
  PROVE  HonestInv'
<1>1. HonestCall(call'[t], sawSet'[t], sawClear'[t])
  BY DEF HonestCall, Queries
<1> QED
  BY <1>1, OneByOne DEF CallsInv

LEMMA HonestResetStore ==
  ASSUME HonestInv, Observe, NEW t \in Users, ResetStore(t), CallsInv'
  PROVE  HonestInv'
<1>1. PICK c \in Calls : c = call[t] /\ IsCall(c) /\ c.pc = "store"
  BY DEF HonestInv, CallsInv, ResetStore
<1>2. PICK i \in 0..(Blocks - 1) : StandsAt(c, i)
  BY <1>1 DEF IsCall
<1>3. PICK d : d = [c EXCEPT !.loaded = {}]
  OBVIOUS
<1>4. d \in Calls /\ StandsAt(d, i) /\ d.kind = "reset"
  BY <1>1, <1>2, <1>3 DEF Calls, StandsAt, IsCall
<1>5. PICK e : e = Further(d, "load")
  OBVIOUS
<1>6. e.kind = "reset"
  BY <1>4, <1>5, FurtherIs DEF SameRange
<1>7. /\ call' \in [Users -> Calls] /\ call'[t] = e
      /\ \A u \in Users \ {t} : call'[u] = call[u]
  <2>1. Become(t, e)
    BY <1>1, <1>3, <1>5 DEF ResetStore
  <2> QED
    BY <2>1 DEF Become, HonestInv, CallsInv
<1>8. OnlyFrom(t)
  BY <1>7 DEF OnlyFrom, CallsInv
<1> QED
  BY <1>6, <1>7, <1>8, HonestOther DEF Queries

LEMMA HonestResetLoad ==
  ASSUME HonestInv, Observe, NEW t \in Users, ResetLoad(t), CallsInv'
  PROVE  HonestInv'
<1>1. /\ call'[t].pc = "store"
      /\ \A u \in Users \ {t} : call'[u] = call[u]
  BY DEF ResetLoad, Become, HonestInv, CallsInv, Calls
<1>2. OnlyFrom(t)
  BY <1>1 DEF OnlyFrom, CallsInv
<1> QED
  BY <1>1, <1>2, HonestOther

LEMMA StepHonest == HonestInv /\ CallsInv' /\ [bitNext]_bitVars => HonestInv'
<1> SUFFICES ASSUME HonestInv, CallsInv', [bitNext]_bitVars PROVE HonestInv'
  OBVIOUS
<1>1. ASSUME NEW t \in Users, Call(t), Observe PROVE HonestInv'
  <2>1. /\ OnlyFrom(t) /\ call'[t].pc \in {"load", "look"}
        /\ call'[t].result = 0 /\ call'[t].pos <= call'[t].begin
    BY <1>1, CallIs DEF HonestInv
  <2>2. call'[t] \in Calls
    BY <2>1 DEF OnlyFrom
  <2> QED
    BY <1>1, <2>1, <2>2, NewIsHonest, OneByOne DEF CallsInv
<1>2. ASSUME NEW t \in Users, Return(t), Observe PROVE HonestInv'
  BY <1>2, ReturnIs, HonestOther DEF HonestInv
<1>3. CASE UNCHANGED bitVars
  BY <1>3 DEF bitVars, HonestInv, CallsInv, HonestCall, AllHonest, CountHonest, Seen, RangeOf
<1> QED
  BY <1>1, <1>2, <1>3, HonestTestAndSet, HonestResetLoad, HonestResetStore, HonestLook DEF bitNext

\* The answers of isAll, isNone and count: yes means that every bit of the range
\* was so at some time during the call, no that some bit was not, and the count
\* lies between the bits that were set all along and those that ever were.
THEOREM AnswersHold == bitSpec => []AnswersAreHonest
<1>1. HonestInv => AnswersAreHonest
  <2> SUFFICES ASSUME HonestInv, NEW t \in Users, call[t].pc = "done"
               PROVE  LET range == Asked(t)
                          ever == Cardinality(range \cap sawSet[t])
                          always == Cardinality(range \ sawClear[t])
                      IN CASE call[t].kind = "isAll" ->
                                IF call[t].result = 1 THEN range \subseteq sawSet[t]
                                                      ELSE range \cap sawClear[t] # {}
                           [] call[t].kind = "isNone" ->
                                IF call[t].result = 1 THEN range \subseteq sawClear[t]
                                                      ELSE range \cap sawSet[t] # {}
                           [] call[t].kind = "count" ->
                                always <= call[t].result /\ call[t].result <= ever
                           [] OTHER -> TRUE
    BY DEF AnswersAreHonest
  <2>1. HonestCall(call[t], sawSet[t], sawClear[t])
    BY DEF HonestInv
  <2>2. Asked(t) = RangeOf(call[t]) /\ Seen(call[t]) = RangeOf(call[t])
    BY DEF Asked, RangeOf, Seen
  <2> QED
    BY <2>1, <2>2 DEF HonestCall, AllHonest, CountHonest
<1>2. LocalInv => CallsInv
  BY DEF LocalInv
<1> QED
  BY <1>1, <1>2, InitLocal, StepLocal, InitHonest, StepHonest, PTL DEF bitSpec
=============================================================================
