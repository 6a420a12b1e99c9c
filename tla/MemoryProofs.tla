---------------------------- MODULE MemoryProofs ----------------------------
(* Theorems about the three memory resources.                               *)
(*                                                                          *)
(* MonotonicBuffer, for any set of threads, any buffer and any requests:    *)
(* blocks in use never overlap.  A reservation only succeeds if size_ is    *)
(* what its caller has seen, and then all blocks end before it; size_ only  *)
(* goes back when there is no block and nobody else allocates.              *)
(*                                                                          *)
(* AllocFree, for any set of threads and any requests: every block is laid  *)
(* out inside what was taken from the system, and the statistics are what   *)
(* the blocks in use and the calls under way say.                           *)
(*                                                                          *)
(* FixedArrayResource, for any number of threads, any number of storages    *)
(* and any block size.                                                      *)
EXTENDS MonotonicBuffer, AllocFree, FixedArrayResource, FiniteSetTheorems, TLAPS

-----------------------------------------------------------------------------
(* Alignment is a fact about remainders.                                     *)

LEMMA Division ==
  ASSUME NEW a \in Nat \ {0}, NEW x \in Nat
  PROVE  x = a * (x \div a) + (x % a) /\ x % a \in 0..(a - 1) /\ x \div a \in Nat
BY SMTT(20)

LEMMA Multiple ==
  ASSUME NEW a \in Nat \ {0}, NEW k \in Int
  PROVE  (a * k) % a = 0
BY SMTT(20)

LEMMA Remainder ==
  ASSUME NEW a \in Nat \ {0}, NEW r \in 0..(a - 1)
  PROVE  r % a = r
BY SMTT(20)

\* What is added brings the address to the next multiple.
LEMMA NextMultiple ==
  ASSUME NEW a \in Nat \ {0}, NEW x \in Nat
  PROVE  (x + ((a - (x % a)) % a)) % a = 0
<1> DEFINE q == x \div a
           r == x % a
<1>1. x = a * q + r /\ r \in 0..(a - 1) /\ q \in Nat
  BY Division
<1> HIDE DEF q, r
<1>2. CASE r = 0
  <2>1. a - r = a * 1 /\ x + 0 = a * q
    BY <1>1, <1>2
  <2>2. (a - r) % a = 0 /\ (x + 0) % a = 0
    BY <1>1, <2>1, Multiple
  <2> QED
    BY <2>2 DEF r
<1>3. CASE r # 0
  <2>1. (a - r) % a = a - r
    BY <1>1, <1>3, Remainder
  <2>2. x + (a - r) = a * (q + 1)
    BY <1>1
  <2>3. (a * (q + 1)) % a = 0
    BY <1>1, Multiple
  <2>4. (x + (a - r)) % a = 0
    BY <2>2, <2>3
  <2> QED
    BY <2>1, <2>4 DEF r
<1> QED
  BY <1>2, <1>3

\* Adjustment of a buffer at a given address.
AdjustmentAt(address, usage, alignment) ==
  (alignment - ((address + usage) % alignment)) % alignment

LEMMA AdjustmentAligns ==
  ASSUME NEW k \in Nat, NEW usage \in Nat, NEW a \in Nat \ {0}
  PROVE  /\ AdjustmentAt(k, usage, a) \in Nat
         /\ (k + (usage + AdjustmentAt(k, usage, a))) % a = 0
<1> DEFINE x == k + usage
           y == (a - (x % a)) % a
<1>1. x \in Nat /\ AdjustmentAt(k, usage, a) = y
  BY DEF AdjustmentAt
<1>2. y \in Nat
  <2>1. x % a \in 0..(a - 1)
    BY <1>1, Division
  <2>2. a - (x % a) \in Nat
    BY <2>1
  <2> HIDE DEF x
  <2> QED
    BY <2>2, Division
<1>3. (x + y) % a = 0
  BY <1>1, NextMultiple
<1> HIDE DEF y
<1>4. k + (usage + y) = x + y
  BY <1>2
<1> QED
  BY <1>1, <1>2, <1>3, <1>4

-----------------------------------------------------------------------------
(* The inductive invariant                                                   *)

Block == [first : Nat, end : Nat, alignment : Nat \ {0}]
Releasing == {"uncount", "unsize", "released"}
StepType == [pc : {"rest", "reserve", "count"} \cup Releasing, usage : Nat,
             request : (Nat \ {0}) \X (Nat \ {0})]

\* The block a reservation stands for, in a buffer at address k.
Data(k, s) == s.usage + AdjustmentAt(k, s.usage, s.request[2])
Promise(k, s) ==
  [first |-> Data(k, s), end |-> Data(k, s) + s.request[1], alignment |-> s.request[2]]
Counting == {t \in Tenants : step[t].pc = "count"}

Fits(k, room, b) ==
  b.first < b.end /\ b.end <= room /\ (k + b.first) % b.alignment = 0
Apart(b, c) == b.end <= c.first \/ c.end <= b.first

Typed ==
  /\ storage \in Nat /\ size \in 0..BufferSize
  /\ releaser \in Tenants \cup {NoThread}
  /\ step \in [Tenants -> StepType]
BlocksCounted == blocks \subseteq Block /\ IsFiniteSet(blocks) /\ useCount = Cardinality(blocks)
Placed ==
  /\ \A b \in blocks : Fits(storage, size, b)
  /\ \A b, c \in blocks : b # c => Apart(b, c)
Promised == \A t \in Counting :
  /\ Fits(storage, size, Promise(storage, step[t]))
  /\ \A b \in blocks : Apart(Promise(storage, step[t]), b)
  /\ \A u \in Counting \ {t} : Apart(Promise(storage, step[t]), Promise(storage, step[u]))
\* A releasing thread has the buffer for itself.
Alone ==
  /\ \A t \in Tenants : step[t].pc \in Releasing => releaser = t /\ blocks = {}
  /\ releaser # NoThread => \A t \in Tenants \ {releaser} : step[t].pc = "rest"

BufferInv == Typed /\ BlocksCounted /\ Placed /\ Promised /\ Alone

LEMMA PromiseType ==
  ASSUME NEW k \in Nat, NEW s \in StepType
  PROVE  /\ Data(k, s) \in Nat /\ s.usage <= Data(k, s) /\ Promise(k, s) \in Block
         /\ Promise(k, s).first = Data(k, s)
         /\ Promise(k, s).end = Data(k, s) + s.request[1]
         /\ Promise(k, s).first < Promise(k, s).end
         /\ (k + Promise(k, s).first) % Promise(k, s).alignment = 0
<1>1. s.usage \in Nat /\ s.request[1] \in Nat \ {0} /\ s.request[2] \in Nat \ {0}
  BY DEF StepType
<1>2. /\ AdjustmentAt(k, s.usage, s.request[2]) \in Nat
      /\ (k + (s.usage + AdjustmentAt(k, s.usage, s.request[2]))) % s.request[2] = 0
  BY <1>1, AdjustmentAligns
<1>3. Data(k, s) \in Nat /\ s.usage <= Data(k, s) /\ (k + Data(k, s)) % s.request[2] = 0
  BY <1>1, <1>2 DEF Data
<1> DEFINE d == Data(k, s)
<1>4. d \in Nat
  BY <1>3
<1>5. Promise(k, s) = [first |-> d, end |-> d + s.request[1], alignment |-> s.request[2]]
  BY DEF Promise
<1> HIDE DEF d
<1>6. /\ Promise(k, s) \in Block /\ Promise(k, s).first = d
      /\ Promise(k, s).end = d + s.request[1]
      /\ Promise(k, s).first < Promise(k, s).end /\ Promise(k, s).alignment = s.request[2]
  BY <1>1, <1>4, <1>5 DEF Block
<1> QED
  BY <1>3, <1>6 DEF d

LEMMA Moved ==
  ASSUME Typed, NEW t \in Tenants, NEW s \in StepType, Proceed(t, s)
  PROVE  /\ step' \in [Tenants -> StepType] /\ step'[t] = s
         /\ \A u \in Tenants \ {t} : step'[u] = step[u]
         /\ s.pc = "count" => Counting' = Counting \cup {t}
         /\ s.pc # "count" => Counting' = Counting \ {t}
<1>1. /\ step' \in [Tenants -> StepType] /\ step'[t] = s
      /\ \A u \in Tenants \ {t} : step'[u] = step[u]
  BY DEF Typed, Proceed
<1> QED
  BY <1>1 DEF Counting

LEMMA Rests == Rest \in StepType /\ Rest.pc = "rest"
BY DEF Rest, StepType

LEMMA BufferInvInit == bufferInit => BufferInv
<1> SUFFICES ASSUME bufferInit PROVE BufferInv
  OBVIOUS
<1>1. /\ storage \in Nat /\ size = 0 /\ BufferSize \in Nat /\ useCount = 0 /\ blocks = {}
      /\ releaser \in Tenants \cup {NoThread} /\ step = [t \in Tenants |-> Rest]
  BY BufferAssumption DEF bufferInit
<1>2. \A t \in Tenants : step[t].pc = "rest"
  BY <1>1, Rests
<1>3. Typed
  BY <1>1, Rests DEF Typed
<1>4. BlocksCounted
  BY <1>1, FS_EmptySet DEF BlocksCounted
<1>5. Placed /\ Promised /\ Alone
  BY <1>1, <1>2 DEF Placed, Promised, Counting, Alone, Releasing
<1> QED
  BY <1>3, <1>4, <1>5 DEF BufferInv

\* A thread that goes on without a reservation, from or to a point where it
\* does not release, disturbs nothing.
LEMMA MovesOn ==
  ASSUME BufferInv, NEW t \in Tenants, NEW s \in StepType, Proceed(t, s),
         s.pc # "count", s.pc \in Releasing => releaser = t /\ blocks = {},
         s.pc = "rest" \/ releaser \in {t, NoThread},
         UNCHANGED <<storage, releaser, size, blocks, useCount>>
  PROVE  BufferInv'
<1>1. /\ step' \in [Tenants -> StepType] /\ step'[t] = s
      /\ \A u \in Tenants \ {t} : step'[u] = step[u]
      /\ Counting' = Counting \ {t} /\ Counting \subseteq Tenants
  BY Moved DEF BufferInv, Counting
<1>2. Typed' /\ BlocksCounted'
  BY <1>1 DEF BufferInv, Typed, BlocksCounted
<1>3. Placed'
  BY DEF BufferInv, Placed
<1>5. Promised'
  BY <1>1 DEF BufferInv, Promised
<1>6. Alone'
  BY <1>1 DEF BufferInv, Alone, Releasing
<1> QED
  BY <1>2, <1>3, <1>5, <1>6 DEF BufferInv

LEMMA BufferInvNext == BufferInv /\ [bufferNext]_bufferVars => BufferInv'
<1> SUFFICES ASSUME BufferInv, [bufferNext]_bufferVars PROVE BufferInv'
  OBVIOUS
<1>1. CASE UNCHANGED bufferVars
  BY <1>1 DEF BufferInv, bufferVars, Typed, BlocksCounted, Placed, Promised, Counting, Alone
<1> SUFFICES ASSUME NEW t \in Tenants,
                    \/ AllocLoad(t) \/ Reserve(t) \/ CountUse(t) \/ Deallocate(t)
                    \/ IfNotOccupied(t) \/ ReleaseCount(t) \/ ReleaseSize(t)
             PROVE  BufferInv'
  BY <1>1 DEF bufferNext
<1> DEFINE s == step[t]
<1>2. /\ s \in StepType /\ BufferSize \in Nat
      /\ storage \in Nat /\ size \in Nat /\ size <= BufferSize
  BY BufferAssumption DEF BufferInv, Typed
<1>3. s.pc # "rest" => releaser \in {t, NoThread}
  BY DEF BufferInv, Alone, Typed
<1>4. CASE AllocLoad(t)
  <2>1. PICK r \in BufferRequests :
          Proceed(t, [pc |-> "reserve", usage |-> size, request |-> r])
    BY <1>4 DEF AllocLoad
  <2> DEFINE q == [pc |-> "reserve", usage |-> size, request |-> r]
  <2>2. q \in StepType /\ q.pc = "reserve"
    BY <1>2, BufferAssumption DEF StepType
  <2>3. Proceed(t, q)
    BY <2>1
  <2>4. releaser \in {t, NoThread} /\ UNCHANGED <<storage, releaser, size, blocks, useCount>>
    BY <1>4 DEF AllocLoad, mayAllocate
  <2> HIDE DEF q
  <2> QED
    BY <2>2, <2>3, <2>4, MovesOn DEF Releasing
<1>5. CASE Reserve(t)
  <2> DEFINE next == Data(storage, s) + s.request[1]
             q == [s EXCEPT !.pc = "count"]
             again == [s EXCEPT !.usage = size]
  <2>0. /\ s.pc = "reserve" /\ UNCHANGED <<storage, releaser, useCount, blocks>>
        /\ \/ Proceed(t, Rest) /\ UNCHANGED size
           \/ Proceed(t, again) /\ UNCHANGED size
           \/ BufferSize >= next /\ size = s.usage /\ size' = next /\ Proceed(t, q)
    BY <1>5 DEF Reserve, Data, Adjustment, AdjustmentAt
  <2>1. CASE Proceed(t, Rest) /\ UNCHANGED size
    BY <2>0, <2>1, Rests, MovesOn DEF Releasing
  <2>2. CASE Proceed(t, again) /\ UNCHANGED size
    <3>1. again \in StepType /\ again.pc = "reserve"
      BY <1>2, <2>0 DEF StepType
    <3> QED
      BY <1>3, <2>0, <2>2, <3>1, MovesOn DEF Releasing
  <2>3. CASE BufferSize >= next /\ size = s.usage /\ size' = next /\ Proceed(t, q)
    <3>1. q \in StepType /\ q.pc = "count" /\ q.usage = s.usage /\ q.request = s.request
      BY <1>2 DEF StepType
    <3> DEFINE p == Promise(storage, q)
    <3>2. Data(storage, q) = Data(storage, s) /\ p = Promise(storage, s)
      BY <3>1 DEF Data, Promise
    <3>3. /\ p \in Block /\ p.end = next /\ p.first < p.end /\ size <= p.first
          /\ (storage + p.first) % p.alignment = 0
          /\ next \in Nat /\ size <= next
      <4> DEFINE d == Data(storage, s)
      <4>1. /\ p \in Block /\ p.first = d /\ p.end = d + s.request[1] /\ p.first < p.end
            /\ (storage + p.first) % p.alignment = 0 /\ d \in Nat /\ s.usage <= d
        BY <1>2, <3>2, PromiseType
      <4>2. s.request[1] \in Nat /\ s.usage = size /\ next = d + s.request[1]
        BY <1>2, <2>3 DEF StepType
      <4> HIDE DEF d, p, next
      <4> QED
        BY <1>2, <4>1, <4>2
    <3>4. /\ step' \in [Tenants -> StepType] /\ step'[t] = q
          /\ \A u \in Tenants \ {t} : step'[u] = step[u]
          /\ Counting' = Counting \cup {t}
      BY <2>3, <3>1, Moved DEF BufferInv
    <3>5. \A b \in Block : Fits(storage, size, b) => Fits(storage, next, b) /\ Apart(p, b)
      BY <1>2, <3>3 DEF Fits, Apart, Block
    <3>6. Fits(storage, next, p)
      BY <3>3 DEF Fits
    <3>7. \A u \in Counting : Promise(storage, step[u]) \in Block
      BY <1>2, PromiseType DEF BufferInv, Typed, Counting
    <3> HIDE DEF next, p
    <3>8. Typed' /\ BlocksCounted' /\ Placed'
      BY <1>2, <2>0, <2>3, <3>3, <3>4, <3>5 DEF BufferInv, Typed, BlocksCounted, Placed
    <3>9. Promised'
      <4> SUFFICES ASSUME NEW u \in Counting \cup {t}
                   PROVE  /\ Fits(storage, next, Promise(storage, step'[u]))
                          /\ \A b \in blocks : Apart(Promise(storage, step'[u]), b)
                          /\ \A w \in (Counting \cup {t}) \ {u} :
                               Apart(Promise(storage, step'[u]), Promise(storage, step'[w]))
        BY <2>0, <2>3, <3>4 DEF Promised
      <4>1. t \notin Counting /\ Counting \subseteq Tenants /\ \A v \in Counting : step'[v] = step[v]
        BY <2>0, <3>4 DEF Counting
      <4>2. Promise(storage, step'[t]) = p
        BY <3>4 DEF p
      <4>3. \A b \in blocks : b \in Block /\ Fits(storage, size, b)
        BY DEF BufferInv, BlocksCounted, Placed
      <4>4. \A b, c : Apart(b, c) => Apart(c, b)
        BY DEF Apart
      <4>5. CASE u = t
        BY <3>5, <3>6, <3>7, <4>1, <4>2, <4>3, <4>5 DEF BufferInv, Promised
      <4>6. CASE u # t
        BY <3>5, <3>6, <3>7, <4>1, <4>2, <4>3, <4>4, <4>6 DEF BufferInv, Promised
      <4> QED
        BY <4>5, <4>6
    <3>10. Alone'
      BY <1>3, <2>0, <3>1, <3>4 DEF BufferInv, Alone, Releasing
    <3> QED
      BY <3>8, <3>9, <3>10 DEF BufferInv
  <2> QED
    BY <2>0, <2>1, <2>2, <2>3
<1>6. CASE CountUse(t)
  <2> DEFINE p == Promise(storage, s)
  <2>1. /\ s.pc = "count" /\ useCount' = useCount + 1 /\ blocks' = blocks \cup {p}
        /\ Proceed(t, Rest) /\ UNCHANGED <<storage, releaser, size>>
    BY <1>6 DEF CountUse, Promise, Data, Adjustment, AdjustmentAt
  <2>2. t \in Counting /\ p \in Block /\ p.first < p.end
    BY <1>2, <2>1, PromiseType DEF Counting
  <2>3. /\ Fits(storage, size, p) /\ \A b \in blocks : Apart(p, b)
        /\ \A u \in Counting \ {t} : Apart(p, Promise(storage, step[u]))
    BY <2>2 DEF BufferInv, Promised
  <2>4. p \notin blocks
    <3>1. ~Apart(p, p)
      BY <2>2 DEF Apart, Block
    <3> QED
      BY <2>3, <3>1
  <2>5. /\ step' \in [Tenants -> StepType] /\ step'[t] = Rest
        /\ \A u \in Tenants \ {t} : step'[u] = step[u]
        /\ Counting' = Counting \ {t} /\ Counting \subseteq Tenants
    BY <2>1, Rests, Moved DEF BufferInv, Counting
  <2>6. \A b, c : Apart(b, c) => Apart(c, b)
    BY DEF Apart
  <2> HIDE DEF p
  <2>7. BlocksCounted'
    BY <2>1, <2>2, <2>4, FS_AddElement DEF BufferInv, BlocksCounted
  <2>8. Typed' /\ Placed'
    BY <2>1, <2>3, <2>5, <2>6 DEF BufferInv, Typed, Placed
  <2>9. Promised'
    BY <2>1, <2>3, <2>5, <2>6 DEF BufferInv, Promised
  <2>10. Alone'
    BY <1>3, <2>1, <2>5, Rests, BufferAssumption DEF BufferInv, Alone, Releasing
  <2> QED
    BY <2>7, <2>8, <2>9, <2>10 DEF BufferInv
<1>7. CASE Deallocate(t)
  <2>1. PICK b \in blocks : blocks' = blocks \ {b}
    BY <1>7 DEF Deallocate
  <2>2. useCount' = useCount - 1 /\ UNCHANGED <<storage, releaser, size, step>>
    BY <1>7 DEF Deallocate
  <2>3. BlocksCounted'
    BY <2>1, <2>2, FS_RemoveElement DEF BufferInv, BlocksCounted
  <2>4. Typed' /\ Placed' /\ Promised' /\ Alone'
    BY <2>1, <2>2 DEF BufferInv, Typed, Placed, Promised, Counting, Alone
  <2> QED
    BY <2>3, <2>4 DEF BufferInv
<1>8. CASE IfNotOccupied(t)
  <2> DEFINE q == [Rest EXCEPT !.pc = "uncount"]
  <2>1. q \in StepType /\ q.pc = "uncount"
    BY DEF Rest, StepType, Releasing
  <2>2. /\ releaser = t /\ useCount = 0 /\ Proceed(t, q)
        /\ UNCHANGED <<storage, releaser, size, blocks, useCount>>
    BY <1>8 DEF IfNotOccupied
  <2>3. blocks = {}
    BY <2>2, FS_EmptySet DEF BufferInv, BlocksCounted
  <2> HIDE DEF q
  <2> QED
    BY <2>1, <2>2, <2>3, MovesOn
<1>9. CASE ReleaseCount(t)
  <2> DEFINE q == [Rest EXCEPT !.pc = "unsize"]
  <2>1. q \in StepType /\ q.pc = "unsize"
    BY DEF Rest, StepType, Releasing
  <2>2. /\ s.pc = "uncount" /\ useCount' = 0 /\ Proceed(t, q)
        /\ UNCHANGED <<storage, releaser, size, blocks>>
    BY <1>9 DEF ReleaseCount
  <2>3. releaser = t /\ blocks = {} /\ useCount = 0
    BY <2>2, FS_EmptySet DEF BufferInv, Alone, BlocksCounted, Releasing
  <2> HIDE DEF q
  <2> QED
    BY <2>1, <2>2, <2>3, MovesOn
<1>10. CASE ReleaseSize(t)
  <2> DEFINE q == [Rest EXCEPT !.pc = "released"]
  <2>1. q \in StepType /\ q.pc = "released"
    BY DEF Rest, StepType, Releasing
  <2>2. /\ s.pc = "unsize" /\ size' = 0 /\ Proceed(t, q)
        /\ UNCHANGED <<storage, releaser, useCount, blocks>>
    BY <1>10 DEF ReleaseSize
  <2>3. releaser = t /\ blocks = {}
    BY <2>2 DEF BufferInv, Alone, Releasing
  <2>4. t # NoThread /\ \A u \in Tenants \ {t} : step[u].pc = "rest"
    BY <2>3, BufferAssumption DEF BufferInv, Alone
  <2> HIDE DEF q
  <2>5. /\ step' \in [Tenants -> StepType] /\ step'[t] = q
        /\ \A u \in Tenants \ {t} : step'[u] = step[u]
        /\ Counting' = Counting \ {t}
    BY <2>1, <2>2, Moved DEF BufferInv
  <2>6. Counting' = {}
    BY <2>4, <2>5 DEF Counting
  <2>7. Typed' /\ BlocksCounted' /\ Placed' /\ Promised'
    BY <1>2, <2>2, <2>3, <2>5, <2>6 DEF BufferInv, Typed, BlocksCounted, Placed, Promised
  <2>8. Alone'
    BY <2>1, <2>2, <2>3, <2>4, <2>5 DEF Alone, Releasing
  <2> QED
    BY <2>7, <2>8 DEF BufferInv
<1> QED
  BY <1>4, <1>5, <1>6, <1>7, <1>8, <1>9, <1>10

\* BlocksAreSound: blocks in use never overlap, lie in the buffer, are aligned
\* as asked, and use_count_ is their number, for any threads and any buffer.
THEOREM BlocksNeverOverlap == bufferSpec => []BlocksAreSound
<1>1. BufferInv => BlocksAreSound
  <2> SUFFICES ASSUME BufferInv PROVE BlocksAreSound
    OBVIOUS
  <2>1. \A b \in blocks : b \in Block /\ Fits(storage, size, b)
    BY DEF BufferInv, BlocksCounted, Placed
  <2>2. \A b \in blocks : b.end <= BufferSize /\ (storage + b.first) % b.alignment = 0
    BY <2>1, BufferAssumption DEF BufferInv, Typed, Fits, Block
  <2> QED
    BY <2>2 DEF BufferInv, BlocksCounted, Placed, Apart, BlocksAreSound
<1> QED
  BY BufferInvInit, BufferInvNext, <1>1, PTL DEF bufferSpec

-----------------------------------------------------------------------------
(* AllocFree: the layout of a block.                                        *)

\* The number of blocks of an alignment that hold what is asked for.
LEMMA WholeBlocks ==
  ASSUME NEW a \in Nat \ {0}, NEW x \in Nat
  PROVE  (x + a - 1) \div a \in Nat /\ x <= ((x + a - 1) \div a) * a
<1>1. PICK y \in Nat : y = x + a - 1
  OBVIOUS
<1>2. y = a * (y \div a) + (y % a) /\ y % a \in 0..(a - 1) /\ y \div a \in Nat
  BY Division
<1>3. PICK q \in Nat : q = y \div a
  BY <1>2
<1>4. PICK p \in Nat : p = a * q /\ p = q * a
  BY <1>3, SMTT(20)
<1>5. PICK r \in 0..(a - 1) : r = y % a
  BY <1>2
<1>6. y = p + r
  BY <1>2, <1>3, <1>4, <1>5
<1>7. x <= p
  BY <1>1, <1>5, <1>6
<1> QED
  BY <1>1, <1>3, <1>4, <1>7

\* The alignment of a block is a multiple of what was asked for and of MinAlign.
LEMMA AlignmentFits ==
  ASSUME NEW r \in AllocRequests
  PROVE  LET a == calcAllocAlignment(r[2])
         IN  a \in Nat \ {0} /\ a % r[2] = 0 /\ a % MinAlign = 0
<1>1. PICK m : m = r[2]
  OBVIOUS
<1>2. m \in Nat \ {0} /\ MinAlign \in Nat \ {0} /\ (m % MinAlign = 0 \/ MinAlign % m = 0)
  BY <1>1, AllocFreeAssumption, AlignmentAssumption
<1>3. m % m = 0 /\ MinAlign % MinAlign = 0
  BY <1>2, SMTT(20)
<1>4. CASE m < MinAlign
  <2>1. m \in 0..(MinAlign - 1)
    BY <1>2, <1>4
  <2>2. m % MinAlign = m
    BY <1>2, <2>1, Remainder
  <2> QED
    BY <1>1, <1>2, <1>3, <1>4, <2>2 DEF calcAllocAlignment, Larger
<1>5. CASE ~(m < MinAlign)
  <2>1. m % MinAlign = 0
    <3>1. CASE m = MinAlign
      BY <1>3, <3>1
    <3>2. CASE MinAlign < m
      <4>1. MinAlign \in 0..(m - 1)
        BY <1>2, <3>2
      <4>2. MinAlign % m = MinAlign
        BY <1>2, <4>1, Remainder
      <4> QED
        BY <1>2, <4>2
    <3> QED
      BY <1>2, <1>5, <3>1, <3>2
  <2> QED
    BY <1>1, <1>2, <1>3, <1>5, <2>1 DEF calcAllocAlignment, Larger
<1> QED
  BY <1>4, <1>5

Laid(b) ==
  /\ 0 <= b.header /\ b.header + HeaderSize <= b.data /\ b.data + b.asked <= b.size
  /\ b.data % b.alignment = 0 /\ b.header % MinAlign = 0

\* Multiples of multiples.
LEMMA Multiples ==
  ASSUME NEW m \in Nat \ {0}, NEW a \in Nat \ {0}, a % m = 0, NEW k \in Nat
  PROVE  (k * a) % m = 0
<1>1. a = m * (a \div m) + (a % m) /\ a \div m \in Nat
  BY Division
<1>2. PICK q \in Nat : q = a \div m
  BY <1>1
<1>3. a = m * q
  BY <1>1, <1>2
<1>4. k * a = m * (k * q)
  BY <1>3, SMTT(20)
<1>5. k * q \in Int
  BY <1>2
<1>6. (m * (k * q)) % m = 0
  BY <1>5, Multiple
<1> QED
  BY <1>4, <1>6

LEMMA MultiplesApart ==
  ASSUME NEW m \in Nat \ {0}, NEW x \in Nat, NEW y \in Nat, x % m = 0, y % m = 0
  PROVE  (x - y) % m = 0
<1>1. PICK j \in Nat, k \in Nat : j = x \div m /\ k = y \div m
  BY Division
<1>2. x = m * j /\ y = m * k
  BY <1>1, Division
<1>3. x - y = m * (j - k) /\ j - k \in Int
  BY <1>2, SMTT(20)
<1>4. (m * (j - k)) % m = 0
  BY <1>3, Multiple
<1> QED
  BY <1>3, <1>4

\* What aligned_alloc is asked for is laid out so.
LEMMA SizesFit ==
  ASSUME NEW r \in AllocRequests
  PROVE  LET a == calcAllocAlignment(r[2])
             sizes == calcAllocSize(r[1], a)
         IN  /\ sizes[1] \in Nat /\ sizes[2] \in Nat
             /\ HeaderSize <= sizes[2] /\ sizes[2] + r[1] <= sizes[1]
             /\ sizes[2] % r[2] = 0 /\ (sizes[2] - HeaderSize) % MinAlign = 0
<1>1. PICK a : a = calcAllocAlignment(r[2])
  OBVIOUS
<1>2. /\ a \in Nat \ {0} /\ a % r[2] = 0 /\ a % MinAlign = 0
      /\ r[1] \in Nat /\ r[2] \in Nat \ {0} /\ HeaderSize \in Nat /\ MinAlign \in Nat \ {0}
      /\ HeaderSize % MinAlign = 0
  BY <1>1, AlignmentFits, AllocFreeAssumption, AlignmentAssumption
<1>3. PICK d, h : d = (r[1] + a - 1) \div a /\ h = (HeaderSize + a - 1) \div a
  OBVIOUS
<1>4. d \in Nat /\ r[1] <= d * a /\ h \in Nat /\ HeaderSize <= h * a
  BY <1>2, <1>3, WholeBlocks
<1>5. (h + d) * a = h * a + d * a /\ h * a \in Nat /\ d * a \in Nat
  BY <1>2, <1>4, SMTT(20)
<1>6. PICK s : s = calcAllocSize(r[1], a)
  OBVIOUS
<1>7. s[1] = (h + d) * a /\ s[2] = h * a
  BY <1>3, <1>6 DEF calcAllocSize
<1>8. s[2] % r[2] = 0 /\ s[2] % MinAlign = 0
  <2>1. (h * a) % r[2] = 0
    BY <1>2, <1>4, Multiples, Zenon
  <2>2. (h * a) % MinAlign = 0
    BY <1>2, <1>4, Multiples, Zenon
  <2> QED
    BY <1>7, <2>1, <2>2
<1>10. (s[2] - HeaderSize) % MinAlign = 0
  BY <1>2, <1>5, <1>7, <1>8, MultiplesApart
<1>11. /\ s[1] \in Nat /\ s[2] \in Nat
       /\ HeaderSize <= s[2] /\ s[2] + r[1] <= s[1]
  <2>1. PICK p \in Nat, q \in Nat : p = h * a /\ q = d * a
    BY <1>5
  <2>2. s[1] = p + q /\ s[2] = p
    BY <1>5, <1>7, <2>1
  <2> QED
    BY <1>2, <1>4, <2>1, <2>2
<1> QED
  BY <1>1, <1>6, <1>8, <1>10, <1>11

-----------------------------------------------------------------------------
(* The bytes of the blocks and of the calls under way.                      *)

LEMMA BytesCounted ==
  ASSUME NEW x, NEW n \in Nat
  PROVE  IsFiniteSet(Bytes(x, n)) /\ Cardinality(Bytes(x, n)) = n
<1>1. IsFiniteSet({x}) /\ Cardinality({x}) = 1
  BY FS_Singleton
<1>2. IsFiniteSet(1..n) /\ Cardinality(1..n) = n
  BY FS_Interval
<1>3. PICK I, J : I = 1..n /\ J = {x}
  OBVIOUS
<1>4. IsFiniteSet(J \X I) /\ Cardinality(J \X I) = 1 * n
  <2>1. IsFiniteSet(I) /\ IsFiniteSet(J) /\ Cardinality(I) = n /\ Cardinality(J) = 1
    BY <1>1, <1>2, <1>3
  <2>2. IsFiniteSet(J \X I) /\ Cardinality(J \X I) = Cardinality(J) * Cardinality(I)
    BY <2>1, FS_Product
  <2> QED
    BY <2>1, <2>2
<1>5. Bytes(x, n) = J \X I
  BY <1>3 DEF Bytes
<1>6. 1 * n = n
  OBVIOUS
<1> QED
  BY <1>4, <1>5, <1>6

LEMMA BytesAdded ==
  ASSUME NEW S, IsFiniteSet(S), NEW x, NEW n \in Nat, \A p \in S : p[1] # x
  PROVE  /\ IsFiniteSet(S \cup Bytes(x, n))
         /\ Cardinality(S \cup Bytes(x, n)) = Cardinality(S) + n
<1>1. IsFiniteSet(Bytes(x, n)) /\ Cardinality(Bytes(x, n)) = n
  BY BytesCounted
<1>2. S \cap Bytes(x, n) = {}
  BY DEF Bytes
<1>3. IsFiniteSet(S \cup Bytes(x, n)) /\ Cardinality(S \cup Bytes(x, n)) = Cardinality(S) + n - 0
  BY <1>1, <1>2, FS_Union, FS_EmptySet
<1>4. Cardinality(S) \in Nat
  BY FS_CardinalityType
<1> QED
  BY <1>3, <1>4

LEMMA BytesTaken ==
  ASSUME NEW S, IsFiniteSet(S), NEW x, NEW n \in Nat, Bytes(x, n) \subseteq S
  PROVE  /\ IsFiniteSet(S \ Bytes(x, n))
         /\ Cardinality(S \ Bytes(x, n)) = Cardinality(S) - n
<1>1. Cardinality(Bytes(x, n)) = n
  BY BytesCounted
<1>2. S \cap Bytes(x, n) = Bytes(x, n)
  OBVIOUS
<1> QED
  BY <1>1, <1>2, FS_Difference

TaskType == [pc : {"rest", "add", "load", "raise", "release"}, size : Int, value : Int]
BlockType == [id : 1..MaxLive, data : Int, header : Int, size : Nat, asked : Nat,
              alignment : Nat \ {0}, counted : BOOLEAN, by : Callers]

LEMMA Resting == AtRest \in TaskType /\ AtRest.pc = "rest"
BY DEF AtRest, TaskType

LEMMA Departs ==
  ASSUME NEW pc \in {"add", "release"}, NEW n \in Nat
  PROVE  LET g == [AtRest EXCEPT !.pc = pc, !.size = n]
         IN  g \in TaskType /\ g.pc = pc /\ g.size = n
<1>1. PICK g : g = [AtRest EXCEPT !.pc = pc, !.size = n]
  OBVIOUS
<1>2. g = [pc |-> pc, size |-> n, value |-> 0]
  BY <1>1 DEF AtRest
<1>3. g \in TaskType /\ g.pc = pc /\ g.size = n
  BY <1>2 DEF TaskType
<1> QED
  BY <1>1, <1>3

\* A call that comes to a point, leaves it, or is elsewhere before and after.
LEMMA UnderwayChanges ==
  ASSUME task \in [Callers -> TaskType], NEW t \in Callers, NEW f \in TaskType, Advance(t, f),
         NEW q, IsFiniteSet(Underway(q)), task[t].size \in Nat \/ task[t].pc # q
  PROVE  /\ f.pc # q /\ task[t].pc # q => Underway(q)' = Underway(q)
         /\ f.pc = q /\ task[t].pc # q /\ f.size \in Nat =>
              /\ IsFiniteSet(Underway(q)')
              /\ Cardinality(Underway(q)') = Cardinality(Underway(q)) + f.size
         /\ f.pc # q /\ task[t].pc = q =>
              /\ IsFiniteSet(Underway(q)')
              /\ Cardinality(Underway(q)') = Cardinality(Underway(q)) - task[t].size
<1>0. task'[t] = f /\ \A u \in Callers \ {t} : task'[u] = task[u]
  BY DEF Advance
<1>1. PICK S, T : S = Underway(q) /\ T = Underway(q)'
  OBVIOUS
<1>2. \A p : p \in S <=> \E u \in Callers : task[u].pc = q /\ p \in Bytes(u, task[u].size)
  BY <1>1 DEF Underway
<1>3. \A p : p \in T <=> \E u \in Callers : task'[u].pc = q /\ p \in Bytes(u, task'[u].size)
  BY <1>1 DEF Underway
<1>4. \A u, n : \A p \in Bytes(u, n) : p[1] = u
  BY DEF Bytes
<1>5. CASE f.pc # q /\ task[t].pc # q
  <2>1. \A p : p \in T <=> p \in S
    BY <1>0, <1>2, <1>3, <1>5
  <2> QED
    BY <1>1, <1>5, <2>1
<1>6. CASE f.pc = q /\ task[t].pc # q /\ f.size \in Nat
  <2>1. T = S \cup Bytes(t, f.size)
    <3>1. \A p : p \in T <=> p \in S \/ p \in Bytes(t, f.size)
      BY <1>0, <1>2, <1>3, <1>6
    <3> QED
      BY <3>1
  <2>2. \A p \in S : p[1] # t
    BY <1>2, <1>4, <1>6
  <2> QED
    BY <1>1, <1>6, <2>1, <2>2, BytesAdded
<1>7. CASE f.pc # q /\ task[t].pc = q
  <2>1. T = S \ Bytes(t, task[t].size) /\ Bytes(t, task[t].size) \subseteq S
    <3>1. \A p : p \in T <=> p \in S /\ p \notin Bytes(t, task[t].size)
      BY <1>0, <1>2, <1>3, <1>4, <1>7
    <3>2. \A p \in Bytes(t, task[t].size) : p \in S
      BY <1>2, <1>7
    <3> QED
      BY <3>1, <3>2
  <2> QED
    BY <1>1, <1>7, <2>1, BytesTaken
<1> QED
  BY <1>5, <1>6, <1>7

-----------------------------------------------------------------------------
(* The inductive invariant.                                                 *)
CountsUsage ==
  /\ IsFiniteSet(Allocated) /\ IsFiniteSet(Underway("add")) /\ IsFiniteSet(Underway("release"))
  /\ total + Cardinality(Underway("add"))
       = Cardinality(Allocated) + Cardinality(Underway("release"))
\* Who carries the largest total there was, unless the peak has it.
CarriesPeak ==
  /\ peak <= highest
  /\ \A t \in Callers : /\ task[t].pc \in {"load", "raise"} => task[t].size <= highest
                        /\ task[t].pc = "raise" => task[t].value <= highest
  /\ peak = highest \/ \E t \in Callers : task[t].pc \in {"load", "raise"}
                                            /\ task[t].size = highest
BlocksNamed ==
  /\ IsFiniteSet(memory) /\ memory \subseteq BlockType
  /\ \A b, c \in memory : b.id = c.id => b = c
AllocInv ==
  /\ total \in Int /\ peak \in Int /\ highest \in Int
  /\ task \in [Callers -> TaskType]
  /\ \A t \in Callers : task[t].pc \in {"add", "release"} => task[t].size \in Nat
  /\ BlocksNamed /\ (\A b \in memory : Laid(b)) /\ CountsUsage /\ CarriesPeak

LEMMA AllocInit == allocInit => AllocInv
<1> SUFFICES ASSUME allocInit PROVE AllocInv
  OBVIOUS
<1>1. /\ total = 0 /\ peak = 0 /\ memory = {} /\ highest = 0
      /\ \A t \in Callers : task[t] = AtRest
      /\ AtRest \in TaskType /\ AtRest.pc = "rest"
  BY DEF allocInit, AtRest, TaskType
<1>2. task \in [Callers -> TaskType]
  BY <1>1 DEF allocInit
<1>3. Allocated = {} /\ Underway("add") = {} /\ Underway("release") = {}
  BY <1>1 DEF Allocated, Underway
<1>4. CountsUsage /\ BlocksNamed
  BY <1>1, <1>3, FS_EmptySet DEF CountsUsage, BlocksNamed
<1>5. CarriesPeak
  BY <1>1 DEF CarriesPeak
<1> QED
  BY <1>1, <1>2, <1>4, <1>5 DEF AllocInv

\* There is a name left for another block.
LEMMA NameLeft ==
  ASSUME BlocksNamed, Cardinality(memory) < MaxLive
  PROVE  \E i \in 1..MaxLive : \A b \in memory : b.id # i
<1> SUFFICES ASSUME \A i \in 1..MaxLive : \E b \in memory : b.id = i PROVE FALSE
  OBVIOUS
<1> DEFINE g == [i \in 1..MaxLive |-> CHOOSE b \in memory : b.id = i]
<1>1. \A i \in 1..MaxLive : g[i] \in memory /\ g[i].id = i
  OBVIOUS
<1>2. g \in [1..MaxLive -> memory]
  BY <1>1
<1> HIDE DEF g
<1>3. g \in Injection(1..MaxLive, memory)
  BY <1>1, <1>2 DEF Injection, IsInjective
<1>4. Cardinality(1..MaxLive) <= Cardinality(memory)
  BY <1>3, FS_Injection DEF BlocksNamed
<1>5. Cardinality(1..MaxLive) = MaxLive /\ MaxLive \in Nat
  BY AllocFreeAssumption, FS_Interval
<1>6. Cardinality(memory) \in Nat
  BY FS_CardinalityType DEF BlocksNamed
<1> QED
  BY <1>4, <1>5, <1>6

\* A step of a call: its own task changes.
LEMMA TaskChanges ==
  ASSUME AllocInv, NEW t \in Callers, NEW f \in TaskType, Advance(t, f)
  PROVE  /\ task' \in [Callers -> TaskType]
         /\ task'[t] = f /\ \A u \in Callers \ {t} : task'[u] = task[u]
BY DEF AllocInv, Advance


\* Nothing is counted where a call is neither to add nor to release.
LEMMA NothingCounted ==
  ASSUME AllocInv, NEW t \in Callers, NEW f \in TaskType, Advance(t, f),
         task[t].pc \in {"load", "raise"}, f.pc \in {"raise", "rest"}, UNCHANGED total,
         Allocated' = Allocated
  PROVE  CountsUsage'
<1>1. ASSUME NEW q \in {"add", "release"} PROVE Underway(q)' = Underway(q)
  BY <1>1, UnderwayChanges DEF AllocInv, CountsUsage
<1> QED
  BY <1>1 DEF AllocInv, CountsUsage

LEMMA AllocatedKept ==
  ASSUME UNCHANGED memory
  PROVE  Allocated' = Allocated
BY DEF Allocated

LEMMA AlignedAllocKept ==
  ASSUME AllocInv, NEW t \in Callers, AlignedAlloc(t)
  PROVE  AllocInv'
<1>1. PICK r \in AllocRequests :
        LET alignment == calcAllocAlignment(r[2])
            sizes == calcAllocSize(r[1], alignment)
            id == CHOOSE i \in 1..MaxLive : \A b \in memory : b.id # i
        IN  /\ memory' = memory \cup
                 {[id |-> id, data |-> sizes[2], header |-> sizes[2] - HeaderSize, size |-> sizes[1],
                   asked |-> r[1], alignment |-> r[2], counted |-> FALSE, by |-> t]}
            /\ Advance(t, [AtRest EXCEPT !.pc = "add", !.size = sizes[1]])
  BY DEF AlignedAlloc
<1>2. PICK sizes : sizes = calcAllocSize(r[1], calcAllocAlignment(r[2]))
  OBVIOUS
<1>3. PICK id : id = CHOOSE i \in 1..MaxLive : \A b \in memory : b.id # i
  OBVIOUS
<1>4. PICK f : f = [AtRest EXCEPT !.pc = "add", !.size = sizes[1]]
  OBVIOUS
<1>5. PICK new : new = [id |-> id, data |-> sizes[2], header |-> sizes[2] - HeaderSize,
                        size |-> sizes[1], asked |-> r[1], alignment |-> r[2],
                        counted |-> FALSE, by |-> t]
  OBVIOUS
<1>6. memory' = memory \cup {new} /\ Advance(t, f)
  BY <1>1, <1>2, <1>3, <1>4, <1>5
<1>7. /\ sizes[1] \in Nat /\ sizes[2] \in Nat
      /\ HeaderSize <= sizes[2] /\ sizes[2] + r[1] <= sizes[1]
      /\ sizes[2] % r[2] = 0 /\ (sizes[2] - HeaderSize) % MinAlign = 0
  BY <1>2, SizesFit
<1>8. id \in 1..MaxLive /\ \A b \in memory : b.id # id
  <2>1. Cardinality(memory) < MaxLive
    BY DEF AlignedAlloc
  <2> QED
    BY <1>3, <2>1, NameLeft DEF AllocInv
<1>9. r[1] \in Nat /\ r[2] \in Nat \ {0} /\ HeaderSize \in Nat
  BY AllocFreeAssumption
<1>10. f \in TaskType /\ f.pc = "add" /\ f.size = sizes[1] /\ task[t].pc = "rest"
  BY <1>4, <1>7, Departs DEF AlignedAlloc
<1>11. new \in BlockType /\ new.id = id /\ new.size = sizes[1] /\ Laid(new)
  BY <1>5, <1>7, <1>8, <1>9 DEF BlockType, Laid
<1>12. BlocksNamed' /\ \A b \in memory' : Laid(b)
  <2>1. IsFiniteSet(memory')
    BY <1>6, FS_AddElement DEF AllocInv, BlocksNamed
  <2> QED
    BY <1>6, <1>8, <1>11, <2>1 DEF AllocInv, BlocksNamed
<1>13. CountsUsage'
  <2>1. Allocated' = Allocated \cup Bytes(id, sizes[1])
    <3>1. Allocated' = Allocated \cup Bytes(new.id, new.size)
      BY <1>6 DEF Allocated
    <3> QED
      BY <1>11, <3>1
  <2>2. \A p \in Allocated : p[1] # id
    BY <1>8 DEF Allocated, Bytes
  <2>3. /\ IsFiniteSet(Allocated')
        /\ Cardinality(Allocated') = Cardinality(Allocated) + sizes[1]
    BY <1>7, <2>1, <2>2, BytesAdded DEF AllocInv, CountsUsage
  <2>4. /\ IsFiniteSet(Underway("add")')
        /\ Cardinality(Underway("add")') = Cardinality(Underway("add")) + sizes[1]
    BY <1>6, <1>7, <1>10, UnderwayChanges DEF AllocInv, CountsUsage
  <2>5. Underway("release")' = Underway("release")
    BY <1>6, <1>10, UnderwayChanges DEF AllocInv, CountsUsage
  <2>6. total' = total
    BY DEF AlignedAlloc
  <2>7. /\ Cardinality(Underway("add")) \in Nat /\ Cardinality(Allocated) \in Nat
        /\ Cardinality(Underway("release")) \in Nat /\ total \in Int
    BY FS_CardinalityType DEF AllocInv, CountsUsage
  <2>8. total + Cardinality(Underway("add")) = Cardinality(Allocated) + Cardinality(Underway("release"))
    BY DEF AllocInv, CountsUsage
  <2>9. total' + Cardinality(Underway("add")') = Cardinality(Allocated') + Cardinality(Underway("release")')
    BY <1>7, <2>3, <2>4, <2>5, <2>6, <2>7, <2>8
  <2> QED
    BY <2>3, <2>4, <2>5, <2>9 DEF AllocInv, CountsUsage
<1>14. task' \in [Callers -> TaskType] /\ task'[t] = f /\ \A u \in Callers \ {t} : task'[u] = task[u]
  BY <1>6, <1>10, TaskChanges
<1>15. CarriesPeak' /\ UNCHANGED <<total, peak, highest>>
  BY <1>10, <1>14 DEF AllocInv, CarriesPeak, AlignedAlloc
<1>16. \A u \in Callers : task'[u].pc \in {"add", "release"} => task'[u].size \in Nat
  BY <1>7, <1>10, <1>14 DEF AllocInv
<1> QED
  BY <1>12, <1>13, <1>14, <1>15, <1>16 DEF AllocInv

LEMMA AddTotalKept ==
  ASSUME AllocInv, NEW t \in Callers, AddTotal(t)
  PROVE  AllocInv'
<1>1. PICK f : f = [task[t] EXCEPT !.pc = "load", !.size = total']
  OBVIOUS
<1>2. PICK n : n = task[t].size
  OBVIOUS
<1>3. /\ task[t].pc = "add" /\ n \in Nat /\ total' = total + n /\ total' \in Int
      /\ highest' = Larger(highest, total') /\ highest \in Int /\ peak \in Int
      /\ Advance(t, f) /\ UNCHANGED <<peak, memory>> /\ task[t] \in TaskType
  BY <1>1, <1>2 DEF AddTotal, AllocInv
<1>4. f \in TaskType /\ f.pc = "load" /\ f.size = total'
  BY <1>1, <1>3 DEF TaskType
<1>5. task' \in [Callers -> TaskType] /\ task'[t] = f /\ \A u \in Callers \ {t} : task'[u] = task[u]
  BY <1>3, <1>4, TaskChanges
<1>6. CountsUsage'
  <2>1. /\ IsFiniteSet(Underway("add")')
        /\ Cardinality(Underway("add")') = Cardinality(Underway("add")) - n
    BY <1>2, <1>3, <1>4, UnderwayChanges DEF AllocInv, CountsUsage
  <2>2. Underway("release")' = Underway("release") /\ Allocated' = Allocated
    BY <1>3, <1>4, UnderwayChanges, AllocatedKept DEF AllocInv, CountsUsage
  <2>3. /\ Cardinality(Underway("add")) \in Nat /\ Cardinality(Allocated) \in Nat
        /\ Cardinality(Underway("release")) \in Nat /\ total \in Int
    BY FS_CardinalityType DEF AllocInv, CountsUsage
  <2>4. total + Cardinality(Underway("add")) = Cardinality(Allocated) + Cardinality(Underway("release"))
    BY DEF AllocInv, CountsUsage
  <2>5. total' + Cardinality(Underway("add")') = Cardinality(Allocated') + Cardinality(Underway("release")')
    BY <1>3, <2>1, <2>2, <2>3, <2>4
  <2> QED
    BY <2>1, <2>2, <2>5 DEF AllocInv, CountsUsage
<1>7. CarriesPeak'
  <2>1. /\ highest <= highest' /\ total' <= highest' /\ highest' \in Int
        /\ highest' = highest \/ highest' = total'
    BY <1>3 DEF Larger
  <2>2. peak' <= highest'
    BY <1>3, <2>1 DEF AllocInv, CarriesPeak
  <2>3. ASSUME NEW u \in Callers
        PROVE  /\ task'[u].pc \in {"load", "raise"} => task'[u].size <= highest'
               /\ task'[u].pc = "raise" => task'[u].value <= highest'
    <3>1. CASE u = t
      BY <1>4, <1>5, <2>1, <3>1
    <3>2. CASE u # t
      <4>1. task'[u] = task[u] /\ task[u].size \in Int /\ task[u].value \in Int
        BY <1>5, <3>2 DEF AllocInv, TaskType
      <4> QED
        BY <1>3, <2>1, <4>1 DEF AllocInv, CarriesPeak
    <3> QED
      BY <3>1, <3>2
  <2>4. CASE highest' = total'
    BY <1>4, <1>5, <2>2, <2>3, <2>4 DEF CarriesPeak
  <2>5. CASE highest' = highest
    BY <1>3, <1>5, <2>2, <2>3, <2>5 DEF AllocInv, CarriesPeak
  <2> QED
    BY <2>1, <2>4, <2>5
<1>8. \A u \in Callers : task'[u].pc \in {"add", "release"} => task'[u].size \in Nat
  BY <1>4, <1>5 DEF AllocInv
<1>9. highest' \in Int
  BY <1>3 DEF Larger
<1> QED
  BY <1>3, <1>5, <1>6, <1>7, <1>8, <1>9 DEF AllocInv, BlocksNamed

LEMMA LoadPeakKept ==
  ASSUME AllocInv, NEW t \in Callers, LoadPeak(t)
  PROVE  AllocInv'
<1>1. PICK f : f = [task[t] EXCEPT !.pc = "raise", !.value = peak]
  OBVIOUS
<1>2. /\ task[t].pc = "load" /\ task[t] \in TaskType /\ peak \in Int /\ Advance(t, f)
      /\ UNCHANGED <<total, peak, memory, highest>>
  BY <1>1 DEF LoadPeak, AllocInv
<1>3. f \in TaskType /\ f.pc = "raise" /\ f.size = task[t].size /\ f.value = peak
  BY <1>1, <1>2 DEF TaskType
<1>4. task' \in [Callers -> TaskType] /\ task'[t] = f /\ \A u \in Callers \ {t} : task'[u] = task[u]
  BY <1>2, <1>3, TaskChanges
<1>5. CountsUsage'
  BY <1>2, <1>3, NothingCounted, AllocatedKept
<1>6. CarriesPeak'
  BY <1>2, <1>3, <1>4 DEF AllocInv, CarriesPeak
<1>7. \A u \in Callers : task'[u].pc \in {"add", "release"} => task'[u].size \in Nat
  BY <1>3, <1>4 DEF AllocInv
<1> QED
  BY <1>2, <1>4, <1>5, <1>6, <1>7 DEF AllocInv, BlocksNamed

\* The end of an allocation: its blocks may be freed from then on.
LEMMA FinishedKept ==
  ASSUME BlocksNamed, \A b \in memory : Laid(b), NEW t, memory' = Finished(t)
  PROVE  BlocksNamed' /\ (\A b \in memory' : Laid(b)) /\ Allocated' = Allocated
<1> DEFINE F(b) == [b EXCEPT !.counted = @ \/ b.by = t]
<1>1. ASSUME NEW b \in memory
      PROVE  /\ F(b) \in BlockType /\ F(b).id = b.id /\ F(b).size = b.size /\ Laid(F(b))
             /\ F(b) \in memory'
  <2>1. b \in BlockType /\ Laid(b) /\ F(b) \in memory'
    BY DEF BlocksNamed, Finished
  <2>2. PICK c : c = F(b)
    OBVIOUS
  <2>3. /\ c \in BlockType /\ c.id = b.id /\ c.size = b.size /\ c.header = b.header
        /\ c.data = b.data /\ c.asked = b.asked /\ c.alignment = b.alignment
    BY <2>1, <2>2 DEF BlockType
  <2> QED
    BY <2>1, <2>2, <2>3 DEF Laid
<1>2. \A c \in memory' : \E b \in memory : c = F(b)
  BY DEF Finished
<1> HIDE DEF F
<1>3. memory' \subseteq BlockType /\ \A b, c \in memory' : b.id = c.id => b = c
  BY <1>1, <1>2 DEF BlocksNamed
<1>4. IsFiniteSet(memory')
  <2> DEFINE g == [c \in memory' |-> CHOOSE b \in memory : c = F(b)]
  <2>1. \A c \in memory' : g[c] \in memory /\ c = F(g[c])
    BY <1>2
  <2>2. g \in [memory' -> memory]
    BY <2>1
  <2> HIDE DEF g
  <2>3. g \in Injection(memory', memory)
    BY <2>1, <2>2 DEF Injection, IsInjective
  <2> QED
    BY <2>3, FS_Injection DEF BlocksNamed
<1>5. \A b \in memory' : Laid(b)
  BY <1>1, <1>2
<1>6. Allocated' = Allocated
  <2>1. \A p : p \in Allocated <=> \E b \in memory : p \in Bytes(b.id, b.size)
    BY DEF Allocated
  <2>2. \A p : p \in Allocated' <=> \E b \in memory' : p \in Bytes(b.id, b.size)
    BY DEF Allocated
  <2>3. \A p : p \in Allocated' <=> p \in Allocated
    BY <1>1, <1>2, <2>1, <2>2
  <2> QED
    BY <2>3
<1> QED
  BY <1>3, <1>4, <1>5, <1>6 DEF BlocksNamed

LEMMA RaisePeakKept ==
  ASSUME AllocInv, NEW t \in Callers, RaisePeak(t)
  PROVE  AllocInv'
<1>1. /\ task[t].pc = "raise" /\ task[t] \in TaskType /\ task[t].size \in Int
      /\ task[t].value \in Int /\ peak \in Int /\ highest \in Int
      /\ task[t].size <= highest /\ task[t].value <= highest
      /\ UNCHANGED <<total, highest>>
  BY DEF RaisePeak, AllocInv, TaskType, CarriesPeak
<1>2. CASE peak = task[t].value
  <2>1. /\ peak' = Larger(task[t].value, task[t].size)
        /\ memory' = Finished(t) /\ Advance(t, AtRest)
    BY <1>2 DEF RaisePeak
  <2>2. AtRest \in TaskType /\ AtRest.pc = "rest"
    BY Resting
  <2>3. /\ task' \in [Callers -> TaskType] /\ task'[t] = AtRest
        /\ \A u \in Callers \ {t} : task'[u] = task[u]
    BY <2>1, <2>2, TaskChanges
  <2>4. BlocksNamed' /\ (\A b \in memory' : Laid(b)) /\ Allocated' = Allocated
    BY <2>1, FinishedKept DEF AllocInv
  <2>5. CountsUsage'
    BY <1>1, <2>1, <2>2, <2>4, NothingCounted
  <2>6. /\ peak' \in Int /\ peak' <= highest /\ peak <= peak' /\ task[t].size <= peak'
    BY <1>1, <1>2, <2>1 DEF Larger
  <2>7. CarriesPeak'
    <3>1. CASE peak = highest
      <4>1. peak' = highest
        BY <1>1, <2>6, <3>1
      <4> QED
        BY <1>1, <2>2, <2>3, <4>1 DEF AllocInv, CarriesPeak
    <3>2. CASE \E u \in Callers : task[u].pc \in {"load", "raise"} /\ task[u].size = highest
      <4>1. PICK u \in Callers : task[u].pc \in {"load", "raise"} /\ task[u].size = highest
        BY <3>2
      <4>2. CASE u = t
        <5>1. peak' = highest
          BY <1>1, <2>6, <4>1, <4>2
        <5> QED
          BY <1>1, <2>2, <2>3, <5>1 DEF AllocInv, CarriesPeak
      <4>3. CASE u # t
        <5>1. task'[u] = task[u]
          BY <2>3, <4>3
        <5> QED
          BY <1>1, <2>2, <2>3, <2>6, <4>1, <5>1 DEF AllocInv, CarriesPeak
      <4> QED
        BY <4>2, <4>3
    <3> QED
      BY <3>1, <3>2 DEF AllocInv, CarriesPeak
  <2>8. \A u \in Callers : task'[u].pc \in {"add", "release"} => task'[u].size \in Nat
    BY <2>2, <2>3 DEF AllocInv
  <2> QED
    BY <1>1, <2>3, <2>4, <2>5, <2>6, <2>7, <2>8 DEF AllocInv
<1>3. CASE peak # task[t].value
  <2>1. PICK f : f = [task[t] EXCEPT !.value = peak]
    OBVIOUS
  <2>2. Advance(t, f) /\ UNCHANGED <<peak, memory>>
    BY <1>3, <2>1 DEF RaisePeak
  <2>3. f \in TaskType /\ f.pc = "raise" /\ f.size = task[t].size /\ f.value = peak
    BY <1>1, <2>1 DEF TaskType
  <2>4. task' \in [Callers -> TaskType] /\ task'[t] = f /\ \A u \in Callers \ {t} : task'[u] = task[u]
    BY <2>2, <2>3, TaskChanges
  <2>5. CountsUsage'
    BY <1>1, <2>2, <2>3, NothingCounted, AllocatedKept
  <2>6. CarriesPeak'
    BY <1>1, <2>2, <2>3, <2>4 DEF AllocInv, CarriesPeak
  <2>7. \A u \in Callers : task'[u].pc \in {"add", "release"} => task'[u].size \in Nat
    BY <2>3, <2>4 DEF AllocInv
  <2> QED
    BY <1>1, <2>2, <2>4, <2>5, <2>6, <2>7 DEF AllocInv, BlocksNamed
<1> QED
  BY <1>2, <1>3

LEMMA FreeKept ==
  ASSUME AllocInv, NEW t \in Callers, Free(t)
  PROVE  AllocInv'
<1>1. PICK b \in memory : /\ memory' = memory \ {b}
                          /\ Advance(t, [AtRest EXCEPT !.pc = "release", !.size = b.size])
  BY DEF Free
<1>2. PICK f : f = [AtRest EXCEPT !.pc = "release", !.size = b.size]
  OBVIOUS
<1>3. b.size \in Nat /\ task[t].pc = "rest" /\ UNCHANGED <<total, peak, highest>>
  BY DEF Free, AllocInv, BlocksNamed, BlockType
<1>4. f \in TaskType /\ f.pc = "release" /\ f.size = b.size /\ Advance(t, f)
  BY <1>1, <1>2, <1>3, Departs
<1>5. task' \in [Callers -> TaskType] /\ task'[t] = f /\ \A u \in Callers \ {t} : task'[u] = task[u]
  BY <1>4, TaskChanges
<1>6. BlocksNamed' /\ \A c \in memory' : Laid(c)
  <2>1. IsFiniteSet(memory')
    BY <1>1, FS_RemoveElement DEF AllocInv, BlocksNamed
  <2> QED
    BY <1>1, <2>1 DEF AllocInv, BlocksNamed
<1>7. CountsUsage'
  <2>1. Allocated' = Allocated \ Bytes(b.id, b.size) /\ Bytes(b.id, b.size) \subseteq Allocated
    <3>1. \A p : p \in Allocated <=> \E c \in memory : p \in Bytes(c.id, c.size)
      BY DEF Allocated
    <3>2. \A p : p \in Allocated' <=> \E c \in memory' : p \in Bytes(c.id, c.size)
      BY DEF Allocated
    <3>3. \A c \in memory : \A p \in Bytes(c.id, c.size) : p[1] = c.id
      BY DEF Bytes
    <3>4. \A c, d \in memory : c.id = d.id => c = d
      BY DEF AllocInv, BlocksNamed
    <3>5. \A p : p \in Allocated' <=> p \in Allocated /\ p \notin Bytes(b.id, b.size)
      BY <1>1, <3>1, <3>2, <3>3, <3>4
    <3>6. \A p \in Bytes(b.id, b.size) : p \in Allocated
      BY <3>1
    <3> QED
      BY <3>5, <3>6
  <2>2. /\ IsFiniteSet(Allocated')
        /\ Cardinality(Allocated') = Cardinality(Allocated) - b.size
    BY <1>3, <2>1, BytesTaken DEF AllocInv, CountsUsage
  <2>3. /\ IsFiniteSet(Underway("release")')
        /\ Cardinality(Underway("release")') = Cardinality(Underway("release")) + b.size
    BY <1>3, <1>4, UnderwayChanges DEF AllocInv, CountsUsage
  <2>4. Underway("add")' = Underway("add")
    BY <1>3, <1>4, UnderwayChanges DEF AllocInv, CountsUsage
  <2>5. /\ Cardinality(Underway("add")) \in Nat /\ Cardinality(Allocated) \in Nat
        /\ Cardinality(Underway("release")) \in Nat /\ total \in Int
    BY FS_CardinalityType DEF AllocInv, CountsUsage
  <2>6. total + Cardinality(Underway("add")) = Cardinality(Allocated) + Cardinality(Underway("release"))
    BY DEF AllocInv, CountsUsage
  <2>7. total' + Cardinality(Underway("add")') = Cardinality(Allocated') + Cardinality(Underway("release")')
    BY <1>3, <2>2, <2>3, <2>4, <2>5, <2>6
  <2> QED
    BY <2>2, <2>3, <2>4, <2>7 DEF AllocInv, CountsUsage
<1>8. CarriesPeak'
  BY <1>3, <1>4, <1>5 DEF AllocInv, CarriesPeak
<1>9. \A u \in Callers : task'[u].pc \in {"add", "release"} => task'[u].size \in Nat
  BY <1>3, <1>4, <1>5 DEF AllocInv
<1> QED
  BY <1>3, <1>5, <1>6, <1>7, <1>8, <1>9 DEF AllocInv

LEMMA ReleaseKept ==
  ASSUME AllocInv, NEW t \in Callers, Release(t)
  PROVE  AllocInv'
<1>1. PICK n : n = task[t].size
  OBVIOUS
<1>2. /\ task[t].pc = "release" /\ n \in Nat /\ total' = total - n /\ total' \in Int
      /\ Advance(t, AtRest) /\ UNCHANGED <<peak, memory, highest>>
  BY <1>1 DEF Release, AllocInv
<1>3. AtRest \in TaskType /\ AtRest.pc = "rest"
  BY Resting
<1>4. /\ task' \in [Callers -> TaskType] /\ task'[t] = AtRest
      /\ \A u \in Callers \ {t} : task'[u] = task[u]
  BY <1>2, <1>3, TaskChanges
<1>5. CountsUsage'
  <2>1. /\ IsFiniteSet(Underway("release")')
        /\ Cardinality(Underway("release")') = Cardinality(Underway("release")) - n
    BY <1>1, <1>2, <1>3, UnderwayChanges DEF AllocInv, CountsUsage
  <2>2. Underway("add")' = Underway("add") /\ Allocated' = Allocated
    BY <1>2, <1>3, UnderwayChanges, AllocatedKept DEF AllocInv, CountsUsage
  <2>3. /\ Cardinality(Underway("add")) \in Nat /\ Cardinality(Allocated) \in Nat
        /\ Cardinality(Underway("release")) \in Nat /\ total \in Int
    BY FS_CardinalityType DEF AllocInv, CountsUsage
  <2>4. total + Cardinality(Underway("add")) = Cardinality(Allocated) + Cardinality(Underway("release"))
    BY DEF AllocInv, CountsUsage
  <2>5. total' + Cardinality(Underway("add")') = Cardinality(Allocated') + Cardinality(Underway("release")')
    BY <1>2, <2>1, <2>2, <2>3, <2>4
  <2> QED
    BY <2>1, <2>2, <2>5 DEF AllocInv, CountsUsage
<1>6. CarriesPeak'
  BY <1>2, <1>3, <1>4 DEF AllocInv, CarriesPeak
<1>7. \A u \in Callers : task'[u].pc \in {"add", "release"} => task'[u].size \in Nat
  BY <1>3, <1>4 DEF AllocInv
<1> QED
  BY <1>2, <1>4, <1>5, <1>6, <1>7 DEF AllocInv, BlocksNamed

LEMMA AllocStutters ==
  ASSUME AllocInv, UNCHANGED allocVars
  PROVE  AllocInv'
<1>1. UNCHANGED <<total, peak, memory, task, highest>>
  BY DEF allocVars
<1>2. CountsUsage' /\ CarriesPeak' /\ BlocksNamed'
  BY <1>1 DEF AllocInv, CountsUsage, CarriesPeak, BlocksNamed, Allocated, Underway
<1> QED
  BY <1>1, <1>2 DEF AllocInv

\* AllocationIsSound: header and data lie in the block and are aligned, whatever
\* size and alignment are asked for; the total is what is in use, and the peak the
\* largest total there was, whatever raises and releases come in between.
THEOREM UsageIsAccounted == allocSpec => []AllocationIsSound
<1>1. AllocInv /\ [allocNext]_allocVars => AllocInv'
  BY AlignedAllocKept, AddTotalKept, LoadPeakKept, RaisePeakKept, FreeKept, ReleaseKept,
     AllocStutters DEF allocNext
<1>2. AllocInv => AllocationIsSound
  <2> SUFFICES ASSUME AllocInv PROVE AllocationIsSound
    OBVIOUS
  <2>1. LayoutIsSound
    BY DEF AllocInv, Laid, LayoutIsSound
  <2>2. UsageIsExact
    BY DEF AllocInv, CountsUsage, CarriesPeak, UsageIsExact
  <2> QED
    BY <2>1, <2>2 DEF AllocationIsSound
<1> QED
  BY <1>1, <1>2, AllocInit, PTL DEF allocSpec

-----------------------------------------------------------------------------
(* FixedArrayResource.                                                      *)

\* The first position of a block is a position.
LEMMA BlockBase ==
  ASSUME NEW a \in Nat
  PROVE  a - (a % UsedBits) \in Nat /\ a % UsedBits \in 0..(UsedBits - 1)
BY SizeAssumption

\* Any mask the first load may use hides positions of one block.
LEMMA MaskType ==
  ASSUME NEW a \in Nat, NEW m \in Masks(a % UsedBits)
  PROVE  m \in SUBSET (0..(UsedBits - 1))
<1>1. a % UsedBits \in 0..(UsedBits - 1)
  BY BlockBase
<1>2. 0..((a % UsedBits) - 1) \subseteq 0..(UsedBits - 1)
  BY <1>1, SizeAssumption
<1> QED
  BY <1>2 DEF Masks

-----------------------------------------------------------------------------
(* Cardinalities: every set of threads is finite, and so is owned.          *)

TypeInv == TypeOK /\ SlotInArray

LEMMA Finite ==
  ASSUME TypeOK
  PROVE  /\ IsFiniteSet(owned) /\ Cardinality(owned) \in Nat
         /\ \A S \in SUBSET Requesters : IsFiniteSet(S) /\ Cardinality(S) \in Nat
<1>1. IsFiniteSet(Slots)
  BY FS_Interval, SizeAssumption DEF Slots
<1>2. IsFiniteSet(owned)
  BY <1>1, FS_Subset DEF TypeOK
<1>3. \A S \in SUBSET Requesters : IsFiniteSet(S)
  BY ThreadAssumption, FS_Subset
<1> QED
  BY <1>2, <1>3, FS_CardinalityType

\* To the last count, those that fatal errors have left behind included.
CountExact ==
  count = Cardinality(owned) + Cardinality(Searching) + Cardinality(Returning)
            + Cardinality(At("undo")) + leaked

\* A thread that has something to take back has been counted.
LEMMA Counted ==
  ASSUME TypeOK, CountExact, NEW t \in At("undo") \cup Returning
  PROVE  count - 1 \in Nat
<1> DEFINE U == At("undo")
           R == Returning
           S == Searching
<1>1. U \in SUBSET Requesters /\ R \in SUBSET Requesters /\ S \in SUBSET Requesters
  BY DEF At, Returning, Searching
<1>2. /\ Cardinality(U) \in Nat /\ Cardinality(R) \in Nat /\ Cardinality(S) \in Nat
      /\ Cardinality(owned) \in Nat
  BY <1>1, Finite
<1>3. Cardinality(U) # 0 \/ Cardinality(R) # 0
  BY <1>1, Finite, FS_EmptySet
<1> HIDE DEF U, R, S
<1>4. count = Cardinality(owned) + Cardinality(S) + Cardinality(R) + Cardinality(U) + leaked
  BY DEF CountExact, U, R, S
<1> QED
  BY <1>2, <1>3, <1>4 DEF TypeOK

-----------------------------------------------------------------------------
(* Types.                                                                   *)

\* Replacing the frame of one thread.
LEMMA Replace ==
  ASSUME TypeOK, NEW t \in Requesters, NEW f, Continue(t, f)
  PROVE  /\ f \in Frames => progress' \in [Requesters -> Frames]
         /\ progress'[t] = f
         /\ \A u \in Requesters \ {t} : progress'[u] = progress[u]
BY DEF TypeOK, Continue

LEMMA FreshFrame ==
  ASSUME NEW pc \in {"idle", "count", "undo", "load", "claim", "unset", "uncount"}
  PROVE  /\ Stage(pc) \in Frames /\ Stage(pc).pc = pc
         /\ \A s \in Nat : LET f == [Stage(pc) EXCEPT !.slot = s]
                           IN f \in Frames /\ f.pc = pc /\ f.slot = s
BY DEF Stage, Frames

\* A step that gives one thread a good frame and keeps the rest typed.
LEMMA TypeKept ==
  ASSUME TypeInv, NEW t \in Requesters, NEW f \in Frames, Continue(t, f),
         f.pc \in {"claim", "unset"} => f.slot \in Slots,
         count' \in Nat, leaked' \in Nat, used' \subseteq Slots, owned' \subseteq Slots
  PROVE  TypeInv'
BY Replace DEF TypeInv, TypeOK, SlotInArray

\* The two steps with a computed frame: what they make of the thread.
LEMMA CountMoves ==
  ASSUME TypeOK, NEW t \in Requesters, Count(t)
  PROVE  \E f \in Frames : /\ Continue(t, f)
                           /\ f.pc = IF count < CountMax THEN "load" ELSE "undo"
<1>0. progress[t] \in Frames /\ count \in Nat
  BY DEF TypeOK
<1>1. CASE count < CountMax
  <2>1. PermuteStart[count] \in Slots /\ PermuteStart[count] \in Nat
    BY <1>0, <1>1, PermuteAssumption, SizeAssumption DEF Slots
  <2>2. PICK mask \in Masks(PermuteStart[count] % UsedBits) :
          Continue(t, SearchFrom(progress[t], PermuteStart[count], mask))
    BY <1>1 DEF Count
  <2>3. /\ PermuteStart[count] - (PermuteStart[count] % UsedBits) \in Nat
        /\ mask \in SUBSET (0..(UsedBits - 1))
    BY <2>1, BlockBase, MaskType
  <2> DEFINE f == SearchFrom(progress[t], PermuteStart[count], mask)
  <2>4. f \in Frames /\ f.pc = "load"
    BY <1>0, <2>3 DEF SearchFrom, Frames
  <2> QED
    BY <1>1, <2>2, <2>4
<1>2. CASE ~(count < CountMax)
  <2> DEFINE f == [progress[t] EXCEPT !.pc = "undo"]
  <2>1. Continue(t, f)
    BY <1>2 DEF Count
  <2>2. f \in Frames /\ f.pc = "undo"
    BY <1>0 DEF Frames
  <2> QED
    BY <1>2, <2>1, <2>2
<1> QED
  BY <1>1, <1>2

LEMMA LoadMoves ==
  ASSUME TypeOK, NEW t \in Requesters, LoadBlock(t)
  PROVE  \E f \in Frames :
           /\ Continue(t, f)
           /\ \/ f.pc = "claim" /\ f.slot \in Slots /\ UNCHANGED leaked
              \/ f.pc = "load" /\ UNCHANGED leaked
              \/ f.pc = "idle" /\ leaked' = leaked + 1
<1>0. progress[t] \in Frames /\ progress[t].pc = "load"
  BY DEF TypeOK, LoadBlock
<1>1. PICK k \in 0..UsedBits :
     \/ /\ progress[t].slot + k < CountMax
        /\ Continue(t, [progress[t] EXCEPT !.pc = "claim", !.slot = @ + k])
        /\ UNCHANGED leaked
     \/ /\ Continue(t, [progress[t] EXCEPT !.slot = NextBlock(@, k), !.mask = {},
                                   !.visits = @ + 1])
        /\ UNCHANGED leaked
     \/ Continue(t, Outside) /\ leaked' = leaked + 1
  BY DEF LoadBlock
<1>2. CASE /\ progress[t].slot + k < CountMax
           /\ Continue(t, [progress[t] EXCEPT !.pc = "claim", !.slot = @ + k])
           /\ UNCHANGED leaked
  <2> DEFINE f == [progress[t] EXCEPT !.pc = "claim", !.slot = @ + k]
  <2>1. progress[t].slot + k \in Nat /\ progress[t].slot + k \in Slots
    BY <1>0, <1>2, SizeAssumption DEF Frames, Slots
  <2>2. f \in Frames /\ f.pc = "claim" /\ f.slot \in Slots
    BY <1>0, <2>1 DEF Frames
  <2> QED
    BY <1>2, <2>2
<1>3. CASE /\ Continue(t, [progress[t] EXCEPT !.slot = NextBlock(@, k), !.mask = {},
                                     !.visits = @ + 1])
           /\ UNCHANGED leaked
  <2> DEFINE f == [progress[t] EXCEPT !.slot = NextBlock(@, k), !.mask = {}, !.visits = @ + 1]
  <2>1. NextBlock(progress[t].slot, k) \in Nat /\ progress[t].visits + 1 \in Nat
    BY <1>0, SizeAssumption DEF Frames, NextBlock
  <2>2. f \in Frames /\ f.pc = "load"
    BY <1>0, <2>1 DEF Frames
  <2> QED
    BY <1>3, <2>2
<1>4. CASE Continue(t, Outside) /\ leaked' = leaked + 1
  BY <1>4, FreshFrame DEF Outside
<1> QED
  BY <1>1, <1>2, <1>3, <1>4

LEMMA TypeStep == TypeInv /\ CountExact /\ [fixedNext]_fixedVars => TypeInv'
<1> SUFFICES ASSUME TypeInv, CountExact, [fixedNext]_fixedVars PROVE TypeInv'
  OBVIOUS
<1> USE DEF TypeInv
<1>0. TypeOK /\ SlotInArray /\ Slots \subseteq Nat
  BY DEF Slots
<1>1. CASE ClearAll
  BY <1>0, <1>1 DEF ClearAll, TypeOK, SlotInArray
<1>2. ASSUME NEW t \in Requesters, Allocate(t) PROVE TypeInv'
  <2>1. PICK r \in Requests :
          Continue(t, [Stage("count") EXCEPT !.oversize = r.size \/ r.alignment])
    BY <1>2 DEF Allocate
  <2> DEFINE f == [Stage("count") EXCEPT !.oversize = r.size \/ r.alignment]
  <2>2. f \in Frames /\ f.pc = "count"
    BY RequestAssumption DEF Stage, Frames
  <2> QED
    BY <1>0, <1>2, <2>1, <2>2, TypeKept DEF Allocate, TypeOK
<1>3. ASSUME NEW t \in Requesters, Count(t) PROVE TypeInv'
  <2>1. PICK f \in Frames : Continue(t, f) /\ f.pc \notin {"claim", "unset"}
    BY <1>0, <1>3, CountMoves
  <2> QED
    BY <1>0, <1>3, <2>1, TypeKept DEF Count, TypeOK
<1>4. ASSUME NEW t \in Requesters, Undo(t) PROVE TypeInv'
  <2>1. count - 1 \in Nat
    BY <1>0, <1>4, Counted DEF Undo, At
  <2> QED
    BY <1>0, <1>4, <2>1, Replace, FreshFrame DEF Undo, Outside, TypeOK, SlotInArray
<1>5. ASSUME NEW t \in Requesters, LoadBlock(t) PROVE TypeInv'
  <2>1. PICK f \in Frames : /\ Continue(t, f) /\ leaked' \in Nat
                            /\ f.pc \in {"claim", "unset"} => f.slot \in Slots
    BY <1>0, <1>5, LoadMoves DEF TypeOK
  <2> QED
    BY <1>0, <1>5, <2>1, TypeKept DEF LoadBlock, TypeOK
<1>6. ASSUME NEW t \in Requesters, Claim(t) PROVE TypeInv'
  <2>0. progress[t] \in Frames /\ progress[t].slot \in Slots
    BY <1>0, <1>6 DEF Claim, TypeOK, SlotInArray
  <2>1. progress[t].slot - (progress[t].slot % UsedBits) \in Nat
    BY <1>0, <2>0, BlockBase
  <2> DEFINE f == [progress[t] EXCEPT !.pc = "load", !.slot = @ - (@ % UsedBits)]
  <2>2. f \in Frames /\ f.pc = "load"
    BY <2>0, <2>1 DEF Frames
  <2>3. CASE progress[t].slot \notin used
    BY <1>0, <1>6, <2>0, <2>3, Replace, FreshFrame DEF Claim, Outside, TypeOK, SlotInArray
  <2>4. CASE progress[t].slot \in used
    BY <1>0, <1>6, <2>0, <2>2, <2>4, Replace DEF Claim, TypeOK, SlotInArray
  <2> QED
    BY <2>3, <2>4
<1>7. ASSUME NEW t \in Requesters, deallocateMemory(t) PROVE TypeInv'
  <2>1. PICK s \in owned : /\ Continue(t, [Stage("unset") EXCEPT !.slot = s])
                           /\ owned' = owned \ {s} /\ UNCHANGED <<count, used, leaked>>
    BY <1>7 DEF deallocateMemory
  <2>2. s \in Slots /\ s \in Nat
    BY <1>0 DEF TypeOK
  <2> DEFINE f == [Stage("unset") EXCEPT !.slot = s]
  <2>3. f \in Frames /\ f.pc = "unset" /\ f.slot = s
    BY <2>2, FreshFrame
  <2> QED
    BY <1>0, <2>1, <2>2, <2>3, Replace DEF TypeOK, SlotInArray
<1>8. ASSUME NEW t \in Requesters, Unset(t) PROVE TypeInv'
  BY <1>0, <1>8, Replace, FreshFrame DEF Unset, TypeOK, SlotInArray
<1>9. ASSUME NEW t \in Requesters, Uncount(t) PROVE TypeInv'
  <2>1. count - 1 \in Nat
    BY <1>0, <1>9, Counted DEF Uncount, Returning, At
  <2> QED
    BY <1>0, <1>9, <2>1, Replace, FreshFrame DEF Uncount, Outside, TypeOK, SlotInArray
<1>10. CASE UNCHANGED fixedVars
  BY <1>10 DEF fixedVars, TypeOK, SlotInArray
<1> QED
  BY <1>1, <1>2, <1>3, <1>4, <1>5, <1>6, <1>7, <1>8, <1>9, <1>10
  DEF fixedNext, fixedStep

-----------------------------------------------------------------------------
(* The ownership bits.                                                      *)

LEMMA ExclusiveStep == TypeInv /\ Exclusive /\ [fixedNext]_fixedVars => Exclusive'
<1> SUFFICES ASSUME TypeInv, Exclusive, [fixedNext]_fixedVars PROVE Exclusive'
  OBVIOUS
<1>0. TypeOK /\ SlotInArray /\ Slots \subseteq Nat
  BY DEF TypeInv, Slots
<1>1. CASE ClearAll
  BY <1>1 DEF ClearAll, Exclusive, At, Outside, Stage
\* A step of a thread that neither is nor gets at "unset".
<1>2. ASSUME NEW t \in Requesters, NEW f, Continue(t, f), f.pc # "unset", progress[t].pc # "unset",
             UNCHANGED <<used, owned>>
      PROVE  Exclusive'
  BY <1>0, <1>2, Replace DEF Exclusive, At
<1>3. ASSUME NEW t \in Requesters, Allocate(t) PROVE Exclusive'
  <2>1. PICK r \in Requests :
          Continue(t, [Stage("count") EXCEPT !.oversize = r.size \/ r.alignment])
    BY <1>3 DEF Allocate
  <2> QED
    BY <1>2, <1>3, <2>1 DEF Allocate, Outside, Stage
<1>4. ASSUME NEW t \in Requesters, Count(t) PROVE Exclusive'
  BY <1>0, <1>2, <1>4, CountMoves DEF Count
<1>5. ASSUME NEW t \in Requesters, Undo(t) PROVE Exclusive'
  BY <1>2, <1>5, FreshFrame DEF Undo, Outside
<1>6. ASSUME NEW t \in Requesters, LoadBlock(t) PROVE Exclusive'
  BY <1>0, <1>2, <1>6, LoadMoves DEF LoadBlock
<1>7. ASSUME NEW t \in Requesters, Claim(t) PROVE Exclusive'
  <2>1. CASE progress[t].slot \notin used
    <3>1. Continue(t, Outside) /\ Outside.pc = "idle" /\ progress[t].pc = "claim"
      BY <1>7, <2>1, FreshFrame DEF Claim, Outside
    <3>2. used' = used \cup {progress[t].slot} /\ owned' = owned \cup {progress[t].slot}
      BY <1>7, <2>1 DEF Claim
    <3>3. At("unset")' = At("unset") /\ \A u \in At("unset") : progress'[u] = progress[u]
      BY <1>0, <3>1, Replace DEF At
    <3> QED
      BY <2>1, <3>2, <3>3 DEF Exclusive
  <2>2. CASE progress[t].slot \in used
    <3> DEFINE f == [progress[t] EXCEPT !.pc = "load", !.slot = @ - (@ % UsedBits)]
    <3>1. progress[t] \in Frames
      BY <1>0 DEF TypeOK
    <3>2. f.pc = "load" /\ Continue(t, f)
      BY <1>7, <2>2, <3>1 DEF Claim, Frames
    <3>3. UNCHANGED <<used, owned>> /\ progress[t].pc = "claim"
      BY <1>7, <2>2 DEF Claim
    <3> HIDE DEF f
    <3> QED
      BY <1>2, <3>2, <3>3
  <2> QED
    BY <2>1, <2>2
<1>8. ASSUME NEW t \in Requesters, deallocateMemory(t) PROVE Exclusive'
  <2>1. PICK s \in owned : /\ Continue(t, [Stage("unset") EXCEPT !.slot = s])
                           /\ owned' = owned \ {s} /\ UNCHANGED used /\ progress[t] = Outside
    BY <1>8 DEF deallocateMemory
  <2> DEFINE f == [Stage("unset") EXCEPT !.slot = s]
  <2>2. f.pc = "unset" /\ f.slot = s /\ progress[t].pc = "idle"
    BY <1>0, <2>1, FreshFrame DEF TypeOK, Outside
  <2> HIDE DEF f
  <2>3. /\ At("unset")' = At("unset") \cup {t} /\ t \notin At("unset")
        /\ \A u \in At("unset") : progress'[u] = progress[u]
        /\ progress'[t].slot = s
    BY <1>0, <2>1, <2>2, Replace DEF At, f
  <2> QED
    BY <2>1, <2>3 DEF Exclusive
<1>9. ASSUME NEW t \in Requesters, Unset(t) PROVE Exclusive'
  <2>1. /\ Continue(t, Stage("uncount")) /\ Stage("uncount").pc = "uncount"
        /\ used' = used \ {progress[t].slot} /\ UNCHANGED owned /\ t \in At("unset")
    BY <1>9, FreshFrame DEF Unset, At
  <2>2. At("unset")' = At("unset") \ {t} /\ \A u \in At("unset") \ {t} : progress'[u] = progress[u]
    BY <1>0, <2>1, Replace DEF At
  <2> QED
    BY <2>1, <2>2 DEF Exclusive
<1>10. ASSUME NEW t \in Requesters, Uncount(t) PROVE Exclusive'
  BY <1>2, <1>10, FreshFrame DEF Uncount, Outside
<1>11. CASE UNCHANGED fixedVars
  BY <1>11 DEF fixedVars, Exclusive, At
<1> QED
  BY <1>1, <1>3, <1>4, <1>5, <1>6, <1>7, <1>8, <1>9, <1>10, <1>11 DEF fixedNext, fixedStep

-----------------------------------------------------------------------------
(* The counter.                                                             *)

\* How the number of threads at the points P changes when t moves on to f.
Delta(t, f, P) == (IF f.pc \in P /\ progress[t].pc \notin P THEN 1 ELSE 0)
                    - (IF progress[t].pc \in P /\ f.pc \notin P THEN 1 ELSE 0)
AtAny(P) == {t \in Requesters : progress[t].pc \in P}

LEMMA AtAnyMoves ==
  ASSUME TypeOK, NEW t \in Requesters, NEW f, Continue(t, f), NEW P
  PROVE  Cardinality(AtAny(P)') = Cardinality(AtAny(P)) + Delta(t, f, P)
<1> DEFINE S == AtAny(P)
<1>1. IsFiniteSet(S) /\ Cardinality(S) \in Nat
  BY Finite DEF AtAny
<1>2. CASE f.pc \in P
  <2>1. AtAny(P)' = S \cup {t}
    BY <1>2, Replace DEF AtAny
  <2>2. t \in S <=> progress[t].pc \in P
    BY DEF AtAny
  <2> HIDE DEF S
  <2>3. Cardinality(S \cup {t}) = IF t \in S THEN Cardinality(S) ELSE Cardinality(S) + 1
    BY <1>1, FS_AddElement
  <2>4. Delta(t, f, P) = IF t \in S THEN 0 ELSE 1
    BY <1>2, <2>2 DEF Delta
  <2> QED
    BY <1>1, <2>1, <2>3, <2>4 DEF S
<1>3. CASE f.pc \notin P
  <2>1. AtAny(P)' = S \ {t}
    BY <1>3, Replace DEF AtAny
  <2>2. t \in S <=> progress[t].pc \in P
    BY DEF AtAny
  <2> HIDE DEF S
  <2>3. Cardinality(S \ {t}) = IF t \in S THEN Cardinality(S) - 1 ELSE Cardinality(S)
    BY <1>1, FS_RemoveElement
  <2>4. Delta(t, f, P) = IF t \in S THEN -1 ELSE 0
    BY <1>3, <2>2 DEF Delta
  <2> QED
    BY <1>1, <2>1, <2>3, <2>4 DEF S
<1> QED
  BY <1>2, <1>3

\* The three groups of threads that CountExact counts.
LEMMA Groups ==
  ASSUME TypeOK, NEW t \in Requesters, NEW f, Continue(t, f)
  PROVE  /\ Cardinality(Searching') = Cardinality(Searching) + Delta(t, f, {"load", "claim"})
         /\ Cardinality(Returning') = Cardinality(Returning) + Delta(t, f, {"unset", "uncount"})
         /\ Cardinality(At("undo")') = Cardinality(At("undo")) + Delta(t, f, {"undo"})
         /\ Cardinality(Searching) \in Nat /\ Cardinality(Returning) \in Nat
         /\ Cardinality(At("undo")) \in Nat /\ Cardinality(owned) \in Nat
<1>1. /\ Searching = AtAny({"load", "claim"}) /\ Searching' = AtAny({"load", "claim"})'
      /\ Returning = AtAny({"unset", "uncount"}) /\ Returning' = AtAny({"unset", "uncount"})'
      /\ At("undo") = AtAny({"undo"}) /\ At("undo")' = AtAny({"undo"})'
  BY DEF Searching, Returning, At, AtAny
<1>2. \A P : AtAny(P) \in SUBSET Requesters
  BY DEF AtAny
<1> QED
  BY <1>1, <1>2, AtAnyMoves, Finite

CountInv == CountExact /\ CapacityRespected

LEMMA CountStep == TypeInv /\ Exclusive /\ CountInv /\ [fixedNext]_fixedVars => CountInv'
<1> SUFFICES ASSUME TypeInv, Exclusive, CountInv, [fixedNext]_fixedVars PROVE CountInv'
  OBVIOUS
<1>0. TypeOK /\ count \in Nat /\ leaked \in Nat /\ CountMax \in Nat /\ IsFiniteSet(owned)
  BY Finite, SizeAssumption DEF TypeInv, TypeOK
<1> USE DEF CountInv, CountExact, CapacityRespected
<1>1. CASE ClearAll
  <2>1. /\ Searching' = {} /\ Returning' = {} /\ At("undo")' = {}
    BY <1>1 DEF ClearAll, Searching, Returning, At, Outside, Stage
  <2> QED
    BY <1>0, <1>1, <2>1, FS_EmptySet DEF ClearAll
<1>2. ASSUME NEW t \in Requesters, Allocate(t) PROVE CountInv'
  <2>1. PICK r \in Requests :
          Continue(t, [Stage("count") EXCEPT !.oversize = r.size \/ r.alignment])
    BY <1>2 DEF Allocate
  <2> DEFINE f == [Stage("count") EXCEPT !.oversize = r.size \/ r.alignment]
  <2>2. f.pc = "count" /\ progress[t].pc = "idle" /\ UNCHANGED <<count, owned, leaked>>
    BY <1>2 DEF Allocate, Outside, Stage
  <2>3. Continue(t, f)
    BY <2>1
  <2> HIDE DEF f
  <2> QED
    BY <1>0, <2>2, <2>3, Groups DEF Delta
<1>3. ASSUME NEW t \in Requesters, Count(t) PROVE CountInv'
  <2>1. PICK f \in Frames : Continue(t, f) /\ f.pc = IF count < CountMax THEN "load" ELSE "undo"
    BY <1>0, <1>3, CountMoves
  <2>2. progress[t].pc = "count" /\ count' = count + 1 /\ UNCHANGED <<owned, leaked>>
    BY <1>3 DEF Count
  <2> QED
    BY <1>0, <2>1, <2>2, Groups DEF Delta
<1>4. ASSUME NEW t \in Requesters, Undo(t) PROVE CountInv'
  <2>1. /\ Continue(t, Outside) /\ Outside.pc = "idle" /\ progress[t].pc = "undo"
        /\ count' = count - 1 /\ UNCHANGED <<owned, leaked>>
    BY <1>4, FreshFrame DEF Undo, Outside
  <2> QED
    BY <1>0, <2>1, Groups DEF Delta
<1>5. ASSUME NEW t \in Requesters, LoadBlock(t) PROVE CountInv'
  <2>1. PICK f \in Frames : /\ Continue(t, f)
                            /\ \/ f.pc \in {"claim", "load"} /\ UNCHANGED leaked
                               \/ f.pc = "idle" /\ leaked' = leaked + 1
    BY <1>0, <1>5, LoadMoves
  <2>2. progress[t].pc = "load" /\ UNCHANGED <<count, owned>>
    BY <1>5 DEF LoadBlock
  <2> QED
    BY <1>0, <2>1, <2>2, Groups DEF Delta
<1>6. ASSUME NEW t \in Requesters, Claim(t) PROVE CountInv'
  <2>0. progress[t].pc = "claim" /\ UNCHANGED <<count, leaked>>
    BY <1>6 DEF Claim
  <2>1. CASE progress[t].slot \notin used
    <3>1. /\ Continue(t, Outside) /\ Outside.pc = "idle"
          /\ owned' = owned \cup {progress[t].slot} /\ progress[t].slot \notin owned
      BY <1>6, <2>1, FreshFrame DEF Claim, Outside, Exclusive
    <3>2. Cardinality(owned') = Cardinality(owned) + 1
      BY <1>0, <3>1, FS_AddElement
    <3> QED
      BY <1>0, <2>0, <3>1, <3>2, Groups DEF Delta
  <2>2. CASE progress[t].slot \in used
    <3> DEFINE f == [progress[t] EXCEPT !.pc = "load", !.slot = @ - (@ % UsedBits)]
    <3>1. progress[t] \in Frames
      BY <1>0 DEF TypeOK
    <3>2. f.pc = "load" /\ Continue(t, f) /\ UNCHANGED owned
      BY <1>6, <2>2, <3>1 DEF Claim, Frames
    <3> HIDE DEF f
    <3>3. /\ Delta(t, f, {"load", "claim"}) = 0 /\ Delta(t, f, {"undo"}) = 0
          /\ Delta(t, f, {"unset", "uncount"}) = 0
      BY <2>0, <3>2 DEF Delta
    <3> QED
      BY <1>0, <2>0, <3>2, <3>3, Groups
  <2> QED
    BY <2>1, <2>2
<1>7. ASSUME NEW t \in Requesters, deallocateMemory(t) PROVE CountInv'
  <2>1. PICK s \in owned : /\ Continue(t, [Stage("unset") EXCEPT !.slot = s])
                           /\ owned' = owned \ {s} /\ UNCHANGED <<count, leaked>>
                           /\ progress[t] = Outside
    BY <1>7 DEF deallocateMemory
  <2> DEFINE f == [Stage("unset") EXCEPT !.slot = s]
  <2>2. Continue(t, f) /\ f.pc = "unset" /\ progress[t].pc = "idle"
    BY <2>1 DEF Stage, Outside
  <2>3. Cardinality(owned') = Cardinality(owned) - 1
    BY <1>0, <2>1, FS_RemoveElement
  <2> HIDE DEF f
  <2> QED
    BY <1>0, <2>1, <2>2, <2>3, Groups DEF Delta
<1>8. ASSUME NEW t \in Requesters, Unset(t) PROVE CountInv'
  <2>1. /\ Continue(t, Stage("uncount")) /\ Stage("uncount").pc = "uncount"
        /\ progress[t].pc = "unset" /\ UNCHANGED <<count, owned, leaked>>
    BY <1>8, FreshFrame DEF Unset
  <2> DEFINE f == Stage("uncount")
  <2> HIDE DEF f
  <2>2. /\ Delta(t, f, {"load", "claim"}) = 0 /\ Delta(t, f, {"undo"}) = 0
        /\ Delta(t, f, {"unset", "uncount"}) = 0
    BY <2>1 DEF Delta, f
  <2> QED
    BY <1>0, <2>1, <2>2, Groups DEF f
<1>9. ASSUME NEW t \in Requesters, Uncount(t) PROVE CountInv'
  <2>1. /\ Continue(t, Outside) /\ Outside.pc = "idle" /\ progress[t].pc = "uncount"
        /\ count' = count - 1 /\ UNCHANGED <<owned, leaked>>
    BY <1>9, FreshFrame DEF Uncount, Outside
  <2> QED
    BY <1>0, <2>1, Groups DEF Delta
<1>10. CASE UNCHANGED fixedVars
  BY <1>10 DEF fixedVars, Searching, Returning, At
<1> QED
  BY <1>1, <1>2, <1>3, <1>4, <1>5, <1>6, <1>7, <1>8, <1>9, <1>10 DEF fixedNext, fixedStep

-----------------------------------------------------------------------------
(* A single block: the second load of a search sees the whole array.        *)

\* With one block a search stays at position 0 and, from its second visit on,
\* hides nothing.
SearchInv == NBlocks = 1 => \A t \in Requesters : progress[t].pc \in {"load", "claim"} =>
  /\ progress[t].pc = "load" => progress[t].slot = 0
  /\ progress[t].visits >= 1 => progress[t].mask = {}
  /\ progress[t].visits <= 1

LEMMA OneBlock == NBlocks = 1 => CountMax <= UsedBits
BY SizeAssumption DEF NBlocks

LEMMA SmallBase ==
  ASSUME NBlocks = 1, NEW a \in Slots
  PROVE  a - (a % UsedBits) = 0
<1>1. a \in 0..(UsedBits - 1)
  BY OneBlock, SizeAssumption DEF Slots
<1>2. a % UsedBits = a
  BY <1>1, SizeAssumption
<1> QED
  BY <1>1, <1>2, SizeAssumption

\* A searching thread and a fully marked array do not fit together.
LEMMA SearchHasRoom ==
  ASSUME TypeOK, Exclusive, CapacityRespected, NEW t \in Searching
  PROVE  ~(Slots \subseteq used)
<1> SUFFICES ASSUME Slots \subseteq used PROVE FALSE
  OBVIOUS
<1> DEFINE U == At("unset")
           M == {progress[u].slot : u \in U}
<1>1. U \in SUBSET Returning /\ Returning \in SUBSET Requesters /\ Searching \in SUBSET Requesters
  BY DEF At, Returning, Searching
<1>2. /\ IsFiniteSet(U) /\ IsFiniteSet(owned) /\ IsFiniteSet(Returning) /\ IsFiniteSet(Searching)
      /\ Cardinality(owned) \in Nat /\ Cardinality(Returning) \in Nat
      /\ Cardinality(Searching) \in Nat /\ Cardinality(U) \in Nat
  BY <1>1, Finite
<1>3. Cardinality(U) <= Cardinality(Returning)
  BY <1>1, <1>2, FS_Subset
<1>4. IsFiniteSet(M) /\ Cardinality(M) <= Cardinality(U) /\ Cardinality(M) \in Nat
  <2> DEFINE g == [u \in U |-> progress[u].slot]
  <2>1. g \in Surjection(U, M)
    BY DEF Surjection
  <2> HIDE DEF M, U, g
  <2> QED
    BY <1>2, <2>1, FS_Surjection, FS_CardinalityType
<1>5. used = owned \cup M
  BY DEF Exclusive
<1>6. IsFiniteSet(used) /\ Cardinality(used) <= Cardinality(owned) + Cardinality(M)
  <2> HIDE DEF M
  <2>1. /\ IsFiniteSet(owned \cup M) /\ Cardinality(owned \cap M) \in Nat
        /\ Cardinality(owned \cup M)
             = Cardinality(owned) + Cardinality(M) - Cardinality(owned \cap M)
    BY <1>2, <1>4, FS_Union, FS_Intersection, FS_CardinalityType
  <2> QED
    BY <1>2, <1>4, <1>5, <2>1
<1>7. Cardinality(Slots) = CountMax
  BY FS_Interval, SizeAssumption DEF Slots
<1>8. Slots = used
  BY DEF TypeOK
<1>9. Cardinality(Searching) # 0
  BY <1>2, FS_EmptySet
<1> HIDE DEF U, M
<1> QED
  BY <1>2, <1>3, <1>4, <1>6, <1>7, <1>8, <1>9, SizeAssumption DEF CapacityRespected, TypeOK

LEMMA SearchStep ==
  TypeInv /\ Exclusive /\ CountInv /\ SearchInv /\ OneBlockNeverFails /\ [fixedNext]_fixedVars
    => SearchInv' /\ OneBlockNeverFails'
<1> SUFFICES ASSUME TypeInv, Exclusive, CountInv, SearchInv, OneBlockNeverFails,
                    [fixedNext]_fixedVars, NBlocks = 1
             PROVE  SearchInv' /\ leaked' = 0
  BY DEF SearchInv, OneBlockNeverFails, NBlocks
<1>0. TypeOK /\ CountMax <= UsedBits /\ leaked = 0
  BY OneBlock DEF TypeInv, OneBlockNeverFails
\* Any step after which the thread is not searching, or searches as it should.
<1>1. ASSUME NEW t \in Requesters, NEW f, Continue(t, f),
             f.pc \in {"load", "claim"} =>
               /\ f.pc = "load" => f.slot = 0
               /\ f.visits >= 1 => f.mask = {}
               /\ f.visits <= 1
      PROVE  SearchInv'
  BY <1>0, <1>1, Replace DEF SearchInv, NBlocks
<1>2. CASE ClearAll
  BY <1>2 DEF ClearAll, SearchInv, Outside, Stage
<1>3. ASSUME NEW t \in Requesters, Count(t) PROVE SearchInv' /\ leaked' = 0
  <2>0. progress[t] \in Frames /\ count \in Nat /\ UNCHANGED leaked
    BY <1>0, <1>3 DEF TypeOK, Count
  <2>1. CASE count < CountMax
    <3>1. PermuteStart[count] \in Slots
      BY <2>0, <2>1, PermuteAssumption, SizeAssumption DEF Slots
    <3>2. PICK mask : Continue(t, SearchFrom(progress[t], PermuteStart[count], mask))
      BY <1>3, <2>1 DEF Count
    <3> DEFINE f == SearchFrom(progress[t], PermuteStart[count], mask)
    <3>3. f.pc = "load" /\ f.slot = 0 /\ f.visits = 0
      BY <2>0, <3>1, SmallBase DEF SearchFrom, Frames
    <3>4. Continue(t, f)
      BY <3>2
    <3> HIDE DEF f
    <3> QED
      BY <1>0, <1>1, <2>0, <3>3, <3>4
  <2>2. CASE ~(count < CountMax)
    <3> DEFINE f == [progress[t] EXCEPT !.pc = "undo"]
    <3>1. Continue(t, f) /\ f.pc = "undo"
      BY <1>3, <2>0, <2>2 DEF Count, Frames
    <3> HIDE DEF f
    <3> QED
      BY <1>0, <1>1, <2>0, <3>1
  <2> QED
    BY <2>1, <2>2
<1>4. ASSUME NEW t \in Requesters, LoadBlock(t) PROVE SearchInv' /\ leaked' = 0
  <2>0. /\ progress[t] \in Frames /\ progress[t].pc = "load" /\ progress[t].slot = 0 /\ progress[t].visits \in Nat
        /\ progress[t].visits >= 1 => progress[t].mask = {}
        /\ progress[t].visits <= 1
    BY <1>0, <1>4 DEF TypeOK, LoadBlock, Frames, SearchInv
  <2>1. PICK k \in 0..UsedBits :
     /\ CountrOne(0, progress[t].mask, k)
     /\ \/ /\ Continue(t, [progress[t] EXCEPT !.pc = "claim", !.slot = @ + k])
           /\ UNCHANGED leaked
        \/ /\ k = UsedBits \/ CountMax <= progress[t].slot + k
           /\ progress[t].visits + 1 < 2 * NBlocks
           /\ Continue(t, [progress[t] EXCEPT !.slot = NextBlock(@, k), !.mask = {},
                                      !.visits = @ + 1])
           /\ UNCHANGED leaked
        \/ /\ k = UsedBits \/ CountMax <= progress[t].slot + k
           /\ progress[t].visits + 1 = 2 * NBlocks
    BY <1>4, <2>0 DEF LoadBlock, MaxVisits
  <2>2. CASE /\ Continue(t, [progress[t] EXCEPT !.pc = "claim", !.slot = @ + k]) /\ UNCHANGED leaked
    <3> DEFINE f == [progress[t] EXCEPT !.pc = "claim", !.slot = @ + k]
    <3>1. Continue(t, f) /\ f.pc = "claim" /\ f.visits = progress[t].visits /\ f.mask = progress[t].mask
      BY <2>0, <2>2 DEF Frames
    <3> HIDE DEF f
    <3> QED
      BY <1>0, <1>1, <2>0, <2>2, <3>1
  <2>3. CASE /\ k = UsedBits \/ CountMax <= progress[t].slot + k
             /\ progress[t].visits + 1 < 2 * NBlocks
             /\ Continue(t, [progress[t] EXCEPT !.slot = NextBlock(@, k), !.mask = {},
                                          !.visits = @ + 1])
             /\ UNCHANGED leaked
    <3> DEFINE f == [progress[t] EXCEPT !.slot = NextBlock(@, k), !.mask = {}, !.visits = @ + 1]
    <3>1. NextBlock(progress[t].slot, k) = 0
      BY <1>0, <2>0, <2>3, SizeAssumption DEF NextBlock
    <3>2. Continue(t, f) /\ f.slot = 0 /\ f.mask = {} /\ f.visits = progress[t].visits + 1
      BY <2>0, <2>3, <3>1 DEF Frames
    <3> HIDE DEF f
    <3> QED
      BY <1>0, <1>1, <2>0, <2>3, <3>2
  <2>4. CASE /\ k = UsedBits \/ CountMax <= progress[t].slot + k
             /\ progress[t].visits + 1 = 2 * NBlocks
    <3>1. progress[t].mask = {} /\ CountMax <= k
      BY <1>0, <2>0, <2>4, SizeAssumption
    <3>2. Slots \subseteq used
      BY <2>1, <3>1, SizeAssumption DEF CountrOne, Slots
    <3>3. t \in Searching /\ CapacityRespected
      BY <2>0 DEF Searching, At, CountInv
    <3> QED
      BY <1>0, <3>2, <3>3, SearchHasRoom
  <2> QED
    BY <2>1, <2>2, <2>3, <2>4
<1>5. ASSUME NEW t \in Requesters, Claim(t) PROVE SearchInv' /\ leaked' = 0
  <2>0. /\ progress[t] \in Frames /\ progress[t].pc = "claim" /\ progress[t].slot \in Slots /\ UNCHANGED leaked
        /\ progress[t].visits >= 1 => progress[t].mask = {}
        /\ progress[t].visits <= 1
    BY <1>0, <1>5 DEF TypeOK, TypeInv, SlotInArray, Claim, SearchInv
  <2>1. CASE progress[t].slot \notin used
    BY <1>0, <1>1, <1>5, <2>0, <2>1, FreshFrame DEF Claim, Outside
  <2>2. CASE progress[t].slot \in used
    <3> DEFINE f == [progress[t] EXCEPT !.pc = "load", !.slot = @ - (@ % UsedBits)]
    <3>1. f.slot = 0 /\ f.visits = progress[t].visits /\ f.mask = progress[t].mask
      BY <2>0, SmallBase DEF Frames
    <3>2. Continue(t, f)
      BY <1>5, <2>2 DEF Claim
    <3> HIDE DEF f
    <3> QED
      BY <1>0, <1>1, <2>0, <3>1, <3>2
  <2> QED
    BY <2>1, <2>2
<1>6. ASSUME NEW t \in Requesters,
             Allocate(t) \/ Undo(t) \/ deallocateMemory(t) \/ Unset(t) \/ Uncount(t)
      PROVE  SearchInv' /\ leaked' = 0
  <2>1. PICK f : Continue(t, f) /\ f.pc \in {"idle", "count", "unset", "uncount"}
    <3>1. CASE Allocate(t)
      BY <3>1 DEF Allocate, Stage
    <3>2. CASE deallocateMemory(t)
      BY <3>2 DEF deallocateMemory, Stage
    <3> QED
      BY <1>6, <3>1, <3>2 DEF Undo, Unset, Uncount, Outside, Stage
  <2>2. UNCHANGED leaked
    BY <1>6 DEF Allocate, Undo, deallocateMemory, Unset, Uncount
  <2> QED
    BY <1>0, <1>1, <2>1, <2>2
<1>7. CASE UNCHANGED fixedVars
  BY <1>0, <1>7 DEF fixedVars, SearchInv, NBlocks
<1> QED
  BY <1>2, <1>3, <1>4, <1>5, <1>6, <1>7 DEF fixedNext, fixedStep

-----------------------------------------------------------------------------
(* The theorems.                                                            *)

\* The inductive invariant: types need the count (it is never taken below
\* zero), the count needs the ownership bits (a claimed storage is new), and
\* the failing search needs both.
IInv == TypeInv /\ Exclusive /\ CountInv /\ SearchInv /\ OneBlockNeverFails

LEMMA InitIInv == fixedInit => IInv
<1> SUFFICES ASSUME fixedInit PROVE IInv
  OBVIOUS
<1>1. Searching = {} /\ Returning = {} /\ At("undo") = {} /\ At("unset") = {}
  BY DEF fixedInit, Searching, Returning, At, Outside, Stage
<1>2. TypeInv
  BY FreshFrame, SizeAssumption DEF fixedInit, TypeInv, TypeOK, SlotInArray, Outside
<1>3. CountInv
  BY <1>1, FS_EmptySet, SizeAssumption DEF fixedInit, CountInv, CountExact, CapacityRespected
<1>4. Exclusive
  BY <1>1 DEF fixedInit, Exclusive
<1>5. SearchInv /\ OneBlockNeverFails
  BY DEF fixedInit, SearchInv, OneBlockNeverFails, Outside, Stage
<1> QED
  BY <1>2, <1>3, <1>4, <1>5 DEF IInv

LEMMA StepIInv == IInv /\ [fixedNext]_fixedVars => IInv'
BY TypeStep, ExclusiveStep, CountStep, SearchStep DEF IInv, CountInv

THEOREM Invariance == fixedSpec => []IInv
BY InitIInv, StepIInv, PTL DEF fixedSpec

\* Type correctness; count_ in particular never wraps below zero.
THEOREM TypeCorrect == fixedSpec => []TypeOK
<1>1. IInv => TypeOK
  BY DEF IInv, TypeInv
<1> QED
  BY <1>1, Invariance, PTL

\* No storage of allocateMemory() has two owners, in any interleaving of any
\* number of threads, whatever storage a search begins at.
THEOREM ExclusiveOwnership == fixedSpec => []Exclusive
<1>1. IInv => Exclusive
  BY DEF IInv
<1> QED
  BY <1>1, Invariance, PTL

\* count_ covers every storage in use and every call in progress, and equals them as
\* long as no search has ended in "Fatal error" since the last clear(): no call gives
\* its count back twice, and none but a search that fails forgets it.
THEOREM CountingIsSound == fixedSpec => []CountAccounts
<1>1. ASSUME TypeOK, CountExact PROVE CountAccounts
  <2>1. /\ Searching \in SUBSET Requesters /\ Returning \in SUBSET Requesters
        /\ At("undo") \in SUBSET Requesters
    BY DEF Searching, Returning, At
  <2>2. Charged \in Nat /\ leaked \in Nat /\ count = Charged + leaked
    BY <1>1, <2>1, Finite DEF CountExact, Charged, TypeOK
  <2> QED
    BY <2>2 DEF CountAccounts
<1>2. IInv => CountAccounts
  BY <1>1 DEF IInv, CountInv, TypeInv
<1> QED
  BY <1>2, Invariance, PTL

\* The storages held, looked for and given back never outnumber the array: the
\* check of countMax() admits no thread too many, refused ones notwithstanding.
THEOREM CapacityIsRespected == fixedSpec => []CapacityRespected
<1>1. IInv => CapacityRespected
  BY DEF IInv, CountInv
<1> QED
  BY <1>1, Invariance, PTL

\* While the ownership bits fit one block, "Fatal error. Appropriate storage not
\* found." is never thrown: the counter admits no search that could fail.
THEOREM NoFatalErrorInOneBlock == fixedSpec => []OneBlockNeverFails
<1>1. IInv => OneBlockNeverFails
  BY DEF IInv
<1> QED
  BY <1>1, Invariance, PTL

\* While the ownership bits fit one block, the words of fixed_array_resource.hpp on
\* count() hold: it is the number of used storages when nobody is in a call.
THEOREM CountIsUsedInOneBlock == ASSUME NBlocks = 1 PROVE fixedSpec => []CountIsUsed
<1>1. IInv => CountIsUsed
  <2> SUFFICES ASSUME IInv, \A t \in Requesters : progress[t] = Outside
               PROVE  count = Cardinality(used)
    BY DEF CountIsUsed
  <2>1. Searching = {} /\ Returning = {} /\ At("undo") = {} /\ At("unset") = {}
    BY DEF Searching, Returning, At, Outside, Stage
  <2>2. used = owned
    BY <2>1 DEF IInv, Exclusive
  <2>3. leaked = 0 /\ CountExact
    BY DEF IInv, OneBlockNeverFails, CountInv
  <2>4. Cardinality(owned) \in Nat
    BY Finite DEF IInv, TypeInv
  <2> QED
    BY <2>1, <2>2, <2>3, <2>4, FS_EmptySet DEF CountExact
<1> QED
  BY <1>1, Invariance, PTL
=============================================================================
