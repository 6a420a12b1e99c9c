--------------------------- MODULE MonotonicBuffer ---------------------------
(***************************************************************************)
(* zisc/memory/monotonic_buffer_resource-inl.hpp: memory cut off the front *)
(* of one buffer, with a count of the blocks in use, and release() to start*)
(* again.                                                                  *)
(*                                                                         *)
(* Two clients: several threads that allocate and deallocate and never     *)
(* release; and the task storage of ThreadManager, where one thread calls  *)
(* release() if the buffer is not occupied and then allocates, while the   *)
(* others only deallocate.                                                 *)
(***************************************************************************)
EXTENDS Integers, FiniteSets

CONSTANTS
  Tenants,
  BufferSize,    \* capacity(): bytes of the buffer
  Addresses,   \* where the buffer may lie
  BufferRequests,    \* the <<size, alignment>> that are asked for
  MaxBlocks    \* bound on the blocks in use together
NoThread == "no thread"
ASSUME BufferAssumption ==
  /\ NoThread \notin Tenants
  /\ BufferSize \in Nat /\ Addresses \subseteq Nat /\ MaxBlocks \in Nat
  /\ BufferRequests \subseteq (Nat \ {0}) \X (Nat \ {0})

VARIABLES
  storage,    \* storage(): the address of the buffer
  releaser,   \* the only thread that allocates, or NoThread when all do
  useCount,   \* use_count_
  size,       \* size_
  blocks,     \* the blocks handed out and not yet deallocated
  step        \* thread -> where it is in its call

bufferVars == <<storage, releaser, useCount, size, blocks, step>>

Rest == [pc |-> "rest", usage |-> 0, request |-> <<1, 1>>]
Proceed(t, s) == step' = [step EXCEPT ![t] = s]

bufferInit ==
  /\ storage \in Addresses /\ releaser \in Tenants \cup {NoThread}
  /\ useCount = 0 /\ size = 0 /\ blocks = {}
  /\ step = [t \in Tenants |-> Rest]

\* A storage that holds no block is released before the first allocation.
mayAllocate(t) == releaser \in {t, NoThread} /\ Cardinality(blocks) < MaxBlocks

AllocLoad(t) ==
  /\ step[t].pc \in {"rest", "released"} /\ mayAllocate(t)
  /\ \E r \in BufferRequests : Proceed(t, [pc |-> "reserve", usage |-> size, request |-> r])
  /\ UNCHANGED <<storage, releaser, useCount, size, blocks>>

\* alignment is a power of two, & (alignment - 1) is its remainder.
Adjustment(usage, alignment) ==
  (alignment - ((storage + usage) % alignment)) % alignment

\* MUTANT: size_ is stored without a comparison.
ReserveStore(t) ==
  LET s == step[t]
      next == s.usage + Adjustment(s.usage, s.request[2]) + s.request[1]
  IN /\ s.pc = "reserve"
     /\ IF BufferSize < next
          THEN Proceed(t, Rest) /\ UNCHANGED size
          ELSE size' = next /\ Proceed(t, [s EXCEPT !.pc = "count"])
     /\ UNCHANGED <<storage, releaser, useCount, blocks>>
\* One round of the loop: BadAllocation, the exchange, or the usage anew.
Reserve(t) ==
  LET s == step[t]
      next == s.usage + Adjustment(s.usage, s.request[2]) + s.request[1]
  IN /\ s.pc = "reserve"
     /\ CASE BufferSize < next -> Proceed(t, Rest) /\ UNCHANGED size
          [] BufferSize >= next /\ size = s.usage ->
               size' = next /\ Proceed(t, [s EXCEPT !.pc = "count"])
          [] OTHER -> Proceed(t, [s EXCEPT !.usage = size]) /\ UNCHANGED size
     /\ UNCHANGED <<storage, releaser, useCount, blocks>>

\* use_count_ is raised after the bytes are reserved, in a step of its own.
CountUse(t) ==
  LET s == step[t]
      data == s.usage + Adjustment(s.usage, s.request[2])
  IN /\ s.pc = "count"
     /\ useCount' = useCount + 1
     /\ blocks' = blocks \cup
          {[first |-> data, end |-> data + s.request[1], alignment |-> s.request[2]]}
     /\ Proceed(t, Rest)
     /\ UNCHANGED <<storage, releaser, size>>

Deallocate(t) ==
  /\ step[t].pc = "rest"
  /\ \E b \in blocks : blocks' = blocks \ {b}
  /\ useCount' = useCount - 1
  /\ UNCHANGED <<storage, releaser, size, step>>

\* if (!isOccupied()) release(), as createTask does.
IfNotOccupied(t) ==
  /\ step[t].pc = "rest" /\ releaser = t /\ useCount = 0
  /\ Proceed(t, [Rest EXCEPT !.pc = "uncount"])
  /\ UNCHANGED <<storage, releaser, useCount, size, blocks>>
ReleaseCount(t) ==
  /\ step[t].pc = "uncount"
  /\ useCount' = 0 /\ Proceed(t, [Rest EXCEPT !.pc = "unsize"])
  /\ UNCHANGED <<storage, releaser, size, blocks>>
ReleaseSize(t) ==
  /\ step[t].pc = "unsize"
  /\ size' = 0 /\ Proceed(t, [Rest EXCEPT !.pc = "released"])
  /\ UNCHANGED <<storage, releaser, useCount, blocks>>

bufferNext == \E t \in Tenants :
  \/ AllocLoad(t) \/ Reserve(t) \/ CountUse(t) \/ Deallocate(t)
  \/ IfNotOccupied(t) \/ ReleaseCount(t) \/ ReleaseSize(t)
bufferSpec == bufferInit /\ [][bufferNext]_bufferVars

-----------------------------------------------------------------------------
(* Properties                                                              *)

\* Blocks in use never overlap, lie in the buffer and are aligned as asked,
\* whoever allocates at the same time and however often the storage is reused;
\* and the use count is their number, so that a buffer that is not occupied has
\* none to lose.
BlocksAreSound ==
  /\ \A b \in blocks : b.end <= BufferSize /\ (storage + b.first) % b.alignment = 0
  /\ \A b, c \in blocks : b # c => b.end <= c.first \/ c.end <= b.first
  /\ useCount = Cardinality(blocks)
=============================================================================
