---------------------------- MODULE QueueObjects ----------------------------
(***************************************************************************)
(* The life of queue objects, LockFreeQueue (lock_free_queue-inl.hpp) and  *)
(* MutexQueue (mutex_queue-inl.hpp): construction, setCapacity, move       *)
(* construction, move assignment and destruction, between calls of enqueue *)
(* and dequeue, each taken whole.  What is at stake are the storages of    *)
(* the elements (data_storage-inl.hpp), which hold an object of type T or  *)
(* none, and which a std::vector moves one by one or drops, without being  *)
(* told which of the two they do.                                          *)
(*                                                                         *)
(* The rings of a LockFreeQueue are the sequences of their indexes;        *)
(* LockFreeQueue.tla has them step by step.  A move leaves the vectors of  *)
(* its source empty, so that its rings have no memory, while head_ and     *)
(* tail_ of a MutexQueue keep their values.  The clients use a queue they  *)
(* have moved from only to destroy it, to assign to it, to move from it    *)
(* again, or, if its kind is one of ReusedKinds, to give it a capacity and *)
(* to use it from then on.                                                 *)
(***************************************************************************)
EXTENDS Integers, Sequences, FiniteSets, Functions

CONSTANTS
  QueueNames,   \* the objects
  Items,        \* values of type T
  Raw,          \* a storage without a value
  Stray,        \* an object made by moving bytes that were no object
  Resources,    \* memory resources
  ObjectCapacities,  \* arguments of setCapacity()
  ReusedKinds,  \* kinds of queue that are used again after a move
  MaxTurns      \* bound: elements that pass through a queue
ASSUME ObjectAssumption == Raw \notin Items /\ Stray \notin Items \cup {Raw} /\ MaxTurns \in Nat

VARIABLES
  queueKind,  \* "lock_free" or "mutex"
  storable,   \* kTCanBeStorageT: the storage is a T itself, or else bytes
  objects,    \* the queue objects, or NoQueue
  misused,    \* history: an object was moved or destroyed in a storage that holds none
  abandoned,  \* memory was given back with an object in it
  asked       \* what each queue should hold, in order
objectVars == <<queueKind, storable, objects, misused, abandoned, asked>>

NoQueue == [elements |-> <<>>, alive |-> FALSE]
Alive(q) == objects[q].alive
NewQueue(resource) == [elements |-> <<>>, alive |-> TRUE, room |-> 0, resource |-> resource,
                       head |-> 0, tail |-> 0, free |-> <<>>, allocated |-> <<>>,
                       moved |-> FALSE]

objectInit ==
  /\ queueKind \in {"lock_free", "mutex"} /\ storable \in BOOLEAN
  /\ objects = [q \in QueueNames |-> NoQueue]
  /\ asked = [q \in QueueNames |-> <<>>]
  /\ misused = FALSE /\ abandoned = FALSE

-----------------------------------------------------------------------------
(* Storages and vectors of them                                            *)

\* Moving a storage takes a T out of it, whether one is there or not.  A T that is
\* its own storage is always there; from bytes that hold none comes a stray T.
movedOver(element) == IF ~storable /\ element = Raw THEN Stray ELSE element
\* A T is moved out of one of these storages, or destroyed in it, and there is none.
HoldsNothing(elements) == ~storable /\ Raw \in Range(elements)
\* Dropping storages runs no destructor of T unless they are a T.
Leaks(elements) == ~storable /\ \E i \in DOMAIN elements : elements[i] \in Items

Longer(a, b) == IF a > b THEN a ELSE b
\* vector::resize(): within its room nothing is moved; beyond it everything is.
resize(o, n) ==
  [o EXCEPT !.elements = [i \in 1..n |->
              IF i > Len(@) THEN Raw ELSE IF n > o.room THEN movedOver(@[i]) ELSE @[i]],
            !.room = IF n <= @ THEN @ ELSE Longer(2 * Len(o.elements), n)]

-----------------------------------------------------------------------------
(* The queues                                                              *)

\* The elements between head_ and tail_, or those of the allocated indexes.
QueueIndexes(o) ==
  IF queueKind = "lock_free" THEN o.allocated
  ELSE [k \in 1..(o.tail - o.head) |-> (o.head + k - 1) % Len(o.elements)]
sizeOf(o) == IF queueKind = "lock_free" THEN Len(o.allocated) ELSE o.tail - o.head

\* clear(), skipped if the vector is empty: destroys the elements and resets the
\* indexes.
cleared(o) ==
  IF o.elements = <<>> THEN o
  ELSE LET drop == Range(QueueIndexes(o))
           n == Len(o.elements)
       IN [o EXCEPT !.elements = [i \in 1..n |-> IF i - 1 \in drop THEN Raw ELSE @[i]],
                    !.head = 0, !.tail = 0, !.allocated = <<>>,
                    !.free = IF queueKind = "lock_free" THEN [i \in 1..n |-> i - 1] ELSE @]
ClearsNothing(o) ==
  /\ o.elements # <<>>
  /\ HoldsNothing([k \in DOMAIN QueueIndexes(o) |-> o.elements[QueueIndexes(o)[k] + 1]])

bit_ceil(n) == CHOOSE p \in {2 ^ k : k \in 0..n} : n <= p /\ p < 2 * n
\* Any size may be asked for, and each has its power of two.
ASSUME CapacitiesAreSizes ==
  \A cap \in ObjectCapacities : cap \in Nat /\ bit_ceil(Longer(1, cap)) \in Nat \ {0}
\* The number of storages after setCapacity(cap): a LockFreeQueue only grows.
storages(o, cap) ==
  IF queueKind = "mutex" THEN Longer(1, cap)
  ELSE Longer(Len(o.elements), bit_ceil(Longer(1, cap)))
\* setCapacity(): cleared before the resize, and a LockFreeQueue once more after it,
\* which sets up its rings.
withCapacity(o, cap) ==
  LET resized == resize(cleared(o), storages(o, cap))
  IN [IF queueKind = "lock_free" THEN cleared(resized) ELSE resized EXCEPT !.moved = FALSE]

\* What is left of the source of a move.
movedFrom(o) ==
  [o EXCEPT !.elements = <<>>, !.room = 0, !.free = <<>>, !.allocated = <<>>, !.moved = TRUE]

-----------------------------------------------------------------------------
(* The operations                                                          *)

Construct(q) == \E cap \in ObjectCapacities, r \in Resources :
  /\ ~Alive(q)
  /\ objects' = [objects EXCEPT ![q] = withCapacity(NewQueue(r), cap)]
  /\ asked' = [asked EXCEPT ![q] = <<>>]
  /\ UNCHANGED <<misused, abandoned>>

setCapacity(q) == \E cap \in ObjectCapacities :
  LET o == objects[q]
  IN /\ Alive(q) /\ (o.moved => queueKind \in ReusedKinds)
     /\ objects' = [objects EXCEPT ![q] = withCapacity(o, cap)]
     /\ misused' = (\/ misused \/ ClearsNothing(o)
                    \/ storages(o, cap) > o.room /\ HoldsNothing(cleared(o).elements))
     /\ asked' = [asked EXCEPT ![q] = <<>>]
     /\ UNCHANGED abandoned

\* The move constructor takes everything, the memory resource included.
MoveConstruct(q, p) ==
  /\ ~Alive(q) /\ Alive(p)
  /\ objects' = [objects EXCEPT ![q] = objects[p], ![p] = movedFrom(objects[p])]
  /\ asked' = [asked EXCEPT ![q] = asked[p], ![p] = <<>>]
  /\ UNCHANGED <<misused, abandoned>>

\* The move assignment from o to p: the vectors of a std::pmr::polymorphic_allocator
\* change hands within a memory resource; between two of them the storages are
\* moved one by one.
assigned(o, p) ==
  [p EXCEPT !.resource = o.resource,
            !.elements = IF o.resource = p.resource THEN @
                         ELSE [i \in DOMAIN @ |-> movedOver(@[i])],
            !.room = IF o.resource = p.resource THEN @ ELSE Longer(o.room, Len(p.elements))]
left(o, p) ==
  [movedFrom(p) EXCEPT !.room = IF o.resource = p.resource THEN 0 ELSE p.room]
Assign(q, p, o) ==
  /\ objects' = [objects EXCEPT ![q] = assigned(o, objects[p]), ![p] = left(o, objects[p])]
  /\ misused' = (\/ misused \/ ClearsNothing(objects[q])
                 \/ o.resource # objects[p].resource /\ HoldsNothing(objects[p].elements))
  /\ abandoned' = (abandoned \/ Leaks(o.elements))
  /\ asked' = [asked EXCEPT ![q] = asked[p], ![p] = <<>>]
\* MUTANT: what the target held is not cleared first.
MoveAssignOver(q, p) == q # p /\ Alive(q) /\ Alive(p) /\ Assign(q, p, objects[q])
MoveAssign(q, p) == q # p /\ Alive(q) /\ Alive(p) /\ Assign(q, p, cleared(objects[q]))

Destruct(q) ==
  /\ Alive(q)
  /\ objects' = [objects EXCEPT ![q] = NoQueue]
  /\ asked' = [asked EXCEPT ![q] = <<>>]
  /\ misused' = (misused \/ ClearsNothing(objects[q]))
  /\ abandoned' = (abandoned \/ Leaks(cleared(objects[q]).elements))

enqueueItem(q) == \E x \in Items :
  LET o == objects[q]
      i == IF queueKind = "lock_free" THEN Head(o.free) ELSE o.tail % Len(o.elements)
  IN /\ Alive(q) /\ ~o.moved
     /\ sizeOf(o) < Len(o.elements)  \* or else an OverflowError that changes nothing
     /\ o.tail < MaxTurns
     /\ objects' = [objects EXCEPT ![q] =
          IF queueKind = "lock_free"
            THEN [o EXCEPT !.elements[i + 1] = x, !.free = Tail(@), !.allocated = Append(@, i)]
            ELSE [o EXCEPT !.elements[i + 1] = x, !.tail = @ + 1]]
     /\ asked' = [asked EXCEPT ![q] = Append(@, x)]
     /\ UNCHANGED <<misused, abandoned>>

dequeueItem(q) ==
  LET o == objects[q]
      i == Head(QueueIndexes(o))
  IN /\ Alive(q) /\ ~o.moved /\ sizeOf(o) > 0
     /\ objects' = [objects EXCEPT ![q] =
          IF queueKind = "lock_free"
            THEN [o EXCEPT !.elements[i + 1] = Raw, !.allocated = Tail(@), !.free = Append(@, i)]
            ELSE [o EXCEPT !.elements[i + 1] = Raw, !.head = @ + 1]]
     /\ misused' = (misused \/ HoldsNothing(<<o.elements[i + 1]>>))
     /\ asked' = [asked EXCEPT ![q] = IF @ = <<>> THEN @ ELSE Tail(@)]
     /\ UNCHANGED abandoned

objectNext ==
  /\ \E q \in QueueNames :
       \/ Construct(q) \/ setCapacity(q) \/ Destruct(q) \/ enqueueItem(q) \/ dequeueItem(q)
       \/ \E p \in QueueNames : MoveConstruct(q, p) \/ MoveAssign(q, p)
  /\ UNCHANGED <<queueKind, storable>>

objectSpec == objectInit /\ [][objectNext]_objectVars

-----------------------------------------------------------------------------
(* Properties                                                              *)

\* Elements survive every move, growth and shrinking of their queue exactly when
\* they should, whichever way T is stored: a queue holds what it was given since it
\* was last cleared, moved to or assigned, each element is in the storage of its
\* index and in no other, and nothing is given back with an element in it.
ElementsSurvive ==
  /\ ~abandoned
  /\ \A q \in QueueNames : LET o == objects[q] IN Alive(q) /\ ~o.moved =>
       /\ [k \in 1..sizeOf(o) |-> o.elements[QueueIndexes(o)[k] + 1]] = asked[q]
       /\ \A i \in DOMAIN o.elements :
            o.elements[i] \in Items => i - 1 \in Range(QueueIndexes(o))

\* The words of data_storage.hpp on destroy(), which every move of a storage ends
\* with: "Destroy the value stored in the storage".  They fail for a T that cannot be
\* its own storage: a vector that grows moves its storages without a value too, so a
\* T is moved out of them and destroyed in them that was never made.
StoragesHoldValues == ~misused

\* The words of mutex_queue.hpp on setCapacity(): "The queued data is cleared".
\* They fail for a MutexQueue that was moved from: it has kept head_ and tail_, its
\* clear() is skipped because it has no storages, and with the new ones it has
\* elements that nobody has put there.
CapacityClears == \A q \in QueueNames :
  Alive(q) /\ ~objects[q].moved => sizeOf(objects[q]) = Len(asked[q])
=============================================================================
