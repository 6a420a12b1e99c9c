---------------------------- MODULE BoundedFifo ----------------------------
(***************************************************************************)
(* What a bounded queue of the library promises (zisc/structure/queue.hpp):*)
(* elements leave in the order they came, an element is refused only when  *)
(* the queue is full, and a refused element is handed back to the caller.  *)
(***************************************************************************)
EXTENDS Naturals, Sequences

CONSTANTS Values, Capacities

VARIABLES
  queue,    \* the elements, the oldest first
  room,     \* how many elements there is room for
  outcome   \* what the last call answered

fifoVars == <<queue, room, outcome>>

Stored == [kind |-> "stored"]
Nothing == [kind |-> "nothing"]
Refused(v) == [kind |-> "refused", value |-> v]
Taken(v) == [kind |-> "taken", value |-> v]

AtLeastOne(c) == IF c = 0 THEN 1 ELSE c

fifoInit == queue = <<>> /\ outcome = Nothing /\ \E c \in Capacities : room = AtLeastOne(c)

Put(v) ==
  /\ IF Len(queue) < room THEN queue' = Append(queue, v) /\ outcome' = Stored
                          ELSE UNCHANGED queue /\ outcome' = Refused(v)
  /\ UNCHANGED room

Take ==
  /\ IF queue = <<>> THEN UNCHANGED queue /\ outcome' = Nothing
                     ELSE queue' = Tail(queue) /\ outcome' = Taken(Head(queue))
  /\ UNCHANGED room

Drop == queue' = <<>> /\ outcome' = Nothing /\ UNCHANGED room

Resize(c) == queue' = <<>> /\ outcome' = Nothing /\ room' = AtLeastOne(c)

fifoNext == Take \/ Drop \/ (\E v \in Values : Put(v)) \/ (\E c \in Capacities : Resize(c))

fifoSpec == fifoInit /\ [][fifoNext]_fifoVars
=============================================================================
