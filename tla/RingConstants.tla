---------------------------- MODULE RingConstants ----------------------------
(***************************************************************************)
(* What a PortableRingBuffer and the LockFreeQueue made of two of them have *)
(* in common: the threads, the size, the words of a cell that are no index, *)
(* and the tuning constants of dequeue.                                     *)
(***************************************************************************)
EXTENDS Integers, FiniteSets

CONSTANTS
  Threads,         \* the calling threads
  N,               \* size(): the number of cells, a power of 2
  Invalid,         \* invalidIndex(): an empty cell, and the answer "empty"
  Overflow,        \* overflowIndex(): the answer of a refused cautious dequeue
  UpdateInterval,  \* update_interval: attempts between two loads of the tail
  AMax,            \* amax: attempts before a dequeuer poisons its cell
  MaxTicket        \* bound on the tickets the model hands out

\* The indexes of storage slots, which are what a ring holds.
Values == 0..(N - 1)

ASSUME NAssumption == N \in Nat \ {0}
ASSUME BoundAssumption == /\ UpdateInterval \in Nat \ {0}
                          /\ AMax \in Nat
                          /\ MaxTicket \in Nat

\* No word of a cell is two things: invalidIndex() is the greatest word, the
\* marks of threads have the top bit set, and an index is below size().
ASSUME WordAssumption == /\ Threads \cap Values = {}
                         /\ Invalid \notin Values \cup Threads
                         /\ Overflow \notin Values \cup {Invalid}
=============================================================================
