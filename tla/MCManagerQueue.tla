---------------------------- MODULE MCManagerQueue ----------------------------
(* ManagerQueue for TLC: one loop, one iteration longer than the queue. *)
EXTENDS ManagerQueue

Loops == {[n |-> 3, loop |-> TRUE, wait |-> FALSE, nests |-> FALSE]}
=============================================================================
