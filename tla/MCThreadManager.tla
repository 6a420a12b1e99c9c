---------------------------- MODULE MCThreadManager ----------------------------
(* ThreadManager for TLC: the kinds of tasks of the runs. *)
EXTENDS ThreadManager, TLC

Symmetry == Permutations(Workers) \cup Permutations(Jobs)
ClientSymmetry == Symmetry \cup Permutations(Clients)

Single(wait, nests) == [n |-> 1, loop |-> FALSE, wait |-> wait, nests |-> nests]
Loop(n, wait) == [n |-> n, loop |-> TRUE, wait |-> wait, nests |-> FALSE]

Ordered == {Single(TRUE, FALSE), Loop(2, TRUE)}
Mixed == {Single(FALSE, FALSE), Loop(2, FALSE), Loop(2, TRUE)}
Nesting == {Single(FALSE, TRUE), Single(FALSE, FALSE)}
Waiting == {Single(TRUE, FALSE)}

\* The tasks differ in name only, and a symmetry set is not sound for liveness:
\* the first of them is the first that is enqueued.
InOrder == LET first == CHOOSE j \in Jobs : TRUE
           IN (\E j \in Jobs : job'[j].st # "new") => job'[first].st # "new"
=============================================================================
