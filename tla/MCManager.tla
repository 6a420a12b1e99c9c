------------------------------ MODULE MCManager ------------------------------
(***************************************************************************)
(* ThreadManager for TLC in two settings, the initial state says which:    *)
(*   "ordered"  single and loop tasks that wait for the tasks before them; *)
(*   "nesting"  tasks that enqueue tasks from a worker, with fewer ids and *)
(*              a queue of one, so that ids start again and the queue      *)
(*              overflows.                                                 *)
(***************************************************************************)
EXTENDS MCThreadManager

VARIABLE setting

Nested == INSTANCE ThreadManager WITH Kinds <- Nesting, MaxId <- 2, Capacity <- 1

MCInit ==
  \/ setting = "ordered" /\ Init
  \/ setting = "nesting" /\ Nested!Init

\* Bound: four iterations in all, two loops or a loop and two single tasks.
FewIterations == Cardinality({<<j, i>> \in Jobs \X (1..2) : i <= job'[j].kind.n}) <= 4

MCNext ==
  /\ UNCHANGED setting
  /\ \/ setting = "ordered" /\ Next /\ FewIterations
     \/ setting = "nesting" /\ Nested!Next

MCSpec == MCInit /\ [][MCNext]_<<setting, vars>>
=============================================================================
