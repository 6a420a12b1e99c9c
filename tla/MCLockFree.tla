----------------------------- MODULE MCLockFree -----------------------------
(***************************************************************************)
(* The lock-free structures for TLC, three settings in one run:            *)
(*   "queue"   the whole LockFreeQueue over its two rings;                 *)
(*   "alloc"   the list of allocated elements (RingClient), empty at first,*)
(*             with more patience and one ticket more than the queue has   *)
(*             time for;                                                   *)
(*   "free"    the free list, full at first.                               *)
(* The initial state says which, and what the setting does not use rests.  *)
(***************************************************************************)
EXTENDS RingClient, LockFreeQueue, TLC

VARIABLE setting

Patient == INSTANCE RingClient WITH UpdateInterval <- 2, AMax <- 1, MaxTicket <- 6
Hasty == INSTANCE RingClient WITH UpdateInterval <- 2, AMax <- 1

MCInit ==
  /\ setting \in {"alloc", "free", "queue"}
  /\ Init /\ freeList = (setting = "free")
  /\ lockFreeInit

MCNext ==
  /\ UNCHANGED setting
  /\ \/ setting = "alloc" /\ Patient!Next /\ UNCHANGED lockFreeVars
     \/ setting = "free" /\ Hasty!Next /\ UNCHANGED lockFreeVars
     \/ setting = "queue" /\ lockFreeNext /\ UNCHANGED vars

MCSpec == MCInit /\ [][MCNext]_<<setting, vars, lockFreeVars>>

Symmetry == Permutations(Threads) \cup Permutations(Elements)
=============================================================================
