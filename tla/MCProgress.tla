----------------------------- MODULE MCProgress -----------------------------
(***************************************************************************)
(* What waits, for TLC: the thread manager, the spin lock and the word, in *)
(* one run.  They share no state: the initial state says which of them a   *)
(* behaviour is about, and nothing is asked of the threads of the others.  *)
(***************************************************************************)
EXTENDS MCThreadManager, SpinLock, AtomicWord

VARIABLE part  \* the component at work

blockVars == <<lockVars, wordVars>>

\* The waiters are one of the actors, or two: which ones makes no difference.
One == {CHOOSE t \in Actors : TRUE}
Two == CHOOSE set \in SUBSET Actors : One \subseteq set /\ Cardinality(set) = 2

MCInit ==
  /\ part \in {"manager", "lock", "word"}
  /\ Init /\ lockInit /\ wordInit
  /\ waiters \in {One, Two}
  /\ part # "word" => osSpecified /\ ~counting /\ waiters = One

MCNext ==
  /\ UNCHANGED part
  /\ \/ part = "manager" /\ Next /\ InOrder /\ UNCHANGED blockVars
     \/ part = "lock" /\ lockNext /\ UNCHANGED <<vars, wordVars>>
     \/ part = "word" /\ wordNext /\ UNCHANGED <<vars, lockVars>>

\* Fairness, lockFair and wordFair, each for the behaviours that are about it.
BlockStep(t) == \/ part = "lock" /\ lockStep(t) /\ UNCHANGED wordVars
                \/ part = "word" /\ WordStep(t) /\ UNCHANGED lockVars
MCFair ==
  /\ \A t \in Workers : WF_vars(part = "manager" /\ WorkerStep(t))
  /\ \A t \in Threads : WF_vars(part = "manager" /\ CallStep(t))
  /\ \A t \in Actors : WF_blockVars(BlockStep(t))

MCSpec == MCInit /\ [][MCNext]_<<part, vars, blockVars>> /\ MCFair
-----------------------------------------------------------------------------
\* Nobody waits for ever: when threads spin on a free lock one of them enters,
\* and a wait returns once the word has changed and the change was notified (the
\* waiters differ in name only, one of them stands for both).
NobodyIsStranded ==
  SomeoneEnters /\ LET t == CHOOSE u \in One : TRUE IN Behind(t) ~> ~Behind(t)
=============================================================================
