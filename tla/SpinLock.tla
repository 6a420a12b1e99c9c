------------------------------ MODULE SpinLock ------------------------------
(***************************************************************************)
(* zisc/concurrency/spin_lock_mutex-inl.hpp: a test-and-test-and-set lock. *)
(* A thread calls lock() or tryLock(), works, and calls unlock().          *)
(***************************************************************************)
CONSTANT Lockers

VARIABLES
  lockState,  \* lock_state_, the atomic flag
  at          \* thread -> where it is

lockVars == <<lockState, at>>

lockInit == lockState = FALSE /\ at = [t \in Lockers |-> "idle"]

Move(t, from, to) == at[t] = from /\ at' = [at EXCEPT ![t] = to]

Lock(t) == Move(t, "idle", "acquire") /\ UNCHANGED lockState
TryLock(t) == Move(t, "idle", "once") /\ UNCHANGED lockState

\* test_and_set: one atomic step that sets the flag and sees what it was.
TestAndSet(t, from, beaten) ==
  /\ Move(t, from, IF lockState THEN beaten ELSE "inside")
  /\ lockState' = TRUE

Acquire(t) == TestAndSet(t, "acquire", "spin")
TryOnce(t) == TestAndSet(t, "once", "refused")

\* MUTANT: the spinning thread takes a free flag for its own.
SpinEnters(t) == Move(t, "spin", IF lockState THEN "spin" ELSE "inside") /\ UNCHANGED lockState
\* The spinning thread reads the flag and yields; it tries again when it saw
\* the flag clear.
Spin(t) == Move(t, "spin", IF lockState THEN "spin" ELSE "acquire") /\ UNCHANGED lockState

GiveUp(t) == Move(t, "refused", "idle") /\ UNCHANGED lockState

\* MUTANT: unlock leaves the flag set.
UnlockNothing(t) == Move(t, "inside", "idle") /\ UNCHANGED lockState
Unlock(t) == Move(t, "inside", "idle") /\ lockState' = FALSE

lockStep(t) == Acquire(t) \/ TryOnce(t) \/ Spin(t) \/ Unlock(t)
lockNext == \E t \in Lockers : Lock(t) \/ TryLock(t) \/ GiveUp(t) \/ lockStep(t)

lockSpec == lockInit /\ [][lockNext]_lockVars
lockFair == \A t \in Lockers : WF_lockVars(lockStep(t))

-----------------------------------------------------------------------------
Places == {"idle", "acquire", "once", "spin", "refused", "inside"}
lockTypeOK == lockState \in BOOLEAN /\ at \in [Lockers -> Places]

\* Two threads are never inside the lock together, whether they came in
\* through lock() or tryLock().
MutualExclusion == \A t, u \in Lockers :
  at[t] = "inside" /\ at[u] = "inside" => t = u

\* The flag is set exactly while a thread is inside.
FlagIsHeld == lockState <=> \E t \in Lockers : at[t] = "inside"

\* A lock() in progress cannot be kept out while nobody holds the lock for
\* good: some thread gets in, over and over.
SomeoneEnters ==
  (\E t \in Lockers : at[t] \in {"acquire", "spin"}) ~> (\E t \in Lockers : at[t] = "inside")
=============================================================================
