-------------------------- MODULE ConcurrencyProofs --------------------------
(* Theorems about SpinLock and AtomicWord, for any finite set of threads and *)
(* any width of the word.                                                    *)
(*                                                                           *)
(* SpinLock: mutual exclusion is not inductive; it needs that the flag is    *)
(* set while a thread is inside.  That it is set ONLY then is a theorem of   *)
(* its own, from the same invariant.                                         *)
(*                                                                           *)
(* AtomicWord: no wake-up is missed, as every operation is followed by its   *)
(* notification and a thread falls asleep only on the value of the word; and *)
(* no increment is lost, as the word is above every value that an increment  *)
(* was answered.                                                             *)
EXTENDS SpinLock, AtomicWord, FiniteSetTheorems, TLAPS

LockInv == lockTypeOK /\ FlagIsHeld /\ MutualExclusion

\* What a step does to the place of a thread.
LEMMA Moved ==
  ASSUME lockTypeOK, NEW t \in Lockers, NEW from, NEW to \in Places, Move(t, from, to)
  PROVE  /\ at[t] = from /\ at'[t] = to
         /\ \A u \in Lockers \ {t} : at'[u] = at[u]
         /\ at' \in [Lockers -> Places]
BY DEF lockTypeOK, Move

LEMMA InitInv == lockInit => LockInv
BY DEF lockInit, LockInv, lockTypeOK, Places, FlagIsHeld, MutualExclusion

\* A step that leaves the flag alone and neither enters nor leaves.
LEMMA Outside ==
  ASSUME LockInv, NEW t \in Lockers, NEW from, NEW to \in Places \ {"inside"},
         from # "inside", Move(t, from, to), lockState' = lockState
  PROVE  LockInv'
<1>1. /\ at[t] = from /\ at'[t] = to
      /\ \A u \in Lockers \ {t} : at'[u] = at[u]
      /\ at' \in [Lockers -> Places]
  BY Moved DEF LockInv
<1>2. \A u \in Lockers : at'[u] = "inside" <=> at[u] = "inside"
  BY <1>1
<1> QED
  BY <1>1, <1>2 DEF LockInv, lockTypeOK, FlagIsHeld, MutualExclusion

\* test_and_set: the thread that found the flag clear finds nobody inside.
LEMMA Tested ==
  ASSUME LockInv, NEW t \in Lockers, NEW from, NEW beaten \in Places \ {"inside"},
         from # "inside", TestAndSet(t, from, beaten)
  PROVE  LockInv'
<1> DEFINE to == IF lockState THEN beaten ELSE "inside"
<1>1. Move(t, from, to) /\ lockState' = TRUE /\ to \in Places
  BY DEF TestAndSet, Places
<1>2. /\ at[t] = from /\ at'[t] = to
      /\ \A u \in Lockers \ {t} : at'[u] = at[u]
      /\ at' \in [Lockers -> Places]
  BY <1>1, Moved DEF LockInv
<1>3. CASE lockState
  <2>1. \A u \in Lockers : at'[u] = "inside" <=> at[u] = "inside"
    BY <1>2, <1>3
  <2> QED
    BY <1>1, <1>2, <1>3, <2>1 DEF LockInv, lockTypeOK, FlagIsHeld, MutualExclusion
<1>4. CASE ~lockState
  <2>1. \A u \in Lockers : at[u] # "inside"
    BY <1>4 DEF LockInv, FlagIsHeld
  <2>2. \A u \in Lockers : at'[u] = "inside" <=> u = t
    BY <1>2, <1>4, <2>1
  <2> QED
    BY <1>1, <1>2, <2>2 DEF LockInv, lockTypeOK, FlagIsHeld, MutualExclusion
<1> QED
  BY <1>3, <1>4 DEF LockInv, lockTypeOK

\* unlock(): the thread that leaves was the only one inside.
LEMMA Unlocked ==
  ASSUME LockInv, NEW t \in Lockers, Unlock(t)
  PROVE  LockInv'
<1>1. /\ at[t] = "inside" /\ at'[t] = "idle"
      /\ \A u \in Lockers \ {t} : at'[u] = at[u]
      /\ at' \in [Lockers -> Places]
  BY Moved DEF LockInv, Unlock, Places
<1>2. \A u \in Lockers : at'[u] # "inside"
  BY <1>1 DEF LockInv, MutualExclusion
<1> QED
  BY <1>1, <1>2 DEF LockInv, lockTypeOK, FlagIsHeld, MutualExclusion, Unlock

LEMMA NextInv ==
  ASSUME LockInv, [lockNext]_lockVars
  PROVE  LockInv'
<1>1. CASE UNCHANGED lockVars
  BY <1>1 DEF lockVars, LockInv, lockTypeOK, FlagIsHeld, MutualExclusion
<1>2. ASSUME NEW t \in Lockers, Lock(t) PROVE LockInv'
  BY <1>2, Outside DEF Lock, Places
<1>3. ASSUME NEW t \in Lockers, TryLock(t) PROVE LockInv'
  BY <1>3, Outside DEF TryLock, Places
<1>4. ASSUME NEW t \in Lockers, GiveUp(t) PROVE LockInv'
  BY <1>4, Outside DEF GiveUp, Places
<1>5. ASSUME NEW t \in Lockers, Acquire(t) PROVE LockInv'
  BY <1>5, Tested DEF Acquire, Places
<1>6. ASSUME NEW t \in Lockers, TryOnce(t) PROVE LockInv'
  BY <1>6, Tested DEF TryOnce, Places
<1>7. ASSUME NEW t \in Lockers, Spin(t) PROVE LockInv'
  BY <1>7, Outside DEF Spin, Places
<1>8. ASSUME NEW t \in Lockers, Unlock(t) PROVE LockInv'
  BY <1>8, Unlocked
<1> QED
  BY <1>1, <1>2, <1>3, <1>4, <1>5, <1>6, <1>7, <1>8 DEF lockNext, lockStep

LEMMA AlwaysInv == lockSpec => []LockInv
BY InitInv, NextInv, PTL DEF lockSpec

\* Two threads are never inside the lock together, in any interleaving of
\* lock(), tryLock() and unlock() (spin_lock_mutex-inl.hpp).
THEOREM LockExcludes == lockSpec => []MutualExclusion
<1>1. LockInv => MutualExclusion
  BY DEF LockInv
<1> QED
  BY <1>1, AlwaysInv, PTL

\* The flag is set exactly while a thread is inside: a refused tryLock() was
\* refused by somebody, and unlock() never clears the flag of another thread.
THEOREM FlagTellsTheTruth == lockSpec => []FlagIsHeld
<1>1. LockInv => FlagIsHeld
  BY DEF LockInv
<1> QED
  BY <1>1, AlwaysInv, PTL

-----------------------------------------------------------------------------
(* AtomicWord: the calls of the threads.                                     *)

WaitingAt == {"idle", "futex", "asleep", "reload", "relock", "predicate", "block"}
ChangingAt == {"idle", "builtin", "load", "exchange", "notify"}
Before == {"builtin", "load", "exchange"}  \* the operation is still to come

\* Every thread has a call of its kind, and sleeps exactly while it is in sleepers.
CallsInv ==
  /\ DOMAIN frame = Actors
  /\ \A t \in Actors : frame[t] = Frame(frame[t].pc, frame[t].old, frame[t].kind)
  /\ \A t \in Actors : frame[t].pc \in IF t \in waiters THEN WaitingAt ELSE ChangingAt
  /\ \A t \in Actors : t \in sleepers <=> frame[t].pc = "asleep"
  /\ sleepers \subseteq Actors /\ waiters \subseteq Actors

\* A step of one thread changes its call and no other.
Moves(t, f) ==
  /\ DOMAIN frame' = Actors /\ frame'[t] = f
  /\ \A u \in Actors : u # t => frame'[u] = frame[u]

LEMMA FrameFields ==
  ASSUME NEW pc, NEW old, NEW kind
  PROVE  /\ Frame(pc, old, kind).pc = pc /\ Frame(pc, old, kind).old = old
         /\ Frame(pc, old, kind).kind = kind
BY DEF Frame

LEMMA BecomeMoves ==
  ASSUME CallsInv, NEW t \in Actors, NEW f, Become(t, f)
  PROVE  Moves(t, f)
BY DEF CallsInv, Become, Moves

LEMMA GotoMoves ==
  ASSUME CallsInv, NEW t \in Actors, NEW pc, Goto(t, pc)
  PROVE  Moves(t, Frame(pc, frame[t].old, frame[t].kind))
<1>1. PICK f : f = frame[t]
  OBVIOUS
<1>2. f = Frame(f.pc, f.old, f.kind)
  BY <1>1 DEF CallsInv
<1>3. PICK o, k : f = [pc |-> f.pc, old |-> o, kind |-> k] /\ o = f.old /\ k = f.kind
  BY <1>2 DEF Frame
<1>4. [f EXCEPT !.pc = pc] = Frame(pc, o, k)
  BY <1>3 DEF Frame
<1>5. frame' = [frame EXCEPT ![t] = [f EXCEPT !.pc = pc]]
  BY <1>1 DEF Goto
<1>6. DOMAIN frame = Actors
  BY DEF CallsInv
<1> QED
  BY <1>1, <1>3, <1>4, <1>5, <1>6 DEF Moves

\* The loop of perform() sees another value.
LEMMA ReseesMoves ==
  ASSUME CallsInv, NEW t \in Actors, NEW old,
         Become(t, [frame[t] EXCEPT !.old = old])
  PROVE  Moves(t, Frame(frame[t].pc, old, frame[t].kind))
<1>1. PICK f : f = frame[t]
  OBVIOUS
<1>2. f = Frame(f.pc, f.old, f.kind)
  BY <1>1 DEF CallsInv
<1>3. PICK k, p : f = [pc |-> p, old |-> f.old, kind |-> k] /\ k = f.kind /\ p = f.pc
  BY <1>2 DEF Frame
<1>4. [f EXCEPT !.old = old] = Frame(p, old, k)
  BY <1>3 DEF Frame
<1>5. frame' = [frame EXCEPT ![t] = [f EXCEPT !.old = old]]
  BY <1>1 DEF Become
<1>6. DOMAIN frame = Actors
  BY DEF CallsInv
<1> QED
  BY <1>1, <1>3, <1>4, <1>5, <1>6 DEF Moves

\* A step that puts a thread to another place and neither puts it to sleep nor
\* wakes anybody.
LEMMA AwakeStep ==
  ASSUME CallsInv, NEW t \in Actors, NEW pc, NEW old, NEW kind,
         Moves(t, Frame(pc, old, kind)),
         pc \in IF t \in waiters THEN WaitingAt ELSE ChangingAt,
         pc # "asleep", frame[t].pc # "asleep",
         sleepers' = sleepers, waiters' = waiters
  PROVE  CallsInv'
BY FrameFields DEF CallsInv, Moves

LEMMA SleepStep ==
  ASSUME CallsInv, NEW t \in waiters, NEW old, NEW kind,
         Moves(t, Frame("asleep", old, kind)),
         sleepers' = sleepers \cup {t}, waiters' = waiters
  PROVE  CallsInv'
BY FrameFields DEF CallsInv, Moves, WaitingAt

\* What notify does to the calls of the threads S that sleep.
LEMMA WakeStep ==
  ASSUME CallsInv, NEW t \in Actors, frame[t].pc = "notify", NEW S \in SUBSET sleepers,
         frame' = [Rouse(S) EXCEPT ![t] = Idle],
         sleepers' = sleepers \ S, waiters' = waiters, osSpecified' = osSpecified
  PROVE  /\ CallsInv' /\ frame'[t] = Idle
         /\ \A u \in Actors : u # t /\ u \notin S => frame'[u] = frame[u]
<1>1. PICK f : f = [u \in Actors |-> IF u \in S THEN [frame[u] EXCEPT !.pc = WokenTo(u)] ELSE frame[u]]
  OBVIOUS
<1>2. frame' = [f EXCEPT ![t] = Idle]
  BY <1>1 DEF Rouse
<1>3. frame'[t] = Idle /\ DOMAIN frame' = Actors /\ \A u \in Actors : u # t => frame'[u] = f[u]
  BY <1>1, <1>2
<1>4. t \notin sleepers /\ t \notin waiters
  BY DEF CallsInv, WaitingAt
<1>5. ASSUME NEW u \in Actors, u \notin S PROVE f[u] = frame[u]
  BY <1>1, <1>5
<1>6. ASSUME NEW u \in S
      PROVE  /\ u \in Actors /\ u \in waiters
             /\ f[u] = Frame(WokenTo(u), frame[u].old, frame[u].kind)
  <2>1. u \in Actors /\ frame[u].pc = "asleep"
    BY DEF CallsInv
  <2>2. u \in waiters
    BY <2>1 DEF CallsInv, ChangingAt
  <2>3. PICK g : g = frame[u]
    OBVIOUS
  <2>4. PICK o, k : g = [pc |-> g.pc, old |-> o, kind |-> k] /\ o = g.old /\ k = g.kind
    BY <2>1, <2>3 DEF CallsInv, Frame
  <2>5. f[u] = [g EXCEPT !.pc = WokenTo(u)]
    BY <1>1, <2>1, <2>3
  <2>6. f[u] = Frame(WokenTo(u), o, k)
    BY <2>4, <2>5 DEF Frame
  <2> QED
    BY <2>1, <2>2, <2>3, <2>4, <2>6
<1>7. \A u \in S : /\ f[u].pc = WokenTo(u) /\ f[u] = Frame(f[u].pc, f[u].old, f[u].kind)
                   /\ WokenTo(u) \in WaitingAt /\ WokenTo(u) # "asleep"
  BY <1>6, FrameFields DEF WokenTo, WaitingAt
<1>8. \A u \in Actors : frame'[u] = Frame(frame'[u].pc, frame'[u].old, frame'[u].kind)
  <2>1. Idle = Frame(Idle.pc, Idle.old, Idle.kind)
    BY FrameFields DEF Idle
  <2> QED
    BY <1>3, <1>5, <1>7, <2>1 DEF CallsInv
<1>9. \A u \in Actors : frame'[u].pc \in IF u \in waiters THEN WaitingAt ELSE ChangingAt
  <2>1. Idle.pc = "idle"
    BY FrameFields DEF Idle
  <2>2. \A u \in S : u \in waiters /\ u # t
    BY <1>4, <1>6
  <2> QED
    BY <1>3, <1>4, <1>5, <1>7, <2>1, <2>2 DEF CallsInv, ChangingAt
<1>10. \A u \in Actors : u \in sleepers \ S <=> frame'[u].pc = "asleep"
  <2>1. Idle.pc # "asleep"
    BY FrameFields DEF Idle
  <2> QED
    BY <1>3, <1>4, <1>5, <1>7, <2>1 DEF CallsInv
<1> QED
  BY <1>3, <1>5, <1>8, <1>9, <1>10 DEF CallsInv

LEMMA CallsInit == wordInit => CallsInv
<1> SUFFICES ASSUME wordInit PROVE CallsInv
  OBVIOUS
<1>1. frame = [t \in Actors |-> Idle] /\ sleepers = {} /\ waiters \subseteq Actors
  BY DEF wordInit
<1>2. Idle = Frame(Idle.pc, Idle.old, Idle.kind) /\ Idle.pc = "idle"
  BY FrameFields DEF Idle
<1> QED
  BY <1>1, <1>2 DEF CallsInv, WaitingAt, ChangingAt

-----------------------------------------------------------------------------
(* With futexes no wake-up is missed.                                        *)

NotifyInv ==
  osSpecified => \A t \in sleepers :
    word # frame[t].old => \E u \in Actors \ waiters : frame[u].pc = "notify"
SleepInv == CallsInv /\ NotifyInv

\* A step that leaves the word, the sleepers and the pending notifications.
LEMMA QuietStep ==
  ASSUME SleepInv, NEW t \in Actors, NEW pc, NEW old, NEW kind,
         Moves(t, Frame(pc, old, kind)),
         pc \in IF t \in waiters THEN WaitingAt ELSE ChangingAt,
         pc # "asleep", frame[t].pc # "asleep", frame[t].pc # "notify",
         UNCHANGED <<osSpecified, word, sleepers, waiters>>
  PROVE  SleepInv'
<1>1. CallsInv'
  BY AwakeStep DEF SleepInv
<1>2. t \notin sleepers /\ sleepers \subseteq Actors
  BY DEF SleepInv, CallsInv
<1>3. \A u \in Actors : u # t => frame'[u] = frame[u]
  BY DEF Moves
<1>4. ASSUME osSpecified, NEW u \in sleepers, word # frame'[u].old
      PROVE  \E v \in Actors \ waiters : frame'[v].pc = "notify"
  <2>1. word # frame[u].old
    BY <1>2, <1>3, <1>4
  <2>2. PICK v \in Actors \ waiters : frame[v].pc = "notify"
    BY <1>4, <2>1 DEF SleepInv, NotifyInv
  <2> QED
    BY <1>3, <2>2
<1> QED
  BY <1>1, <1>4 DEF SleepInv, NotifyInv

\* A step after which the thread is about to notify.
LEMMA ChangingStep ==
  ASSUME SleepInv, NEW t \in Actors, t \notin waiters, frame[t].pc # "asleep",
         Goto(t, "notify"), UNCHANGED <<osSpecified, sleepers, waiters>>
  PROVE  SleepInv'
<1>1. Moves(t, Frame("notify", frame[t].old, frame[t].kind))
  BY GotoMoves DEF SleepInv
<1>2. CallsInv'
  BY <1>1, AwakeStep DEF SleepInv, ChangingAt
<1>3. frame'[t].pc = "notify"
  BY <1>1, FrameFields DEF Moves
<1> QED
  BY <1>2, <1>3 DEF SleepInv, NotifyInv

\* A waiter that goes to sleep, on the value of the word if there are futexes.
LEMMA SleepingStep ==
  ASSUME SleepInv, NEW t \in waiters, t \in Actors, Goto(t, "asleep"),
         frame[t].pc # "notify", osSpecified => word = frame[t].old,
         sleepers' = sleepers \cup {t}, UNCHANGED <<osSpecified, word, waiters>>
  PROVE  SleepInv'
<1>1. Moves(t, Frame("asleep", frame[t].old, frame[t].kind))
  BY GotoMoves DEF SleepInv
<1>2. CallsInv'
  BY <1>1, SleepStep DEF SleepInv
<1>3. frame'[t].old = frame[t].old
  BY <1>1, FrameFields DEF Moves
<1>4. \A u \in Actors : u # t => frame'[u] = frame[u]
  BY <1>1 DEF Moves
<1>5. sleepers \subseteq Actors
  BY DEF SleepInv, CallsInv
<1>6. ASSUME osSpecified, NEW u \in sleepers', word # frame'[u].old
      PROVE  \E v \in Actors \ waiters : frame'[v].pc = "notify"
  <2>1. u # t
    BY <1>3, <1>6
  <2>2. u \in sleepers /\ word # frame[u].old
    BY <1>4, <1>5, <1>6, <2>1
  <2>3. PICK v \in Actors \ waiters : frame[v].pc = "notify"
    BY <1>6, <2>2 DEF SleepInv, NotifyInv
  <2> QED
    BY <1>4, <2>3
<1> QED
  BY <1>2, <1>6 DEF SleepInv, NotifyInv

\* A notification that leaves nobody asleep.
LEMMA NotifyingStep ==
  ASSUME SleepInv, NEW t \in Actors, frame[t].pc = "notify",
         frame' = [Rouse(sleepers) EXCEPT ![t] = Idle],
         sleepers' = {}, UNCHANGED <<osSpecified, waiters>>
  PROVE  SleepInv'
<1>1. CallsInv'
  <2>1. sleepers' = sleepers \ sleepers /\ sleepers \in SUBSET sleepers
    OBVIOUS
  <2> QED
    BY <2>1, WakeStep DEF SleepInv
<1> QED
  BY <1>1 DEF SleepInv, NotifyInv

\* notifyOne() has a single thread to wake.
LEMMA SingleSleeper ==
  ASSUME CallsInv, Cardinality(waiters) = 1, NEW u \in sleepers
  PROVE  sleepers = {u}
<1>1. IsFiniteSet(waiters)
  BY WordAssumption, FS_Subset DEF CallsInv
<1>2. \A v \in sleepers : v \in waiters
  BY DEF CallsInv, ChangingAt
<1>3. PICK w : waiters = {w}
  BY <1>1, FS_Singleton
<1> QED
  BY <1>2, <1>3

LEMMA NotifyAllKeeps ==
  ASSUME SleepInv, NEW t \in Actors, NotifyAll(t)
  PROVE  SleepInv'
BY NotifyingStep DEF NotifyAll

LEMMA NotifyOneKeeps ==
  ASSUME SleepInv, NEW t \in Actors, NotifyOneOf(t)
  PROVE  SleepInv'
<1>1. CASE sleepers = {}
  <2>1. Become(t, Idle) /\ sleepers' = {} /\ frame[t].pc = "notify"
        /\ UNCHANGED <<osSpecified, waiters>>
    BY <1>1 DEF NotifyOneOf
  <2>2. Moves(t, Frame("idle", 0, "none"))
    BY <2>1, BecomeMoves DEF SleepInv, Idle
  <2>3. CallsInv'
    BY <1>1, <2>1, <2>2, AwakeStep DEF SleepInv, WaitingAt, ChangingAt
  <2> QED
    BY <2>1, <2>3 DEF SleepInv, NotifyInv
<1>2. CASE sleepers # {}
  <2>1. PICK u \in sleepers : sleepers' = sleepers \ {u} /\ frame' = [Rouse({u}) EXCEPT ![t] = Idle]
    BY <1>2 DEF NotifyOneOf
  <2>2. sleepers = {u}
    BY SingleSleeper DEF SleepInv, NotifyOneOf
  <2>3. sleepers' = {} /\ frame' = [Rouse(sleepers) EXCEPT ![t] = Idle]
    BY <2>1, <2>2
  <2> QED
    BY <2>3, NotifyingStep DEF NotifyOneOf
<1> QED
  BY <1>1, <1>2

LEMMA SleepStepKeeps == SleepInv /\ [wordNext]_wordVars => SleepInv'
<1> SUFFICES ASSUME SleepInv, [wordNext]_wordVars PROVE SleepInv'
  OBVIOUS
<1>1. CASE UNCHANGED wordVars
  BY <1>1 DEF wordVars, SleepInv, CallsInv, NotifyInv
<1> SUFFICES ASSUME NEW t \in Actors,
                    CallChange(t) \/ CallWaitOn(t) \/ SpuriousWake(t) \/ WordStep(t)
             PROVE  SleepInv'
  BY <1>1 DEF wordNext
<1>2. /\ frame[t].pc \in IF t \in waiters THEN WaitingAt ELSE ChangingAt
      /\ frame[t] = Idle => frame[t].pc = "idle"
      /\ CallsInv
  BY FrameFields DEF SleepInv, CallsInv, Idle
<1>3. CASE CallChange(t)
  <2>1. PICK kind : Become(t, Frame(IF kind \in Builtin THEN "builtin" ELSE "load", 0, kind))
    BY <1>3 DEF CallChange
  <2>2. PICK pc \in {"builtin", "load"} : Moves(t, Frame(pc, 0, kind))
    BY <1>2, <2>1, BecomeMoves
  <2>3. t \notin waiters /\ frame[t].pc = "idle" /\ UNCHANGED <<osSpecified, word, sleepers, waiters>>
    BY <1>2, <1>3 DEF CallChange
  <2>4. pc \in IF t \in waiters THEN WaitingAt ELSE ChangingAt
    BY <2>2, <2>3 DEF ChangingAt
  <2> QED
    BY <2>2, <2>3, <2>4, QuietStep
<1>4. CASE CallWaitOn(t)
  <2>1. PICK pc \in {"futex", "relock"} : Moves(t, Frame(pc, word, "wait"))
    BY <1>2, <1>4, BecomeMoves DEF CallWaitOn
  <2>2. t \in waiters /\ frame[t].pc = "idle" /\ UNCHANGED <<osSpecified, word, sleepers, waiters>>
    BY <1>2, <1>4 DEF CallWaitOn
  <2>3. pc \in IF t \in waiters THEN WaitingAt ELSE ChangingAt
    BY <2>1, <2>2 DEF WaitingAt
  <2> QED
    BY <2>1, <2>2, <2>3, QuietStep
<1>5. CASE SpuriousWake(t)
  <2>1. t \in sleepers /\ t \in waiters /\ frame[t].pc = "asleep"
    BY <1>2, <1>5 DEF SpuriousWake, CallsInv, ChangingAt
  <2>2. Moves(t, Frame(WokenTo(t), frame[t].old, frame[t].kind))
    BY <1>2, <1>5, GotoMoves DEF SpuriousWake
  <2>3. sleepers' = sleepers \ {t} /\ UNCHANGED <<osSpecified, word, waiters>>
    BY <1>5 DEF SpuriousWake
  <2>4. WokenTo(t) \in WaitingAt /\ WokenTo(t) # "asleep" /\ WokenTo(t) # "notify"
    BY DEF WokenTo, WaitingAt
  <2>5. CallsInv'
    BY <1>2, <2>1, <2>2, <2>3, <2>4, FrameFields DEF CallsInv, Moves
  <2>6. \A u \in Actors : u # t => frame'[u] = frame[u]
    BY <2>2 DEF Moves
  <2>7. ASSUME osSpecified, NEW u \in sleepers \ {t}, word # frame'[u].old
        PROVE  \E v \in Actors \ waiters : frame'[v].pc = "notify"
    <3>1. u \in Actors /\ word # frame[u].old
      BY <1>2, <2>6, <2>7 DEF CallsInv
    <3>2. PICK v \in Actors \ waiters : frame[v].pc = "notify"
      BY <2>7, <3>1 DEF SleepInv, NotifyInv
    <3> QED
      BY <2>1, <2>6, <3>2
  <2> QED
    BY <2>3, <2>5, <2>7 DEF SleepInv, NotifyInv
<1>6. CASE BuiltinStep(t)
  BY <1>2, <1>6, ChangingStep DEF BuiltinStep, WaitingAt
<1>7. CASE PerformLoad(t)
  <2>1. Moves(t, Frame("exchange", word, frame[t].kind))
    BY <1>2, <1>7, BecomeMoves DEF PerformLoad
  <2>2. t \notin waiters /\ frame[t].pc = "load" /\ UNCHANGED <<osSpecified, word, sleepers, waiters>>
    BY <1>2, <1>7 DEF PerformLoad, WaitingAt
  <2>3. "exchange" \in IF t \in waiters THEN WaitingAt ELSE ChangingAt
    BY <2>2 DEF ChangingAt
  <2> QED
    BY <2>1, <2>2, <2>3, QuietStep
<1>8. CASE PerformExchange(t)
  <2>1. t \notin waiters /\ frame[t].pc = "exchange" /\ UNCHANGED <<osSpecified, sleepers, waiters>>
    BY <1>2, <1>8 DEF PerformExchange, WaitingAt
  <2>2. CASE word = frame[t].old
    BY <1>8, <2>1, <2>2, ChangingStep DEF PerformExchange
  <2>3. CASE word # frame[t].old
    <3>1. Become(t, [frame[t] EXCEPT !.old = word]) /\ UNCHANGED word
      BY <1>8, <2>3 DEF PerformExchange
    <3>2. Moves(t, Frame("exchange", word, frame[t].kind))
      BY <1>2, <2>1, <3>1, ReseesMoves
    <3>3. "exchange" \in IF t \in waiters THEN WaitingAt ELSE ChangingAt
      BY <2>1 DEF ChangingAt
    <3> QED
      BY <2>1, <3>1, <3>2, <3>3, QuietStep
  <2> QED
    BY <2>2, <2>3
<1>9. CASE NotifyAll(t)
  BY <1>9, NotifyAllKeeps
<1>10. CASE NotifyOneOf(t)
  BY <1>10, NotifyOneKeeps
<1>11. CASE Futex(t)
  <2>1. t \in waiters /\ frame[t].pc = "futex" /\ UNCHANGED <<osSpecified, word, waiters>>
    BY <1>2, <1>11 DEF Futex, ChangingAt
  <2>2. CASE word = frame[t].old
    BY <1>11, <2>1, <2>2, SleepingStep DEF Futex
  <2>3. CASE word # frame[t].old
    <3>1. Goto(t, "reload") /\ UNCHANGED sleepers
      BY <1>11, <2>3 DEF Futex
    <3>2. Moves(t, Frame("reload", frame[t].old, frame[t].kind))
      BY <1>2, <3>1, GotoMoves
    <3>3. "reload" \in IF t \in waiters THEN WaitingAt ELSE ChangingAt
      BY <2>1 DEF WaitingAt
    <3> QED
      BY <2>1, <3>1, <3>2, <3>3, QuietStep
  <2> QED
    BY <2>2, <2>3
<1>12. CASE Reload(t)
  <2>1. t \in waiters /\ frame[t].pc = "reload" /\ UNCHANGED <<osSpecified, word, sleepers, waiters>>
    BY <1>2, <1>12 DEF Reload, ChangingAt
  <2>2. PICK pc, old, kind :
         pc \in {"futex", "idle"} /\ Moves(t, Frame(pc, old, kind))
    BY <1>2, <1>12, GotoMoves, BecomeMoves DEF Reload, Idle
  <2>3. pc \in IF t \in waiters THEN WaitingAt ELSE ChangingAt
    BY <2>1, <2>2 DEF WaitingAt
  <2> QED
    BY <2>1, <2>2, <2>3, QuietStep
<1>13. CASE Relock(t)
  <2>1. t \in waiters /\ frame[t].pc = "relock" /\ UNCHANGED <<osSpecified, word, sleepers, waiters>>
    BY <1>2, <1>13 DEF Relock, ChangingAt
  <2>2. Moves(t, Frame("predicate", frame[t].old, frame[t].kind))
    BY <1>2, <1>13, GotoMoves DEF Relock
  <2>3. "predicate" \in IF t \in waiters THEN WaitingAt ELSE ChangingAt
    BY <2>1 DEF WaitingAt
  <2> QED
    BY <2>1, <2>2, <2>3, QuietStep
<1>14. CASE Predicate(t)
  <2>1. t \in waiters /\ frame[t].pc = "predicate" /\ UNCHANGED <<osSpecified, word, sleepers, waiters>>
    BY <1>2, <1>14 DEF Predicate, ChangingAt
  <2>2. PICK pc, old, kind :
         pc \in {"block", "idle"} /\ Moves(t, Frame(pc, old, kind))
    BY <1>2, <1>14, GotoMoves, BecomeMoves DEF Predicate, Idle
  <2>3. pc \in IF t \in waiters THEN WaitingAt ELSE ChangingAt
    BY <2>1, <2>2 DEF WaitingAt
  <2> QED
    BY <2>1, <2>2, <2>3, QuietStep
<1>15. CASE ~osSpecified /\ Block(t)
  <2>1. t \in waiters /\ frame[t].pc = "block"
    BY <1>2, <1>15 DEF Block, ChangingAt
  <2> QED
    BY <1>15, <2>1, SleepingStep DEF Block
<1> QED
  BY <1>3, <1>4, <1>5, <1>6, <1>7, <1>8, <1>9, <1>10, <1>11, <1>12, <1>13, <1>14, <1>15
  DEF WordStep, ChangeStep, OsWait, FallbackWait

\* With futexes no wake-up is missed (atomic.cpp): a thread asleep on a value
\* the word no longer has is about to be notified, however many threads wait,
\* change the word and are woken for no reason.
THEOREM NoWakeUpIsMissed == wordSpec => []SleepersAreNotified
<1>1. wordInit => SleepInv
  BY CallsInit DEF wordInit, SleepInv, NotifyInv
<1>2. SleepInv => SleepersAreNotified
  BY DEF SleepInv, NotifyInv, SleepersAreNotified, MissedBy
<1> QED
  BY <1>1, <1>2, SleepStepKeeps, PTL DEF wordSpec

-----------------------------------------------------------------------------
(* While increments are counted the word does not wrap around: it is at most *)
(* what the operations that are over have made of it, and the operations     *)
(* begun are not more than half of its values.                               *)

Half == Size \div 2
Counted == {"add", "perform", "max"}
Pending == {t \in Actors : frame[t].pc \in Before}

Tally ==
  /\ word \in Nat /\ changes \in Nat /\ changes <= MaxChanges
  /\ Cardinality(Pending) <= changes
  /\ \/ word + Cardinality(Pending) <= changes
     \/ word + Cardinality(Pending) <= Half + changes - 1
Answers ==
  /\ DOMAIN answered = WordValues
  /\ \A v \in WordValues : answered[v] \in {0, 1} /\ (answered[v] = 1 => v < word)
CountInv ==
  counting => Tally /\ Answers /\ \A t \in Pending : frame[t].kind \in Counted

LEMMA HalfOfSize == Size \in Int /\ Half \in Int /\ 2 * Half <= Size
<1>1. Size \in Int
  BY WordAssumption DEF Size
<1> HIDE DEF Size
<1> QED
  BY <1>1 DEF Half

LEMMA PendingIsFinite ==
  ASSUME TRUE
  PROVE  /\ IsFiniteSet(Pending) /\ Cardinality(Pending) \in Nat
         /\ \A t \in Pending : /\ IsFiniteSet(Pending \ {t})
                               /\ Cardinality(Pending \ {t}) = Cardinality(Pending) - 1
         /\ \A t \in Actors \ Pending : /\ IsFiniteSet(Pending \cup {t})
                                        /\ Cardinality(Pending \cup {t}) = Cardinality(Pending) + 1
<1>1. IsFiniteSet(Pending)
  BY WordAssumption, FS_Subset DEF Pending
<1> QED
  BY <1>1, FS_CardinalityType, FS_RemoveElement, FS_AddElement

LEMMA PendingMoves ==
  ASSUME CallsInv, NEW t \in Actors, NEW pc, NEW old, NEW kind, Moves(t, Frame(pc, old, kind))
  PROVE  /\ pc \in Before => Pending' = Pending \cup {t}
         /\ pc \notin Before => Pending' = Pending \ {t}
         /\ \A u \in Pending : u # t => frame'[u].kind = frame[u].kind
         /\ frame'[t].kind = kind
BY FrameFields DEF Moves, Pending

\* A step that leaves the word and the answers, and begins no operation.
LEMMA SameTally ==
  ASSUME CallsInv, CountInv, Pending' = Pending,
         \A u \in Pending : frame'[u].kind = frame[u].kind,
         UNCHANGED <<word, counting, changes, answered>>
  PROVE  CountInv'
<1> SUFFICES ASSUME counting PROVE (Tally /\ Answers)' /\ \A u \in Pending' : frame'[u].kind \in Counted
  BY DEF CountInv
<1>1. Tally'
  BY DEF CountInv, Tally
<1>2. Answers'
  BY DEF CountInv, Answers, WordValues
<1> QED
  BY <1>1, <1>2 DEF CountInv

LEMMA MovesSameTally ==
  ASSUME CallsInv, CountInv, NEW t \in Actors, NEW pc, NEW old, NEW kind,
         Moves(t, Frame(pc, old, kind)),
         \/ pc \in Before /\ frame[t].pc \in Before /\ kind = frame[t].kind
         \/ pc \notin Before /\ frame[t].pc \notin Before,
         UNCHANGED <<word, counting, changes, answered>>
  PROVE  CountInv'
<1>1. Pending' = Pending
  BY PendingMoves DEF Pending
<1>2. \A u \in Pending : frame'[u].kind = frame[u].kind
  BY PendingMoves DEF Pending
<1> QED
  BY <1>1, <1>2, SameTally

\* An operation that is begun is pending and counts.
LEMMA BeginCounts ==
  ASSUME CallsInv, CountInv, NEW t \in Actors, CallChange(t)
  PROVE  CountInv'
<1> SUFFICES ASSUME counting PROVE (Tally /\ Answers)' /\ \A u \in Pending' : frame'[u].kind \in Counted
  BY DEF CountInv, CallChange
<1>1. PICK kind \in Operations : Become(t, Frame(IF kind \in Builtin THEN "builtin" ELSE "load", 0, kind))
  BY DEF CallChange
<1>2. PICK pc \in Before : Moves(t, Frame(pc, 0, kind))
  BY <1>1, BecomeMoves DEF Before
<1>3. kind \in Counted
  BY <1>1 DEF Operations, Counted
<1>4. t \notin Pending
  BY FrameFields DEF CallChange, Pending, Before, Idle
<1>5. Pending' = Pending \cup {t}
  BY <1>2, PendingMoves
<1>6. \A u \in Pending' : frame'[u].kind \in Counted
  BY <1>2, <1>3, <1>5, PendingMoves DEF CountInv
<1>7. PICK n \in Nat : n = Cardinality(Pending) /\ Cardinality(Pending') = n + 1
  BY <1>4, <1>5, PendingIsFinite
<1>8. word' = word /\ changes' = changes + 1 /\ changes < MaxChanges /\ answered' = answered
  BY DEF CallChange
<1>9. /\ word \in Nat /\ changes \in Nat /\ n <= changes
      /\ word + n <= changes \/ word + n <= Half + changes - 1
  BY <1>7 DEF CountInv, Tally
<1>10. Tally'
  BY <1>7, <1>8, <1>9, WordAssumption, HalfOfSize DEF Tally, Half
<1>11. Answers'
  BY <1>8 DEF CountInv, Answers, WordValues
<1> QED
  BY <1>6, <1>10, <1>11

\* The step that changes the word: increments are answered a value the word
\* never comes back to.
LEMMA ChangeCounts ==
  ASSUME MaxChanges <= Half,
         CallsInv, CountInv, NEW t \in Pending, Goto(t, "notify"),
         word' = Func(frame[t].kind, word), Draw(frame[t].kind, word),
         UNCHANGED <<counting, changes>>
  PROVE  CountInv'
<1> SUFFICES ASSUME counting PROVE (Tally /\ Answers)' /\ \A u \in Pending' : frame'[u].kind \in Counted
  BY DEF CountInv
<1>1. t \in Actors
  BY DEF Pending
<1>2. Moves(t, Frame("notify", frame[t].old, frame[t].kind))
  BY <1>1, GotoMoves
<1>3. Pending' = Pending \ {t} /\ \A u \in Pending' : frame'[u].kind \in Counted
  BY <1>1, <1>2, PendingMoves DEF Before, CountInv
<1>4. PICK n \in Nat : n + 1 = Cardinality(Pending) /\ Cardinality(Pending') = n
  <2>1. PICK m \in Nat : m = Cardinality(Pending)
    BY PendingIsFinite
  <2>2. Cardinality(Pending \ {t}) = m - 1
    BY <2>1, PendingIsFinite
  <2>3. Cardinality(Pending \ {t}) \in Nat
    BY PendingIsFinite, FS_CardinalityType
  <2> QED
    BY <1>3, <2>1, <2>2, <2>3
<1>5. PICK h \in Int, s \in Int : h = Half /\ s = Size /\ 2 * h <= s
  BY HalfOfSize
<1>6. PICK c \in Nat, w \in Nat :
        /\ c = changes /\ w = word /\ c <= h /\ n + 1 <= c
        /\ w + (n + 1) <= c \/ w + (n + 1) <= h + c - 1
  BY <1>4, <1>5, WordAssumption DEF CountInv, Tally
<1>7. w + 1 < s
  BY <1>5, <1>6
<1>8. /\ DOMAIN answered = WordValues
      /\ \A v \in WordValues : answered[v] \in {0, 1} /\ (answered[v] = 1 => v < w)
  BY <1>6 DEF CountInv, Answers
<1>9. WordValues = 0..(s - 1) /\ w \in WordValues
  BY <1>5, <1>6, <1>7 DEF WordValues
<1>10. frame[t].kind \in Counted
  BY DEF CountInv
<1>11. CASE frame[t].kind \in {"add", "perform"}
  <2>1. Func(frame[t].kind, word) = (w + 1) % s
    BY <1>5, <1>6, <1>11 DEF Func, Rmw
  <2>2. word' = w + 1
    <3>1. (w + 1) % s = w + 1
      BY <1>5, <1>6, <1>7
    <3> QED
      BY <2>1, <3>1
  <2>3. answered' = [answered EXCEPT ![w] = @ + 1]
    BY <1>6, <1>11 DEF Draw
  <2>4. answered[w] = 0
    BY <1>6, <1>8, <1>9
  <2>5. DOMAIN answered' = WordValues
    BY <1>8, <2>3
  <2>6. ASSUME NEW v \in WordValues
        PROVE  answered'[v] \in {0, 1} /\ (answered'[v] = 1 => v < w + 1)
    <3>1. v \in Int
      BY <1>5, <1>9
    <3>2. CASE v = w
      <4>1. answered'[v] = 1
        BY <1>8, <1>9, <2>3, <2>4, <3>2
      <4> QED
        BY <1>6, <3>2, <4>1
    <3>3. CASE v # w
      <4>1. answered'[v] = answered[v]
        BY <1>8, <2>3, <3>3
      <4> QED
        BY <1>6, <1>8, <3>1, <4>1
    <3> QED
      BY <3>2, <3>3
  <2>7. Answers'
    BY <2>2, <2>5, <2>6 DEF Answers, WordValues
  <2>8. Tally'
    <3>1. /\ (w + 1) + n <= c \/ (w + 1) + n <= h + c - 1
          /\ n <= c
      BY <1>5, <1>6
    <3>2. changes' = c /\ c <= MaxChanges
      BY <1>6 DEF CountInv, Tally
    <3> QED
      BY <1>4, <1>5, <1>6, <2>2, <3>1, <3>2 DEF Tally, Half
  <2> QED
    BY <1>3, <2>7, <2>8
<1>12. CASE frame[t].kind = "max"
  <2>1. word' = Highest(w, h)
    BY <1>5, <1>6, <1>12 DEF Func, Rmw, Half
  <2>2. PICK x \in Nat : x = word' /\ x >= w /\ (x = w \/ x = h)
    BY <1>5, <1>6, <2>1 DEF Highest
  <2>3. answered' = answered
    BY <1>12 DEF Draw
  <2>4. \A v \in WordValues : v < w => v < x
    BY <1>5, <1>6, <1>9, <2>2
  <2>5. Answers'
    BY <1>8, <2>2, <2>3, <2>4 DEF Answers, WordValues
  <2>6. Tally'
    <3>1. x + n <= c \/ x + n <= h + c - 1
      BY <1>5, <1>6, <2>2
    <3>2. changes' = c /\ c <= MaxChanges
      BY <1>6 DEF CountInv, Tally
    <3> QED
      BY <1>4, <1>5, <1>6, <2>2, <3>1, <3>2 DEF Tally, Half
  <2> QED
    BY <1>3, <2>5, <2>6
<1> QED
  BY <1>10, <1>11, <1>12 DEF Counted

\* notify: nothing is pending that was not.
LEMMA WakeCounts ==
  ASSUME CallsInv, CountInv, NEW t \in Actors, frame[t].pc = "notify", NEW S \in SUBSET sleepers,
         frame' = [Rouse(S) EXCEPT ![t] = Idle],
         sleepers' = sleepers \ S,
         UNCHANGED <<osSpecified, word, waiters, counting, changes, answered>>
  PROVE  CountInv'
<1>1. /\ CallsInv' /\ frame'[t] = Idle
      /\ \A u \in Actors : u # t /\ u \notin S => frame'[u] = frame[u]
  BY WakeStep
<1>2. \A u \in S : u \in waiters /\ u \in Actors
  BY DEF CallsInv, ChangingAt
<1>3. \A u \in waiters : frame[u].pc \notin Before /\ frame'[u].pc \notin Before
  BY <1>1 DEF CallsInv, WaitingAt, Before
<1>4. Idle.pc \notin Before /\ frame[t].pc \notin Before
  BY FrameFields DEF Idle, Before
<1>5. Pending' = Pending
  BY <1>1, <1>2, <1>3, <1>4 DEF Pending
<1>6. \A u \in Pending : frame'[u].kind = frame[u].kind
  BY <1>1, <1>2, <1>3, <1>4 DEF Pending
<1> QED
  BY <1>5, <1>6, SameTally

LEMMA CountStep ==
  ASSUME MaxChanges <= Half
  PROVE  SleepInv /\ CountInv /\ [wordNext]_wordVars => CountInv'
<1> SUFFICES ASSUME CallsInv, CountInv, [wordNext]_wordVars PROVE CountInv'
  BY DEF SleepInv
<1>1. CASE UNCHANGED wordVars
  <2>1. Pending' = Pending /\ \A u \in Pending : frame'[u].kind = frame[u].kind
    BY <1>1 DEF wordVars, Pending
  <2> QED
    BY <1>1, <2>1, SameTally DEF wordVars
<1> SUFFICES ASSUME NEW t \in Actors,
                    CallChange(t) \/ CallWaitOn(t) \/ SpuriousWake(t) \/ WordStep(t)
             PROVE  CountInv'
  BY <1>1 DEF wordNext
<1>2. /\ frame[t].pc \in IF t \in waiters THEN WaitingAt ELSE ChangingAt
      /\ frame[t] = Idle => frame[t].pc = "idle"
      /\ \A pc \in WaitingAt : pc \notin Before
      /\ t \in waiters => frame[t].pc \notin Before
  BY FrameFields DEF CallsInv, Idle, WaitingAt, Before
<1>3. CASE CallChange(t)
  BY <1>3, BeginCounts
<1>4. CASE CallWaitOn(t)
  <2>1. PICK pc \in WaitingAt : Moves(t, Frame(pc, word, "wait"))
    BY <1>4, BecomeMoves DEF CallWaitOn, WaitingAt
  <2>2. t \in waiters /\ UNCHANGED <<word, counting, changes, answered>>
    BY <1>4 DEF CallWaitOn
  <2> QED
    BY <1>2, <2>1, <2>2, MovesSameTally
<1>5. CASE SpuriousWake(t)
  <2>1. t \in waiters /\ UNCHANGED <<word, counting, changes, answered>>
    BY <1>5 DEF SpuriousWake, CallsInv, ChangingAt
  <2>2. PICK pc \in WaitingAt : Moves(t, Frame(pc, frame[t].old, frame[t].kind))
    BY <1>5, GotoMoves DEF SpuriousWake, WokenTo, WaitingAt
  <2> QED
    BY <1>2, <2>1, <2>2, MovesSameTally
<1>6. CASE BuiltinStep(t)
  <2>1. t \in Pending
    BY <1>6 DEF BuiltinStep, Pending, Before
  <2> QED
    BY <1>6, <2>1, ChangeCounts DEF BuiltinStep
<1>7. CASE PerformLoad(t)
  <2>1. Moves(t, Frame("exchange", word, frame[t].kind)) /\ frame[t].pc = "load"
        /\ UNCHANGED <<word, counting, changes, answered>>
    BY <1>7, BecomeMoves DEF PerformLoad
  <2> QED
    BY <2>1, MovesSameTally DEF Before
<1>8. CASE PerformExchange(t)
  <2>1. frame[t].pc = "exchange" /\ t \in Pending
    BY <1>8 DEF PerformExchange, Pending, Before
  <2>2. CASE word = frame[t].old
    BY <1>8, <2>1, <2>2, ChangeCounts DEF PerformExchange
  <2>3. CASE word # frame[t].old
    <3>1. Become(t, [frame[t] EXCEPT !.old = word]) /\ UNCHANGED <<word, counting, changes, answered>>
      BY <1>8, <2>3 DEF PerformExchange
    <3>2. Moves(t, Frame("exchange", word, frame[t].kind))
      BY <2>1, <3>1, ReseesMoves
    <3> QED
      BY <2>1, <3>1, <3>2, MovesSameTally DEF Before
  <2> QED
    BY <2>2, <2>3
<1>9. CASE NotifyAll(t)
  <2>1. sleepers' = sleepers \ sleepers /\ sleepers \in SUBSET sleepers
    BY <1>9 DEF NotifyAll
  <2> QED
    BY <1>9, <2>1, WakeCounts DEF NotifyAll
<1>10. CASE NotifyOneOf(t)
  <2>1. CASE sleepers = {}
    <3>1. Moves(t, Frame("idle", 0, "none"))
      BY <1>10, <2>1, BecomeMoves DEF NotifyOneOf, Idle
    <3>2. UNCHANGED <<word, counting, changes, answered>> /\ frame[t].pc = "notify"
      BY <1>10 DEF NotifyOneOf
    <3> QED
      BY <3>1, <3>2, MovesSameTally DEF Before
  <2>2. CASE sleepers # {}
    <3>1. PICK u \in sleepers : sleepers' = sleepers \ {u} /\ frame' = [Rouse({u}) EXCEPT ![t] = Idle]
      BY <1>10, <2>2 DEF NotifyOneOf
    <3>2. {u} \in SUBSET sleepers
      BY <3>1
    <3> QED
      BY <1>10, <3>1, <3>2, WakeCounts DEF NotifyOneOf
  <2> QED
    BY <2>1, <2>2
<1>11. CASE OsWait(t) \/ FallbackWait(t)
  <2>1. frame[t].pc \in {"futex", "reload", "relock", "predicate", "block"}
    BY <1>11 DEF OsWait, FallbackWait, Futex, Reload, Relock, Predicate, Block
  <2>2. t \in waiters
    BY <1>2, <2>1 DEF ChangingAt
  <2>3. UNCHANGED <<word, counting, changes, answered>>
    BY <1>11 DEF OsWait, FallbackWait, Futex, Reload, Relock, Predicate, Block
  <2>4. Become(t, Idle) \/ \E pc \in WaitingAt : Goto(t, pc)
    BY <1>11 DEF OsWait, FallbackWait, Futex, Reload, Relock, Predicate, Block, WaitingAt
  <2>5. PICK pc, old, kind :
         pc \in WaitingAt /\ Moves(t, Frame(pc, old, kind))
    <3>1. CASE Become(t, Idle)
      <4>1. Moves(t, Frame("idle", 0, "none"))
        BY <3>1, BecomeMoves DEF Idle
      <4> QED
        BY <4>1 DEF WaitingAt
    <3>2. CASE \E pc \in WaitingAt : Goto(t, pc)
      BY <3>2, GotoMoves
    <3> QED
      BY <2>4, <3>1, <3>2
  <2> QED
    BY <1>2, <2>2, <2>3, <2>5, MovesSameTally
<1> QED
  BY <1>3, <1>4, <1>5, <1>6, <1>7, <1>8, <1>9, <1>10, <1>11 DEF WordStep, ChangeStep

\* No increment is lost, be it one built-in operation or the loop of perform()
\* racing with others, as long as the operations are not so many that the word
\* may wrap around: no two increments are answered the same old value.
THEOREM NoIncrementIsLost ==
  ASSUME MaxChanges <= Size \div 2
  PROVE  wordSpec => []IncrementsAreDistinct
<1>1. wordInit => SleepInv
  BY CallsInit DEF wordInit, SleepInv, NotifyInv
<1>2. wordInit => CountInv
  <2> SUFFICES ASSUME wordInit PROVE Tally /\ Answers /\ Pending = {}
    BY DEF CountInv
  <2>1. Idle.pc \notin Before
    BY FrameFields DEF Idle, Before
  <2>2. Pending = {}
    BY <2>1 DEF wordInit, Pending
  <2>3. Cardinality(Pending) = 0
    BY <2>2, FS_EmptySet
  <2>4. Tally
    BY <2>3, WordAssumption DEF wordInit, Tally
  <2>5. Answers
    BY DEF wordInit, Answers
  <2> QED
    BY <2>2, <2>4, <2>5
<1>3. SleepInv /\ CountInv /\ [wordNext]_wordVars => CountInv'
  BY CountStep DEF Half
<1>4. CountInv => IncrementsAreDistinct
  <2> SUFFICES ASSUME CountInv, counting, NEW v \in WordValues PROVE answered[v] <= 1
    BY DEF IncrementsAreDistinct
  <2>1. answered[v] \in {0, 1}
    BY DEF CountInv, Answers
  <2> QED
    BY <2>1
<1> QED
  BY <1>1, <1>2, <1>3, <1>4, SleepStepKeeps, PTL DEF wordSpec
=============================================================================
