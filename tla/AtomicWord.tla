----------------------------- MODULE AtomicWord -----------------------------
(***************************************************************************)
(* zisc/concurrency/atomic-inl.hpp, atomic_word.hpp and atomic.cpp: the    *)
(* read-modify-write operations on a word, the compare and exchange loop   *)
(* perform(), and wait / notify, by futex (AtomicWord<true>) or by a mutex *)
(* and a condition variable (the fallback).                                *)
(*                                                                         *)
(* The client is the one of atomic_wait_test and of a counter in           *)
(* atomic_test: each waiter waits for the word to leave the value it saw,  *)
(* a waker changes the word with one operation and then notifies.          *)
(***************************************************************************)
EXTENDS Integers, FiniteSets

CONSTANTS
  Actors,
  Width,       \* bits of the word
  MaxChanges   \* bound on the operations that change the word
ASSUME WordAssumption ==
  IsFiniteSet(Actors) /\ Width \in Nat \ {0} /\ MaxChanges \in Nat

VARIABLES
  osSpecified,  \* isSpecialized(): AtomicWord<true> on a system with futexes
  word,      \* word_
  frame,     \* thread -> its call: pc, the value it compares with, its operation
  sleepers,  \* the threads asleep on the word, in the kernel or on condition_
  mutexOf,   \* the holder of lock_, or NoOne
  waiters,   \* the threads that wait (the others change and notify)
  counting,  \* the wakers count: they only increment and raise the word
  changes,   \* operations begun so far
  answered      \* how often each old value was answered to an increment

wordVars == <<osSpecified, word, frame, sleepers, mutexOf, waiters, counting, changes, answered>>

Size == 2 ^ Width
WordValues == 0..(Size - 1)
NoOne == "no one"
Lowest(a, b) == IF a < b THEN a ELSE b
Highest(a, b) == IF a < b THEN b ELSE a

\* The bits that are set in a value, and the value of a set of bits.
BitsOf(v) == {i \in 0..(Width - 1) : (v \div 2 ^ i) % 2 = 1}
ValueOf(bits) == CHOOSE v \in WordValues : BitsOf(v) = bits

\* What an operation leaves in the word (a word of Width bits).
Rmw(kind, old, arg) ==
  CASE kind = "add" -> (old + arg) % Size
    [] kind = "sub" -> (old - arg) % Size
    [] kind = "min" -> Lowest(old, arg)
    [] kind = "max" -> Highest(old, arg)
    [] kind = "and" -> ValueOf(BitsOf(old) \cap BitsOf(arg))
    [] kind = "or" -> ValueOf(BitsOf(old) \cup BitsOf(arg))
    [] kind = "xor" -> ValueOf((BitsOf(old) \cup BitsOf(arg)) \ (BitsOf(old) \cap BitsOf(arg)))
    [] kind = "exchange" -> arg

Frame(pc, old, kind) == [pc |-> pc, old |-> old, kind |-> kind]
Idle == Frame("idle", 0, "none")
Become(t, f) == frame' = [frame EXCEPT ![t] = f]
Goto(t, pc) == frame' = [frame EXCEPT ![t].pc = pc]

wordInit ==
  /\ osSpecified \in BOOLEAN /\ word = 0
  /\ waiters \in SUBSET Actors \ {{}, Actors}
  /\ frame = [t \in Actors |-> Idle]
  /\ sleepers = {} /\ mutexOf = NoOne
  /\ counting \in BOOLEAN /\ changes = 0 /\ answered = [v \in WordValues |-> 0]

-----------------------------------------------------------------------------
(* Operations: one built-in atomic operation, or the loop of perform() with *)
(* a function, here one that adds 1; min() and max() go through the loop    *)
(* where there is no built-in operation for them.                           *)

Builtin == {"add", "sub", "and", "or", "xor", "exchange"}
Looping == {"perform", "min", "max"}
\* While increments are counted, nothing lowers the word.
Operations == IF counting THEN {"add", "perform", "max"} ELSE Builtin \cup Looping

Func(kind, old) == IF kind \in {"add", "sub", "perform"}
                     THEN Rmw(IF kind = "sub" THEN "sub" ELSE "add", old, 1)
                     ELSE Rmw(kind, old, Size \div 2)
Draw(kind, old) ==
  answered' = IF counting /\ kind \in {"add", "perform"}
                THEN [answered EXCEPT ![old] = @ + 1] ELSE answered

CallChange(t) ==
  /\ t \notin waiters /\ frame[t] = Idle /\ changes < MaxChanges
  /\ changes' = changes + 1
  /\ \E kind \in Operations : Become(t, Frame(IF kind \in Builtin THEN "builtin" ELSE "load", 0, kind))
  /\ UNCHANGED <<osSpecified, word, sleepers, mutexOf, waiters, counting, answered>>

BuiltinStep(t) ==
  /\ frame[t].pc = "builtin"
  /\ word' = Func(frame[t].kind, word)
  /\ Draw(frame[t].kind, word)
  /\ Goto(t, "notify")
  /\ UNCHANGED <<osSpecified, sleepers, mutexOf, waiters, counting, changes>>

PerformLoad(t) ==
  /\ frame[t].pc = "load"
  /\ Become(t, Frame("exchange", word, frame[t].kind))
  /\ UNCHANGED <<osSpecified, word, sleepers, mutexOf, waiters, counting, changes, answered>>

\* MUTANT: the new value is stored whatever the word has become.
PerformStore(t) ==
  /\ frame[t].pc = "exchange"
  /\ word' = Func(frame[t].kind, frame[t].old)
  /\ Draw(frame[t].kind, frame[t].old)
  /\ Goto(t, "notify")
  /\ UNCHANGED <<osSpecified, sleepers, mutexOf, waiters, counting, changes>>

\* compareAndExchange answers the value it found; the loop ends when that is
\* the value the function was applied to.
PerformExchange(t) ==
  /\ frame[t].pc = "exchange"
  /\ IF word = frame[t].old
       THEN /\ word' = Func(frame[t].kind, frame[t].old)
            /\ Draw(frame[t].kind, word)
            /\ Goto(t, "notify")
       ELSE /\ Become(t, [frame[t] EXCEPT !.old = word])
            /\ UNCHANGED <<word, answered>>
  /\ UNCHANGED <<osSpecified, sleepers, mutexOf, waiters, counting, changes>>

-----------------------------------------------------------------------------
(* notifyOne() for a single waiter, notifyAll() for several.               *)

WokenTo(t) == IF osSpecified THEN "reload" ELSE "relock"
Rouse(S) == [u \in Actors |-> IF u \in S THEN [frame[u] EXCEPT !.pc = WokenTo(u)] ELSE frame[u]]

\* MUTANT: the waker notifies one thread, however many sleep.
NotifyAllOne(t) ==
  /\ frame[t].pc = "notify" /\ Cardinality(waiters) # 1
  /\ \/ \E u \in sleepers : sleepers' = sleepers \ {u} /\ frame' = [Rouse({u}) EXCEPT ![t] = Idle]
     \/ sleepers = {} /\ Become(t, Idle) /\ UNCHANGED sleepers
  /\ UNCHANGED <<osSpecified, word, mutexOf, waiters, counting, changes, answered>>
NotifyAll(t) ==
  /\ frame[t].pc = "notify" /\ Cardinality(waiters) # 1
  /\ sleepers' = {}
  /\ frame' = [Rouse(sleepers) EXCEPT ![t] = Idle]
  /\ UNCHANGED <<osSpecified, word, mutexOf, waiters, counting, changes, answered>>

NotifyOneOf(t) ==
  /\ frame[t].pc = "notify" /\ Cardinality(waiters) = 1
  /\ \/ \E u \in sleepers : sleepers' = sleepers \ {u} /\ frame' = [Rouse({u}) EXCEPT ![t] = Idle]
     \/ sleepers = {} /\ Become(t, Idle) /\ UNCHANGED sleepers
  /\ UNCHANGED <<osSpecified, word, mutexOf, waiters, counting, changes, answered>>

-----------------------------------------------------------------------------
(* wait(word, old)                                                         *)

CallWaitOn(t) ==
  /\ t \in waiters /\ frame[t] = Idle
  /\ Become(t, Frame(IF osSpecified THEN "futex" ELSE "relock", word, "wait"))
  /\ UNCHANGED <<osSpecified, word, sleepers, mutexOf, waiters, counting, changes, answered>>

\* MUTANT: the kernel does not compare the word with the value.
FutexAlways(t) ==
  /\ frame[t].pc = "futex"
  /\ sleepers' = sleepers \cup {t} /\ Goto(t, "asleep")
  /\ UNCHANGED <<osSpecified, word, mutexOf, waiters, counting, changes, answered>>
\* FUTEX_WAIT compares and goes to sleep in one step of the kernel.
Futex(t) ==
  /\ frame[t].pc = "futex"
  /\ IF word = frame[t].old
       THEN sleepers' = sleepers \cup {t} /\ Goto(t, "asleep")
       ELSE UNCHANGED sleepers /\ Goto(t, "reload")
  /\ UNCHANGED <<osSpecified, word, mutexOf, waiters, counting, changes, answered>>

\* while (word->load() == old)
Reload(t) ==
  /\ frame[t].pc = "reload"
  /\ IF word = frame[t].old THEN Goto(t, "futex") ELSE Become(t, Idle)
  /\ UNCHANGED <<osSpecified, word, sleepers, mutexOf, waiters, counting, changes, answered>>

\* The fallback: the mutex, the predicate, and the wait of the condition
\* variable, which releases the mutex as it goes to sleep.
Relock(t) ==
  /\ frame[t].pc = "relock" /\ mutexOf = NoOne
  /\ mutexOf' = t /\ Goto(t, "predicate")
  /\ UNCHANGED <<osSpecified, word, sleepers, waiters, counting, changes, answered>>

Predicate(t) ==
  /\ frame[t].pc = "predicate"
  /\ IF word # frame[t].old THEN mutexOf' = NoOne /\ Become(t, Idle)
                            ELSE UNCHANGED mutexOf /\ Goto(t, "block")
  /\ UNCHANGED <<osSpecified, word, sleepers, waiters, counting, changes, answered>>

Block(t) ==
  /\ frame[t].pc = "block"
  /\ mutexOf' = NoOne /\ sleepers' = sleepers \cup {t} /\ Goto(t, "asleep")
  /\ UNCHANGED <<osSpecified, word, waiters, counting, changes, answered>>

\* The kernel and the condition variable may wake a thread for no reason.
SpuriousWake(t) ==
  /\ t \in sleepers
  /\ sleepers' = sleepers \ {t} /\ Goto(t, WokenTo(t))
  /\ UNCHANGED <<osSpecified, word, mutexOf, waiters, counting, changes, answered>>

ChangeStep(t) == \/ BuiltinStep(t) \/ PerformLoad(t) \/ PerformExchange(t)
                 \/ NotifyAll(t) \/ NotifyOneOf(t)
OsWait(t) == Futex(t) \/ Reload(t)
FallbackWait(t) == Relock(t) \/ Predicate(t) \/ Block(t)
WordStep(t) == ChangeStep(t) \/ (IF osSpecified THEN OsWait(t) ELSE FallbackWait(t))

wordNext == \E t \in Actors : CallChange(t) \/ CallWaitOn(t) \/ SpuriousWake(t) \/ WordStep(t)
wordFair == \A t \in Actors : WF_wordVars(WordStep(t))
wordSpec == wordInit /\ [][wordNext]_wordVars /\ wordFair

-----------------------------------------------------------------------------
(* Properties                                                              *)

\* No increment is lost, be it one built-in operation or the loop of perform()
\* racing with others: while nothing lowers the word, no two increments are
\* answered the same old value.
IncrementsAreDistinct == counting => \A v \in WordValues : answered[v] <= 1

\* With futexes no wake-up is missed: a thread asleep on a value the word no
\* longer has is about to be notified.
MissedBy(t) == t \in sleepers /\ word # frame[t].old
              /\ \A u \in Actors \ waiters : frame[u].pc # "notify"
SleepersAreNotified == osSpecified => \A t \in Actors : ~MissedBy(t)

\* The same of the fallback.  notify does not take the mutex under which the
\* waiter tests the word, so this is NOT true of the code.
FallbackIsNotified == ~osSpecified => \A t \in Actors : ~MissedBy(t)

\* With futexes a waiter does not stay behind: once the word has left the value
\* it waits on, it returns or the word goes back to that value.
Behind(t) == osSpecified /\ frame[t].kind = "wait" /\ word # frame[t].old
WaitReturns == \A t \in Actors : Behind(t) ~> ~Behind(t)
=============================================================================
