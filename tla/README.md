# Zisc in TLA+

A verification project for [Zisc](../src), a header-mostly C++ library: its
lock-free and locked containers, its memory resources, its thread pool and
blocking primitives, and the calculations (soft floats, random engines, exact
numbers, text) whose edges are easy to get wrong. TLC checks the modules on
small instances, TLAPS proves the theorems for every instance. Paths below are
relative to `src/source/zisc/core/zisc/`.

## 1. The system

```
  ThreadManager                     a pool of workers that run tasks
    |   |    \__ MonotonicBufferResource   one memory slot per task id
    |   \_______ Bitset                    which task ids are complete
    |   \_______ Atomic / AtomicWord       the wait of a worker for a task
  LockFreeQueue<ring, WorkerTask>          the task queue
    |    \______ DataStorage               the elements
  PortableRingBuffer x 2  or  ScalableCircularRingBuffer x 2
                                           free_elements_, allocated_elements_

  MutexQueue, MutexBst/Map                 the containers under a mutex
  FixedArrayResource (a counter and a Bitset), AllocFreeResource (usage)
  SpinLockMutex
  Ieee754Binary, random, math, string, FunctionReference, Stopwatch
```

| component | state | operations | what is hard | what makes it correct |
|---|---|---|---|---|
| `PortableRingBuffer` (`structure/`) | head and tail tickets, cells of two words | enqueue, dequeue (plain, cautious), fixState, clear, full | two words per cell, three CAS per enqueue, dequeuers that give up | an index is in one place, comes out once, in order; "empty" is true |
| `ScalableCircularRingBuffer` (`structure/`) | head, tail, threshold, cells of one word | the same | a cell's word is loaded, then exchanged; a threshold shared by all | the same; a cell's lap never goes back |
| `LockFreeQueue` (`structure/`) | two rings, storage slots | enqueue, dequeue, clear, setCapacity, moves | an index goes through both rings; refusal by a size read in two loads | no slot shared or lost; construct and destroy alternate |
| `MutexQueue` (`structure/`) | circular array, head, tail | the same | counters that wrap modulo any size; what a move leaves behind | a bounded FIFO |
| `MutexBst`, `Map` (`structure/`) | sorted list, pool of nodes, stack of free indexes | add, remove, contain, findMinKey, clear, setCapacity | the stack and the pool must stay in step | a set of keys with stable indexes |
| `DataStorage`, `StdMemoryResource` (`memory/`) | an object or nothing | set, get, destroy, moves | objects in raw bytes | nothing used that is not there, nothing dropped |
| `FixedArrayResource` (`memory/`) | `count_`, `used_list_` | allocate, deallocate, clear | counter and bits change apart; a search over bits that change | one owner per storage, exact count, the limit |
| `MonotonicBufferResource` (`memory/`) | size, use count | allocate, deallocate, release | release against allocate | live blocks do not overlap |
| `AllocFreeResource`, `Memory::Usage` (`memory/`) | total and peak | allocate, deallocate | two words, a header in front of the data | the statistics agree with the memory |
| `Bitset` (`concurrency/`) | atomic blocks of bits | testAndSet, reset, isAll, isAny, isNone, count | masks at block borders; reset is a load and a store; queries go block by block | answers that were true during the call |
| `Atomic`, `AtomicWord` (`concurrency/`) | one word | RMW operations, perform, wait, notify | a change between test and sleep | no lost increment, no lost wake-up |
| `SpinLockMutex` (`concurrency/`) | a flag | lock, try_lock, unlock | all spinners see it free at once | mutual exclusion, someone enters |
| `ThreadManager`, `PackagedTask` (`concurrency/`) | id counter, task counter, active workers, queue, completed ids, memory slots | enqueue, enqueueLoop, waitForCompletion, clear, the destructor; the worker loop | reused ids, precedence, sleeping workers, overflow in a loop, tasks that enqueue | order, honest waiting and futures, no lost wake-up, every task completes |
| `Ieee754Binary` (`ieee_754_binary*`) | none | classes, conversions, arithmetic, comparisons | rounding at the borders of the exponents, double rounding | exact arithmetic rounded once |
| random (`random/`) | engine state | next number, patterns | wrapping sums, rounding up to the bound | full period; stratified samples |
| math, algorithm (`math/`, `algorithm`) | none | fractions, units, powers, rounding, compensated sums | overflow on the way, lost digits | the exact value |
| string (`string/`) | records of a Csv | JSON values, CSV lines | numbers read without a length, the end of the stream | what was written is read back |
| `FunctionReference`, `Stopwatch` | two words; a sum of times | assign, invoke; start, pause, stop | lifetime of temporaries, calls in any order | calls what was meant; the time of the runs |

How they interact: a caller of `ThreadManager::enqueue` takes an id, builds the
task in the memory slot of the id, adds its iterations to `num_of_tasks_`, puts
one queue element per iteration and notifies a worker after each. A worker waits
for `num_of_tasks_` to leave 0, takes an element, lowers the counter, spins
until the tasks before it are complete and runs it. The destructor of the task,
run by whoever drops the last `shared_ptr`, sets the bit of its id. The queue is
two rings of slot indexes; the constructed element is handed over with the
index.

## 2. Modules

`PROJECT.json` maps every definition to the lines it models.

| module | models |
|---|---|
| `RingConstants` | threads, size, words and tuning constants, with their assumptions, of the ring and the queue |
| `PortableRingBuffer` | the ring, one action per access to shared memory, with no client |
| `RingClient` | EXTENDS it: the calls `LockFreeQueue` makes on one ring, observers, properties |
| `LockFreeQueue` | the queue over two INSTANCEs of `PortableRingBuffer`, step by step |
| `ScalableRing`, `ScalableRingClient` | the other ring, and the same client and properties for it |
| `BoundedFifo` | abstract: what `structure/queue.hpp` promises one caller at a time |
| `MutexQueue` | the circular array; implements `BoundedFifo` (`IsFifo`) |
| `KeySet` | abstract: what `structure/map.hpp` promises |
| `MutexBst` | the sorted list over a pool; implements `KeySet` (`IsKeySet`) |
| `QueueObjects` | the life of queue objects of both kinds: construction, setCapacity, moves, destruction, with their `DataStorage` |
| `FixedArrayResource` | the array of storages, one action per atomic access |
| `MonotonicBuffer` | the buffer, one action per atomic access |
| `AllocFree` | allocations with headers and the usage statistics |
| `Bitset` | bits in blocks, one action per atomic access |
| `AtomicWord` | operations on a word, the loop of `perform`, both kinds of wait and notify |
| `SpinLock` | the test-and-test-and-set lock |
| `ThreadManager` | callers, workers, the life of a task |
| `ManagerQueue` | EXTENDS it: the steps of a queue call in which an element can get lost |
| `MachineFloat` | a machine with floats of a given format: exact arithmetic rounded to nearest even (the hardware, external), and the float helpers the library builds on it |
| `Ieee754Binary` | the software and the hardware format class over `MachineFloat` |
| `FloatMath` | rounding, decomposition, pair arithmetic, polynomials, powers of limits |
| `Numbers` | Fraction, UnitMultiple, powers with integer exponents, ranges, permuteIndex |
| `RandomEngines` | PCG, xoshiro, the correlated multi-jittered sampler |
| `JsonText`, `CsvReader` | values of JSON text, and lines of CSV into records |
| `FunctionReference`, `Stopwatch` | the two helpers with state |
| `Structures` | one run over the containers, the resources and the calculations, which share no state |
| `MCProgress` | for TLC: what waits (manager, lock, word), with fairness |
| other `MC*` | for TLC: constant values, symmetry, settings |
| `RingClientProofs`, `LockFreeQueueProofs`, `ScalableRingProofs`, `ThreadManagerProofs`, `BitsetProofs` | theorems about one component each |
| `ContainerProofs` | theorems about `MutexQueue`, `MutexBst` and `QueueObjects` |
| `MemoryProofs` | theorems about `MonotonicBuffer`, `AllocFree` and `FixedArrayResource` |
| `ConcurrencyProofs` | theorems about `SpinLock` and `AtomicWord` |

### Compositions

Two kinds. Components that really interact are composed step by step:
`LockFreeQueue` runs every step of two rings, `MutexQueue` and `QueueObjects`
hold storages, and the clients of the rings are the queue's calls. Components
that do not interact share a run to be asked together: `MCLockFree` (the ring
alone in both of its roles, the queue), `MCManager` (ordered and nesting
tasks), `MCProgress` and `Structures`. There a variable (`setting` or `part`) is
chosen in the initial state and never changes; only that component steps, while
the others stay in one named initial state, so that the state spaces are added
and not multiplied. A property about one component is then checked on every
state of it; a property that names two of them says nothing across parts.

### How state and actions correspond to the code

**PortableRingBuffer.** `cell[i]` is a `Cell`; the index word is split into
`node` and `unsafe`. `op[t]` is the frame of a call: the place in the function
and its locals. An action is one load, store, fetch_add or CAS together with the
local computation up to the next one. `Forget` drops locals that are loaded
again before they are read, which only merges equal states. The bottom values
are per thread in the code (a hash of the thread id with the top bit set); here
the thread itself, so a collision of two hashes is out of the model.
`permuteIndex` renames cells: the model uses the identity, and `Numbers` checks
that it is a bijection for every size up to 16.

**ScalableRing.** A cell is one word of a lap (`cycle`), a `safe` bit and an
index. The code compares words with the low bits set as signed differences,
which compares laps; `invalidIndex()` is the lap before the first. The `fetch_or`
that takes an index and the CAS loops of `catchUp` are actions of their own.

**LockFreeQueue.** Between two ring calls a thread constructs, moves or destroys
the element in a slot it owns; that is one action. `fate` observes what became
of an element. `clear()` requires that nobody else uses the queue, and so does
its guard; but it runs as the code does, `size()` dequeues with the number read
once and then a reset of both rings.

**MutexQueue, MutexBst.** Each operation runs under the mutex, or is called while
nobody else uses the object (clear, setCapacity), so each is one step.
`Contents` (the storages from head to tail) and `PlaceOf` (key to index) are the
refinement mappings.

**QueueObjects.** `objects[q]` is a queue of either kind, `storable` says whether
`DataStorage` is a T itself or bytes. A storage of bytes may hold a value, nothing
(`Raw`), or what a move made of nothing (`Stray`). `misused` is set when an object
is moved or destroyed where there is none, and the behaviour goes on; `abandoned`
when memory is given back with an object in it. A moved-from queue is destroyed,
assigned to, moved from again, or, for the kinds in `ReusedKinds`, given a
capacity and used again.

**FixedArrayResource.** `used` is `used_list_` as a set, `count` is `count_`.
Loading a block and counting its ones is one action (`Load`), claiming the
candidate another (`Claim`). `owned` and `leaked` (searches that ended in "Fatal
error", whose count stays) observe. The mask of line 302 is shifted as an `int`; from offset
`MaskBits` on, `Masks` allows every outcome. `PermuteStart` is any function on
the slots, which is all the proofs assume.

**MonotonicBuffer.** Loads and CAS of `size_`, the count and the two stores of
`release()` are actions. `releaser` is the client: nobody releases, or, as in
`ThreadManager`, one thread allocates and releases when the buffer is not
occupied while others deallocate.

**AllocFree.** The two words of `Memory::Usage`, the fetch_add and the CAS loop
of the peak are actions; the system allocator (external) gives any aligned
memory apart from what is in use.

**Bitset.** A block is a set of bits. `testAndSet` is one atomic operation per
block, `reset` a load and a store, queries one load per block. `meant`, `torn`,
`sawSet`, `sawClear` observe.

**AtomicWord.** `osSpecified` chooses futexes or the mutex with a condition
variable. A futex wait compares and sleeps in one step of the kernel; a wake-up
may be spurious. A word is a number; what the bit operations do to it is said of
the set of its bits (`BitsOf`, `ValueOf`). The clients are those of the tests: waiters that wait for the
value they saw to change, wakers that change and then notify.

**ThreadManager.** One action per access to `task_id_count_`, `num_of_tasks_`,
`num_of_active_workers_`, the queue or the status list. `c[t]` is the call of
thread `t` (a client, or a worker whose task enqueues), `w[t]` the loop of a
worker. The references that keep a task alive are derived from the queue and the
frames (`HeldBesidesCall`, `HeldBesidesWorker`), as `shared_ptr` does. `wait(0)`
is one step that sleeps or goes on, which `AtomicWord` shows of the futex
variant; `isAll` and `reset` are one step each, and so is a queue call. What the
steps inside a queue can do to a caller, an enqueue that stores nothing and does not
throw, is in `ManagerQueue`: there an enqueue looks at the list of free indexes
(`SeeRoom`) and draws one later (`Draw`), and a worker that took an element gives its
index back in a step of its own (`GiveBack`), which the distance counts before it is
there. `Init` is the manager at the end of
its constructor. The memory slot of an id holds `SlotRoom` tasks before it has
to be released, which it is once nothing in it lives.

**The calculations.** Each call is one step that computes a result for inputs
chosen from a small set, kept in a variable (`binary`, `number`, `computed`,
`json`); what the code does in a loop whose intermediate values matter (integer
power, compensated sum, xoshiro, PCG, the CSV reader) takes one step per turn.
Floats are bit patterns of a small format, for which TLC takes every pair of
patterns; the algorithms take the format as a parameter as the templates do.

**JsonText, CsvReader.** A text is a sequence of characters. The patterns are
regular expressions in the code and membership operators here; `strtol`,
`getline` and `regex_match` (external) do what the standard says, including what
they read beyond a view.

### Torn views

A dequeuer loads a cell's index, then its value (`portable_ring_buffer-inl.hpp` 110
and 111), and the cell can change in between. The steps of the models are not
restricted: it does change there. `RingClient` and `LockFreeQueue` only observe it, in
`torn` and `tornViews`, which are set when a step changes a cell between the two
loads of another thread (`SteadyView`) and stay set. Then an index can come out twice
(`ring_duplicate`) and two threads can have one slot. The properties that this breaks,
`RingConserves`, `RingIsFifo`, `QueueConserves`, `SlotDiscipline` and the slots in
`ClearDrains`, say so themselves (`~torn =>`, `~tornViews =>`), to separate this one
race from everything else that could be wrong (three CAS, poisoning, unsafe cells,
fixState, the two rings). They tell what a repair of the two loads would give. The
others, the types and the size after `clear()` included, hold in every behaviour.
`ScalableRing` has one word per cell and no such race.

## 3. Runs

| run | instance | distinct states | what it shows |
|---|---|---|---|
| `lock_free` | 2 threads, 2 cells, 6 tickets; "free": as the free list, 5 tickets; "queue": 3 elements, 5 tickets per ring, dequeuers that poison at the second attempt | 2.71M | as long as no view was torn, indexes, slots and elements are conserved, in order; always, "empty" is honest, dead tickets stay dead and `clear()` leaves size 0 |
| `manager` | 2 workers, 1 client, 3 tasks; "ordered": 3 ids, singles and loops of 2 that wait, four iterations in all, a queue of 2, 1 task per slot; "nesting": tasks that enqueue, 2 ids, a queue of 1 | 1.18M | precedence, waitForCompletion, futures, counters, wake-ups, nothing dropped |
| `progress` | manager: 2 workers, 1 client, 2 tasks, singles and loops of 2 that wait; lock: 3 threads; word: 3 threads, 2 bits, 2 changes; fairness | 0.24M | every accepted task completes, every call returns, the destructor included; nobody waits for a free lock or a changed word for ever; lock and word under all interleavings |
| `structures` | bits: 2 threads, 3 bits in 2 blocks; queue: sizes 0, 2, 3; map: 4 keys, sizes 0, 2, 3; objects: 2 queues, 2 values; buffer: 2 threads, 12 bytes; alloc: 2 threads, 3 requests; blocks: 3 threads, 3 storages in 2 blocks; scalable ring: 2 threads, 4 cells, 9 tickets; floats: 6 and 12 bits; the other calculations over the inputs in the cfg | 0.97M | the properties of each, the two refinements, the calculations against exact definitions |

Violations (section 6 tells them in full): `ring_duplicate`,
`manager_lost_task`, `manager_two_clients`, `manager_held_future`, `word_fallback`,
`count_leak`, `moved_queue`, `random_upper`.

### Bounds, and why they are enough

* Two cells and two threads is the smallest ring the header allows for two
  threads, and the one with most contention: every second ticket meets the same
  cell. Six tickets are three laps, so a thread can be a whole lap behind a cell
  that was used, poisoned and used again. The scalable ring has four cells for a
  queue of two, so its nine tickets are more than two laps. `MaxTicket` guards the
  fetch_adds.
* `UpdateInterval` (256 in the code) and `AMax` (4096) are thresholds of a
  counter of attempts. With 2 and 1 a dequeuer retries with an old tail,
  refreshes it and gives up; in the queue 1 and 0: give up at the first attempt.
* Three elements through two slots reuse a slot and meet a full queue.
* Three storages in two blocks: the second block, half used, the wrap to the
  first and a search that misses a storage freed behind it; the "Fatal error" is
  reached. The proofs need no bound.
* Three tasks, three ids: a restart of the ids with a task of the last round
  still alive; a loop of two in a queue of two overflows in its middle;
  `Attempts` 2 reaches both the retry and BadAllocation. `FewIterations` keeps
  the third task out when two loops are there.
* Three bits in blocks of two: a range inside one block, across the border and
  up to the end of a block that is not full. The ranges have two bits at least.
* Queue sizes 2 and 3: a size that is a power of two and one that is not;
  `MaxTail` 7 is more than two laps of either. Size 0 becomes 1.
* The buffer of 12 bytes at addresses 0 and 4 with alignments 1, 2 and 8: paddings
  that differ between two competing callers, and a request that just does not fit.
* Formats of 6 bits (narrow) and 12 bits (wide): every pattern of each, with
  subnormals, infinities and NaNs, and enough digits in the wide one for one
  rounding of an operation to be innocent (2p + 2).
* Formats with an even and an odd number of digits in `FloatMath`: `float` and
  `double` differ in that, and the splitting of a product into halves with them.
* PCG has its real 8 bits. Xoshiro has words of 3 bits, so that its whole orbits
  are walked. Patterns of 4, 9, 16 and 81 samples, with seeds up to 2^32 - 1.
* Texts of up to 4 characters for numbers and 3 between quotes for strings.
* `CHECK_DEADLOCK FALSE`: every run ends in bounds (tickets, tasks used and the
  manager gone, a calculation done). Real standstills of the manager, the lock and
  the word are the subject of the liveness properties.
* Symmetry is used in safety runs only (`structures` has refinements, which are
  safety too): threads, elements, tasks and workers are told apart by nothing in
  the code. The two runs with liveness, `progress` and `manager_held_future`, do not
  use it. In `progress` `InOrder` fixes which task is enqueued first instead, which is
  sound because the tasks differ in name only and no fairness is assumed of the client
  that enqueues; and the waiters are one thread or two, chosen once, because which
  ones makes no difference.

### Fairness

`FairSpec` of ThreadManager has weak fairness for the loop of each worker and
for each call in progress. Both are plain loops of a thread, blocked only in
`wait(0)` or spinning, and the operating system keeps running threads that can
run. Nothing is assumed of clients: they need not enqueue, wait, drop futures or
destroy the manager. A spin is modelled by the step that leaves it, enabled only
while its condition holds; weak fairness of that step is the weakest assumption.

`lockFair` has weak fairness for the steps inside lock, try_lock and the critical
section, which ends; whether to lock is up to the thread. It gives that someone
enters, not that everyone does, which the code does not promise. `wordFair` has
it for the steps of a call that has begun; a waiter asleep has none until it is
notified, and spurious wake-ups are not assumed.

`MCProgress` asks `MCFair`: each of these for the behaviours that are about that
component, and nothing of the threads of the others.

### Mutants

Every property of a passing run has at least one mutant, and a property that
joins several promises has one for each part: an operator beside the definition
it replaces (marked `MUTANT`), a bug of the kind one would make in that code.
With it TLC finds that property violated.

## 4. Properties

* Rings: `Conservation` (an index in exactly one place; `RingConserves`: while no
  view was torn), `TicketsAreExclusive` (an index whose ticket was drawn has its one
  dequeuer at the cell, and what that one decided to take is still there),
  `FifoOrder` (of completed calls; `RingIsFifo`: while no view was torn),
  `EmptyIsHonest` (true at some moment of the call), `NodeNeverDecreases`,
  `LapNeverDecreases`.
* Queue: `IndexConservation`, `ElementConservation`, `SlotDiscipline`,
  `ClearDrains`; `ElementsSurvive` for moves; `IsFifo`.
* Map: `NodesAccounted`, `IsKeySet`.
* Memory: `Exclusive`, `CountAccounts` (the counter never misses a storage in use or
  a call under way, and is equal to them until a search fails), `CapacityRespected`;
  `BlocksAreSound`; `AllocationIsSound`.
* Bits, words, locks: `ResetIsLocal`, `AnswersAreHonest`;
  `IncrementsAreDistinct`, `SleepersAreNotified`; `MutualExclusion`; live
  `NobodyIsStranded`.
* Thread manager: `PrecedenceRespected`, `WaitIsHonest`, `ReadyIsComplete`,
  `WorkIsAnnounced`, `EnqueueDropsNothing`; live `EveryTaskCompletes`,
  `EveryCallReturns`.
* Calculations: `ArithmeticAgrees`, `EnginesAreUniform`, `MathIsExact`,
  `TextIsExact`, `RecordsAreLines`, `HelpersKeepTrack`.

## 5. Proofs

Eight modules, each from the named ASSUMEs of the component it extends, for any
finite or infinite set of threads unless said otherwise.

**RingClientProofs** (any number of cells, any number of attempts, either role of
the ring, torn views allowed). Three layers, each an inductive invariant on top of
the one before:

* `TypeCorrect`, and `NodesOnlyGrow`: `Spec => NodeNeverDecreases`. Types are not
  inductive alone, for a frame could carry an index word larger than the one it is
  about to store over it. `Sound` says what a thread knows where it is; `RingInv`
  is the types with `Sound` of every frame. Since the CAS only succeed on the
  loaded word, what they store is not smaller.
* `TicketsAreServedOnce`: `[]TicketsAreExclusive`, and `EmptyWasSeen`:
  `[]EmptyIsHonest`. First every step is brought to its *outcome* (`Draws`,
  `Reserves`, `Commits`, `Takes`, `Poisons`, ...): what it does to the counters,
  to one cell and to one frame, without the code's branches. `TicketInv` is then
  kept outcome by outcome. Its centre is `LeftIsDead`: once the dequeuer of ticket
  T has gone, no enqueuer can store an index under T any more. The cell is past T,
  or it is unsafe and no enqueuer is about to use the unsafe word for a ticket up
  to T (`Risk`), because such an enqueuer compared the head with its ticket before.
  That needs that loaded words are old but not wrong (`ViewsAreOld`), that
  the mark in a cell is its enqueuer's (`MarksAreOwned`), that an index in a cell
  came with a drawn ticket (`FilledByTicket`), that tickets of dequeuers are
  different (`TicketsAreDrawn`), and that a dequeuer who leaves a cell unsafe
  leaves it dead (`LeavingIsSafe`).
* `IndexesAreConserved`: `[]RingConserves`, and `FirstInFirstOut`: `[]RingIsFifo`.
  `ServiceInv` (theorem `Service`) adds, unless views are torn, that a dequeuer
  takes what it saw, that each index has one place (`Placed`: the pool, one call
  or one cell) and `OrderInv`: an index that was in the ring when an enqueue began
  stays in cells of earlier tickets than that enqueue's; one that was overtaken is
  below the head, so a dequeue that begins later draws a ticket beyond it.

Once a view was torn the last two are false (`ring_duplicate`); the condition is part
of the properties, and nothing is assumed.
A last section states the parts that `LockFreeQueueProofs` takes over: `RingSound`
is the invariant without observers, kept by every step of a call, by calls and
returns that exchange indexes with an arbitrary pool, and by standing still, and
true of a full and of a cleared ring.

**LockFreeQueueProofs** (any number of threads, slots, elements and tickets, `clear()`
included). `QueueIsConserved`: `[]QueueConserves`; `SlotsAreDisciplined`:
`[]SlotDiscipline`; `ClearEmpties`: `[]ClearDrains`; `LockFreeTypes`. No hypothesis: the
first two and the slots in the third are stated for behaviours in which no view has been
torn yet, since with torn views an index may come out of a ring twice
(`ring_duplicate`) and two threads have one slot; the types and the size after
`clear()` are proved of every behaviour, for which the invariant has a part that does
not need `~tornViews` (`CallsInv`) and one that does (`SteadyInv`). The rings are not proved again: `FreeRing` and
`AllocRing` are two INSTANCEs of `RingClientProofs`, and the pool of each is what the
rest of the queue has (`FreePool` is the indexes in a thread's hands or in the other
ring). That is the compositional argument: a ring keeps exactly what is not in its
pool (`FreeOutside`, `AllocOutside`), so what one ring hands out the other does not
have. `FreeTaken` and `FreeGiven`, and their counterparts, carry an index over. The
invariant adds to the two rings

* `Agrees`: where a call on the queue is, its call on a ring is too, and it has none
  in the other ring;
* `HeldOnce`: no two threads hold one index between two ring calls;
* `SlotsInv`: a slot has a value exactly from `e_set` to `d_move`, which is while its
  index is on its way through the allocated list or with the thread that took it
  out. It gives that `enqueue` finds a raw slot, for an index in a thread's hands is
  in no ring;
* `ElementsInv`: an element is with one call or in one slot;
* `ClearInv`: `clear()` is alone and has at least as many dequeues left as the tail is
  ahead of the head. The counters approach by one in every dequeue, since each
  draws a ticket, and `fixState` raises the tail to a head it has read, never beyond
  (`RaisesToHead`). When none is left, a filled cell would have a ticket below the head
  that no dequeuer serves, which `LeftIsDead` excludes (`DrainedIsEmpty`).

**ScalableRingProofs** (any size, any number of attempts). The same three layers and
two more; the words of this ring differ, and so do the arguments. One assumption on
the constants, `AnswerAssumption`: the answers for "nothing" and "overflow" are no
indexes.

* `LapsNeverDecrease`: `LapNeverDecreases`. The one fact it rests on is `Outdated`:
  a call that is about to exchange a word has seen it in an earlier lap than that of
  its ticket. `LapInv` is the types with it.
* `TicketsAreServedOnce`: `[]TicketsAreExclusive`. `TicketInv` is kept by every
  outcome (`Outcome`), with `LeftIsDead` and `Risk` as above: an enqueuer that saw
  an unsafe word and then the head at most at its ticket is the only one who may
  still use that word. One part has no
  counterpart in the other ring: here a dequeuer compares laps and does not test
  whether the cell of its lap is empty, because nobody but itself leaves it so.
  That is `UsedUp`: a cell that is empty in the lap of a ticket has been left by
  that ticket's dequeuer. With it `TakesWhatItSaw` justifies the `fetch_or` that
  clears the index without looking.
* `IndexesAreConserved`: `[]Conservation`, and `FirstInFirstOut`: `[]FifoOrder`.
  `ServiceInv` (theorem `Service`) adds that each index has one place (`Placed`) and
  `OrderInv`. Views are not torn in this ring, one word being one atomic, so neither
  needs a hypothesis.
* `AnswersAreTrue`: `[]AnswersAreOrdered`, that is, order and `EmptyIsHonest`: why the
  threshold of three halves of the cells is enough. `GapInv`: a ticket between head
  and tail that will never carry an index (`Skips`) was given up by an enqueuer whose
  cell was blocked. Charge it to the index in the cell and to the one turned away:
  an index blocks no second cell before it has moved on (`Later`), and one turned away
  blocks none (`After`). So fewer tickets are skipped than there are indexes
  (`SkipBound`) and the tail is less than a lap ahead of the head (`GapBound`).
  `EmptyInv`: for every index on offer the threshold is at least the number of tickets
  before it that carry no index (`Missing`) and of dequeuers that may still lower it
  (`Pend`: not those whose ticket has an index, for `GivesUpNothing`). A dequeuer that
  draws a ticket without an index moves from the first number to the second, one that
  lowers leaves the second. Where the threshold is raised, what is missing is skipped
  or drawn by an enqueuer of its own (`RaisedEnough`), and with at most one thread more
  than cells the sum is at most `Threshold3`. Hence below 0 nothing was on offer, and
  nothing is either when the tail is not ahead. The hypothesis,
  `Cardinality(Threads) <= N + 1`, is one thread weaker than what the class asks for
  ("the number of threads is less than or equal size()",
  `scalable_circular_ring_buffer.hpp` 37; `size()` is the number of cells), and it is
  sharp in the smallest ring: with two cells TLC finds "empty" honest for three threads
  and not for four.

**MemoryProofs**, in three parts.

*MonotonicBuffer* (any threads, any buffer, any requests). `BlocksNeverOverlap`:
`[]BlocksAreSound`. The invariant `BufferInv` needs, besides the blocks, the
promises: a thread between its CAS and its count has space that is in no block
yet (`Promised`), everything ends before `size_` (`Placed`), the use count is the
number of blocks (`Counted`), and a releasing thread is alone with an empty buffer
(`Alone`). Lemmas about remainders show that the padding aligns.

*AllocFree* (any threads, any requests). `UsageIsAccounted`: `[]AllocationIsSound`.
The invariant `AllocInv` has, besides the types, `BlocksNamed` (the blocks in use and
those of calls under way have different places), that every block is laid out inside
what was taken from the system (`Laid`; one assumption, `AlignmentAssumption`: of an
alignment asked for and the smallest one divides the other, as powers of two do), and
two statements that hold between the two words although
no step changes both: `CountsUsage`, the total and the bytes still to be added are
the bytes allocated and those still to be subtracted; and `CarriesPeak`, the largest
total there was is the peak, or a thread on its way through the CAS loop carries it.

*FixedArrayResource* (finite set of threads, any number of storages, any block
size). `TypeCorrect`; `ExclusiveOwnership`: `[]Exclusive`;
`CountingIsSound`: `[]CountAccounts`; `CapacityIsRespected`:
`[]CapacityRespected`; `NoFatalErrorInOneBlock`: `[]OneBlockNeverFails`, and from it
`CountIsUsedInOneBlock`: `[]CountIsUsed` as long as the bits fit one block, which is
false of more (`count_leak`). The
inductive invariant is `TypeInv /\ Exclusive /\ CountInv /\ SearchInv /\
OneBlockNeverFails`, whose parts need each other:

* the types need the count, for `count - 1` is a natural number only because the
  call that subtracts is one of those `CountExact` counts, and `SlotInArray`;
* `Exclusive` needs `SlotInArray` and itself: a storage about to be unmarked has
  one such call and no owner;
* `CountInv` is `CountExact` (the count is what is in use, what is under way and what
  failed searches have left) and `CapacityRespected`, and needs `Exclusive`: a
  claim moves a call from `Searching` to `owned` only if the storage was not owned.
  The capacity does not follow from the limit alone, for `count` also holds refused
  calls;
* `SearchInv` says for a single block that a second visit hides nothing: a failed
  second visit has seen every storage used at one instant, and by `Exclusive` and
  `CapacityRespected` there would be too many.

**ContainerProofs**, in three parts.

*MutexQueue* (any values, any sizes, any number of operations).
`QueueIsFifo`: `queueSpec => IsFifo`, the refinement of `BoundedFifo`: the initial
states map, and each of the four operations maps to the abstract one;
`StoragesAreUsedOnce` says that positions between head and tail lie in distinct
storages and that all others are empty. The arithmetic is that two counters less
than a lap apart have different remainders.

*MutexBst* (any keys, any sizes). `MapIsSound`: `[]NodesAccounted`, and `MapIsKeySet`:
`bstSpec => IsKeySet`, the refinement of `KeySet` by every operation, `clear` and
`setCapacity` included. `BstInv == PoolInv /\ ListInv /\ StackInv`: a key is at most
once in the pool and in the list, the list holds just the keys in the pool, in order;
the free indexes are distinct and hold no node. The index of a key (`PlaceOf`) depends
on the pool alone, so inserting into the list or removing from it moves nothing. That
insertion keeps the list sorted follows without induction, for `LowerBound` counts the
smaller keys.

*QueueObjects* (any number of queues of both kinds, any resources, any sizes).
`ElementsAreKept`: `[]ElementsSurvive`. `ObjectInv` says of every living object that it
is `Sound`: in a lock-free queue the free and the allocated indexes share out the
storages, and a storage holds something exactly if its index is allocated
(`RingsSound`); in a MutexQueue that was not moved from, exactly if it lies on the way
from head to tail (`CircleSound`). Storages that hold no element may hold a `Stray`, which
moves leave behind, so a sound object says nothing of them. Each of the ways an object is made (constructed,
moved with or without its resource, resized) is shown to make a sound one from a sound
one. One hypothesis, `ReusedKinds \subseteq {"lock_free"}`: a MutexQueue that was moved
from is not given a capacity again (`moved_queue`). One assumption, `CapacitiesAreSizes`,
which TLC evaluates: every capacity asked for has a power of two that covers it, which
is an induction on exponents.

**ConcurrencyProofs**, in two parts.

*SpinLock*. `LockExcludes`: `[]MutualExclusion`, which is not inductive:
`FlagIsHeld`, that the flag is set exactly while a thread is inside, is needed for
the thread that finds it clear and is a theorem of its own (`FlagTellsTheTruth`).

*AtomicWord* (any finite set of threads, any width). `NoWakeUpIsMissed`:
`[]SleepersAreNotified`, with futexes (without them it is false, `word_fallback`).
`SleepInv` is what calls look like (`CallsInv`) and `NotifyInv`: while a thread is
asleep on a value that the word no longer has, another one that changed the word has
its notification still to give. `NoIncrementIsLost`:
`[]IncrementsAreDistinct`; `CountInv` adds that the word is above every value an
increment was answered (`Answers`), and that it and the operations under way do not
exceed what the changes so far allow, so it does not wrap (`Tally`). One hypothesis,
`MaxChanges <= Size \div 2`: `MaxChanges` is the model's bound on operations, one of
which may raise the word to half of its range; with many more of them the word comes
round, and two increments rightly answer the same.

**BitsetProofs** (any users, any size of a block, any number of blocks; nothing but
`BitsetAssumption`). `ResetsAreLocal`: `[]ResetIsLocal`. `LocalInv == CallsInv /\
LoadsAreFresh /\ ResetIsLocal`: what a reset has loaded is what the block still is,
unless somebody wrote in between, which is what `torn` records. `AnswersHold`:
`[]AnswersAreHonest`. `HonestInv` says what a query under way knows of the positions
whose blocks it has looked at: every one was seen as the answer says (`AllHonest`), the
count lies between those that always were set and those that ever were (`CountHonest`).
A look adds one block, and the lemmas about masks say that the mask of a block is just
the part of the range that lies in it, at both borders.

**ThreadManagerProofs** (any finite number of workers, any tasks, ids, slots,
capacities and kinds, tasks that enqueue included). From one hypothesis, which a run
shows to be needed: `OneClient`, one thread calls the manager from outside
(`manager_two_clients`). The theorems are about `ThreadManager`, whose queue calls are
one step and lose nothing; over `ManagerQueue` they do not hold
(`manager_lost_task`). `TypeCorrect`, `WaitsAreHonest`, `ReadyTasksAreComplete`,
`NothingIsDropped`, `WorkStaysAnnounced`, `PrecedenceKept`. The invariant is `IInv ==
Types /\ ClosingInv /\ Counts /\ (~Over => Core /\ Ranges)`:

* `Counts`: the counters are cardinalities of the sets of iterations and workers
  they stand for, and a worker sleeps only if a wake-up is on its way;
* `Core`: what a task went through and who makes it (`JobsInv`, `CallInv`); every
  iteration accepted has run, is queued, or is in the hands of a worker (`RunInv`);
  a ready future or a set bit means complete (`ReadyInv`, `StatusInv`); living tasks
  have different ids below the counter (`IdInv`); a task's predecessors are
  complete or have smaller ids (`OrderInv`), from which precedence follows, for a
  worker waits until all smaller bits are set; nothing is queued or running while
  ids are reset (`AwaitInv`);
* `Over` is the end of the destructor, when `Core` is given up: a nested enqueue
  that waits at that time mistakes the exit value of the counter for "all done"
  (section 6). Types and precedence are therefore stated for `~Closing`; without
  tasks that enqueue, precedence holds to the end.

Only model-checked: the calculations (`ArithmeticAgrees`, `EnginesAreUniform`,
`MathIsExact`, `TextIsExact`, `RecordsAreLines`, `HelpersKeepTrack`), which are loops
over data, and all liveness (`NobodyIsStranded`, `EveryTaskCompletes`,
`EveryCallReturns`). Liveness under fairness and ENABLED, induction over data and
RECURSIVE operators are outside the prover's reach; no module with a theorem reaches
RECURSIVE or Bitwise, which only `RandomEngines` uses.

## 6. Where code and documentation part

1. `ring_duplicate`. A dequeuer of ticket h loads the index word h+n, set by an
   enqueuer that has reserved the cell; it removes the reservation; the
   enqueuer, finding it gone, draws ticket h+n, meets the cell again and stores
   its index. The dequeuer, which had loaded the old index word on its retry,
   now loads the new value: it takes an index of ticket h+n and stores
   `invalidIndex()`. The dequeuer of h+n can have loaded it too: the index comes
   out twice, hence two threads use one slot (`portable_ring_buffer-inl.hpp`
   110-120). `FifoOrder` breaks the same way.
2. `manager_lost_task`. The cautious dequeue of the free list checks its distance
   and then draws a ticket (`portable_ring_buffer-inl.hpp` 95 and 102). The distance
   counts an index whose ticket is drawn and which is not in its cell yet: a worker
   that took an element is in the middle of giving it back. The enqueuer that draws
   this ticket gives up after its attempts (4096), the answer is `invalidIndex()`, and
   `LockFreeQueue::enqueue` returns `nullopt` with its argument gone and no
   OverflowError (`lock_free_queue-inl.hpp` 221). The same happens when another
   enqueuer takes the last index in between. `enqueueImpl` does not look at that
   `nullopt` (`thread_manager-inl.hpp` 881): an iteration never runs, the counter never
   returns to 0, and the future of a loop is made ready by the destructor all the
   same. The run needs one client, one worker and one loop, one iteration longer than
   the queue.
3. `manager_two_clients`. `issueTaskId` resets the manager when all ids so far
   are complete. Between its wait and its `clear()` of the queue another client
   can queue a task, which is destroyed without having run (line 994).
4. `manager_held_future`. When the memory slot of an id is occupied (its future
   is held by a client), the id is given up and its bit is never set; later
   tasks with `wait_for_precedence` spin for ever on `isAll` (line 749).
5. `word_fallback`. Without futexes `notify` does not take the mutex under which
   the waiter tests the word: a change and its notification can fall between the
   test and the sleep (`atomic.cpp` 50 and 59), although the comment of
   `waitFallback` promises to return.
6. `count_leak`. A search over two blocks can fail although there is room, for a
   storage freed behind it and another taken in front of it. It throws without taking
   its count back (`fixed_array_resource-inl.hpp` 134), so `count()` is no longer the
   number of used storages (`fixed_array_resource.hpp` 75).
7. `moved_queue`. A `MutexQueue` that was moved from keeps `head_` and `tail_`;
   a new capacity gives it elements that nobody put there.
8. `random_upper`. A sample below 1 scaled to an interval, or divided by the
    number of samples, can round to the upper bound that the headers exclude.

Statements kept in the modules that no run checks, because the code does not
satisfy them (each is found false by adding it to a cfg): the repository promises
nothing clear enough to quote, or the matter is told here in full:

* `OverflowIsHonest` (RingClient, `freeList = TRUE`): the distance loads the
  tail before the head, so "overflow" can be answered though the list never was
  empty.
* `EveryCallReturns` with the kinds `Nesting`: a task that enqueues after the
  destructor stored the exit value -1 raises the counter to 0 (lines 877 and 904 of
  `thread_manager-inl.hpp`). A worker that comes to `wait(0)` then sleeps; the counter
  goes back to -1 when the nested task is taken, but the notification of the exit is
  past: the join never ends, although the destructor is to terminate the threads
  (`thread_manager.hpp` 109).
* `WritesAreKept` (Bitset): `reset` of a range loads a block and stores it
  (`bitset-inl.hpp` 298); a `testAndSet` of a bit beside the range in between is
  undone, although it sets its value atomically (`bitset.hpp` 125). `ResetIsLocal`
  leaves just these blocks out.
* `StoragesHoldValues` (QueueObjects): the move of a `DataStorage` of bytes takes a T
  out of the other one and destroys it there, whether there is one or not
  (`data_storage-inl.hpp` 47); a vector that grows in `setCapacity` moves its empty
  storages so. `ElementsSurvive` holds all the same: no element is touched. Whether
  the rest does harm depends on T.
* `IntegerPowerIsPower` (Numbers): `pow` inverts the base for a negative exponent only
  of floating numbers (`math-inl.hpp` 124); of the integer 2 and -1 it makes 2.
* `OversizeRefused`: line 116 refuses a request only if size AND alignment
  exceed.
* `OverflowOnlyWhenFull` (MutexBst): `clear()` refills only what is left of the
  stack of free indexes; the indexes in use at the time are lost until the next
  `setCapacity`. `IsKeySet` therefore counts as room what the stack holds.
* `RoundsToNearest` (Ieee754Binary): in the conversion to a narrower format a
  value that exceeds half of the smallest subnormal by its last bits is taken
  for the tie, for these bits are shifted out (line 701).
  `ConversionsAgree` leaves just these values out.
* `MultiJittered` without `NearWrap`: for seeds near 2^32 the sum `i + p` wraps
  before the remainder, and with a number of samples that is no power of two two
  samples share a cell (`correlated_multi_jittered_engine-inl.hpp` 190).
* `PrecedenceRespected` during the destruction, with a kind that enqueues and a kind
  that waits: a nested enqueue that waits for the ids (line 994) when the destructor
  stores the exit value goes on to `clear()`, starts the ids again and clears the
  bits while other workers still run.
* The comments of `notifyOneFallback` and `notifyAllFallback` in `atomic.cpp` are
  each the other's.

## 7. Not modelled, and why

* Hashing (FNV-1a) is its own definition: a function of bytes without a promise to
  check. `StdMemoryResource` forwards.
* Logarithm, exponential and trigonometric functions need real analysis, or are
  stubs in the code; what they are built from (`FloatMath`) is modelled.
* Serializer, errors, casts, the boolean wrapper: copies and wrappers without a
  decision.
* The memory statistics of the operating system, file output, build files, tests
  and benchmarks.
* Moves of Bitset, FixedArrayResource, MonotonicBufferResource, MutexBst and Csv,
  `setSize` and `setCapacity` on objects in use: they require exclusive use, as the
  members they move are independent of other threads. Those of the queues, which
  hold objects, are modelled.
* `ThreadManager`: creation of the workers (`Init` is its end), `setCapacity`, the
  wrapping of callables, thread ids.
* In `Numbers`, the rounding of the powers of floating numbers (they are exact there)
  and exponents whose absolute value does not fit their type.
* Memory orders. Every atomic access is sequentially consistent here; the code uses
  acquire and release, and a failure that needs a weaker order is out of reach.
* Calls beside a `clear()` of a container under a mutex: a data race, which
  has no meaning to model.

## 8. Plan

Built: all components of section 1, to the extent section 7 says.

Next, in this order:

1. `ThreadManager`: the bit of a stale id after an overflow, which needs two clients
   and more tasks than the present bounds.
2. `LockFreeQueue` over `ScalableRing` in place of `PortableRingBuffer`: its rings
   are parameters of the code, and `ScalableRingProofs` has what the argument of
   `LockFreeQueueProofs` needs of a ring.
3. A refinement of `BoundedFifo` by `LockFreeQueue`, up to what section 6 says.
