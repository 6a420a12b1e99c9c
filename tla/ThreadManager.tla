---------------------------- MODULE ThreadManager ----------------------------
(***************************************************************************)
(* zisc/concurrency/thread_manager-inl.hpp: a pool of worker threads that  *)
(* take iterations of tasks from one queue.  One action per access to a    *)
(* shared atomic; the queue (LockFreeQueue, modelled in its own module) is *)
(* a bounded FIFO of which every call is one step; ManagerQueue has the    *)
(* steps in which a call of it can lose an element.                        *)
(*                                                                         *)
(* A task has an id, a position in the bit set task_status_list_ and a     *)
(* memory slot of task_storage_list_.  It lives as long as a shared_ptr to *)
(* it: one of the enqueuing call, one per queued iteration, one per worker *)
(* that runs an iteration.  Whoever drops the last one runs the destructor,*)
(* which sets the bit of the id: "the task is completed".                  *)
(*                                                                         *)
(* clear() may be called by any enqueue: when every id issued so far is    *)
(* completed, or the ids are exhausted, the ids start again from 0.        *)
(***************************************************************************)
EXTENDS Integers, Sequences, FiniteSets

CONSTANTS
  Workers, Clients,
  Jobs,       \* names of the tasks, each enqueued at most once
  Kinds,      \* the kinds of tasks the callers enqueue
  MaxId,      \* taskStatusSize(): the number of ids
  Capacity,   \* of the task queue
  SlotRoom,   \* how many tasks fit in a memory slot before it is released
  Attempts    \* alloc_attempt_max

\* A task runs n iterations (a single task one); wait: wait_for_precedence;
\* nests: its function enqueues tasks itself.
KindAssumption == Kinds \subseteq
  [n : Nat \ {0}, loop : BOOLEAN, wait : BOOLEAN, nests : BOOLEAN]
ASSUME ManagerAssumption ==
  /\ IsFiniteSet(Workers) /\ Workers \cap Clients = {}
  /\ KindAssumption /\ \A k \in Kinds : k.loop \/ k.n = 1
  /\ MaxId \in Nat \ {0} /\ Capacity \in Nat \ {0} /\ SlotRoom \in Nat \ {0}
  /\ Attempts \in Nat \ {0}

VARIABLES
  idCount,  \* task_id_count_
  num,      \* num_of_tasks_; -1 tells the workers to exit
  active,   \* num_of_active_workers_
  queue,    \* task_queue_: a sequence of <<job, iteration>>
  status,   \* task_status_list_: the ids whose bit is set
  used,     \* slot -> how many tasks were put in it since its release
  job,      \* job -> the task object
  w,        \* worker -> its place in doWorkerTasks and the iteration it has
  c         \* thread -> its call on the manager

vars == <<idCount, num, active, queue, status, used, job, w, c>>
Threads == Workers \cup Clients
Ids == 0..(MaxId - 1)

\* st: "new", "made" (being enqueued), "live" (its future was returned),
\* "thrown" (handed back in an OverflowError), "refused" (BadAllocation).
NoKind == [n |-> 0, loop |-> FALSE, wait |-> FALSE, nests |-> FALSE]
NewJob == [st |-> "new", kind |-> NoKind, id |-> 0, ran |-> {}, ready |-> FALSE,
           future |-> FALSE, before |-> {}]
NoCall == [pc |-> "idle", job |-> {}, id |-> 0, i |-> 0, attempt |-> 0, after |-> "idle"]
Resting(pc) == [pc |-> pc, job |-> {}, i |-> 0]

\* The constructor returns when every worker has announced that it will wait.
Init ==
  /\ idCount = 0 /\ num = 0 /\ active = 0 /\ queue = <<>> /\ status = {}
  /\ used = [k \in Ids |-> 0]
  /\ job = [j \in Jobs |-> NewJob]
  /\ w = [t \in Workers |-> Resting("wait")]
  /\ c = [t \in Threads |-> NoCall]

-----------------------------------------------------------------------------
(* The life of a task object.  Frames hold the set of the tasks they refer *)
(* to, at most one.                                                        *)

Queued(j) == \E n \in DOMAIN queue : queue[n][1] = j
HasTask == {"add", "push", "notify", "sub", "notify_all", "return", "caught"}
Running == {"took", "precede", "body"}
CallHolds(t, j) == c[t].pc \in HasTask /\ j \in c[t].job
WorkerHolds(t, j) == w[t].pc \in Running /\ j \in w[t].job
Destroying(j) == \/ \E t \in Threads : c[t].pc = "mark" /\ j \in c[t].job
                 \/ \E t \in Workers : w[t].pc = "mark" /\ j \in w[t].job
\* Some shared_ptr to j other than the one of t's call, or of worker t.
HeldBesidesCall(t, j) == \/ Queued(j)
                         \/ \E u \in Threads \ {t} : CallHolds(u, j)
                         \/ \E u \in Workers : WorkerHolds(u, j)
\* MUTANT (of the second): the iterations still queued do not count.
HeldBesidesQueue(t, j) == \/ \E u \in Threads : CallHolds(u, j)
                          \/ \E u \in Workers \ {t} : WorkerHolds(u, j)
HeldBesidesWorker(t, j) == \/ Queued(j)
                           \/ \E u \in Threads : CallHolds(u, j)
                           \/ \E u \in Workers \ {t} : WorkerHolds(u, j)
\* The memory slot of j is occupied: its object or its future's state lives.
Occupies(j) == \/ job[j].future \/ Queued(j) \/ Destroying(j)
               \/ \E t \in Threads : CallHolds(t, j)
               \/ \E t \in Workers : WorkerHolds(t, j)

\* ~TaskImpl() of a loop fulfills the promise, then sets the bit; of a single
\* task it only sets the bit.
Destroyed(jobs, j) == [jobs EXCEPT ![j].ready = @ \/ jobs[j].kind.loop]
Ran(jobs, j, i) ==
  [jobs EXCEPT ![j].ran = @ \cup {i}, ![j].ready = @ \/ ~jobs[j].kind.loop]

\* Bitset::isAll(0, end): an empty range is never all set.
isAll(end) == end # 0 /\ 0..(end - 1) \subseteq status
\* MUTANT: the flag of task 0 is not lost, it waits for an empty range.
NeedsToWaitAlways(j) == job[j].kind.wait
\* encodeInfo() keeps the flag in the sign of the id: task 0 never waits.
NeedsToWait(j) == job[j].kind.wait /\ job[j].id # 0
MayRun(j) == NeedsToWait(j) => isAll(job[j].id)

-----------------------------------------------------------------------------
(* Notifications of num_of_tasks_: a worker "asleep" is blocked in wait(0).*)

Asleep == {t \in Workers : w[t].pc = "asleep"}
Wake(S) == w' = [t \in Workers |-> IF t \in S THEN Resting("wait") ELSE w[t]]
\* MUTANT: nobody is notified.
NotifyNone == UNCHANGED w
NotifyOne == \/ Asleep = {} /\ UNCHANGED w
             \/ \E t \in Asleep : Wake({t})

At(t, pc) == c[t].pc = pc
Go(t, pc) == c' = [c EXCEPT ![t].pc = pc]
Put(t, f) == c' = [c EXCEPT ![t] = f]

-----------------------------------------------------------------------------
(* enqueue() and enqueueLoop()                                             *)

Closing == \E t \in Clients : c[t].after = "gone"
MayCall(t) ==
  /\ c[t] = NoCall
  /\ \/ t \in Clients /\ ~Closing
     \/ t \in Workers /\ w[t].pc = "body" /\ \E j \in w[t].job : job[j].kind.nests

Accepted == {j \in Jobs : job[j].st = "live"}

Enqueue(t) == \E j \in Jobs, k \in Kinds :
  /\ MayCall(t) /\ job[j].st = "new"
  /\ t \in Workers => ~k.nests
  /\ job' = [job EXCEPT ![j] = [NewJob EXCEPT !.st = "made", !.kind = k,
                                              !.before = Accepted]]
  /\ Put(t, [NoCall EXCEPT !.pc = "issue", !.job = {j}])
  /\ UNCHANGED <<idCount, num, active, queue, status, used, w>>

\* issueTaskId()
IssueId(t) ==
  /\ c[t].pc \in {"issue", "reissue"}
  /\ Put(t, [c[t] EXCEPT !.pc = IF @ = "issue" THEN "check" ELSE "slot",
                         !.id = idCount])
  /\ idCount' = idCount + 1
  /\ UNCHANGED <<num, active, queue, status, used, job, w>>

CheckId(t) ==
  /\ At(t, "check")
  /\ IF isAll(c[t].id) \/ MaxId <= c[t].id
       THEN Put(t, [c[t] EXCEPT !.pc = "enabled", !.after = "reissue"])
       ELSE Go(t, "slot")
  /\ UNCHANGED <<idCount, num, active, queue, status, used, job, w>>

\* One attempt of createSharedTask(): an id whose slot is still occupied and
\* full is given up for the next one.
CreateTask(t) == \E j \in c[t].job :
  /\ At(t, "slot")
  /\ LET k == c[t].id
         n == IF \E o \in Jobs : job[o].id = k /\ Occupies(o) THEN used[k] ELSE 0
     IN IF n < SlotRoom
          THEN /\ used' = [used EXCEPT ![k] = n + 1]
               /\ job' = [job EXCEPT ![j].id = k]
               /\ Go(t, "add")
          ELSE /\ UNCHANGED used
               /\ IF c[t].attempt + 1 < Attempts
                    THEN /\ Put(t, [c[t] EXCEPT !.pc = "issue", !.attempt = @ + 1])
                         /\ UNCHANGED job
                    ELSE /\ Put(t, NoCall)
                         /\ job' = [job EXCEPT ![j].st = "refused"]
  /\ UNCHANGED <<idCount, num, active, queue, status, w>>

\* enqueueImpl(): the counter first, then one queue element per iteration.
AddTasks(t) == \E j \in c[t].job :
  /\ At(t, "add")
  /\ num' = num + job[j].kind.n
  /\ Go(t, "push")
  /\ UNCHANGED <<idCount, active, queue, status, used, job, w>>

Push(t) == \E j \in c[t].job :
  /\ At(t, "push")
  /\ \/ /\ Len(queue) < Capacity
        /\ queue' = Append(queue, <<j, c[t].i>>)
        /\ Go(t, "notify")
     \/ Len(queue) = Capacity /\ Go(t, "sub") /\ UNCHANGED queue
  /\ UNCHANGED <<idCount, num, active, status, used, job, w>>

Notify(t) == \E j \in c[t].job :
  /\ At(t, "notify")
  /\ NotifyOne
  /\ IF c[t].i + 1 < job[j].kind.n
       THEN Put(t, [c[t] EXCEPT !.pc = "push", !.i = @ + 1])
       ELSE Go(t, "return")
  /\ UNCHANGED <<idCount, num, active, queue, status, used, job>>

\* The call drops its shared_ptr; the last one destroys the task.
DropByCall(t, j, jobs) ==
  IF HeldBesidesCall(t, j) THEN job' = jobs /\ Put(t, NoCall)
                           ELSE job' = Destroyed(jobs, j) /\ Go(t, "mark")

ReturnFuture(t) == \E j \in c[t].job :
  /\ At(t, "return")
  /\ DropByCall(t, j, [job EXCEPT ![j].st = "live", ![j].future = TRUE])
  /\ UNCHANGED <<idCount, num, active, queue, status, used, w>>

\* MUTANT: the iteration that did not fit stays on the counter.
SubOneLess(t) == \E j \in c[t].job :
  /\ At(t, "sub")
  /\ num' = num - (job[j].kind.n - c[t].i - 1)
  /\ Go(t, "notify_all")
  /\ UNCHANGED <<idCount, active, queue, status, used, job, w>>

\* Queue overflow: the iterations left are taken off the counter, and the
\* caller gets the task in an OverflowError.
SubRest(t) == \E j \in c[t].job :
  /\ At(t, "sub")
  /\ num' = num - (job[j].kind.n - c[t].i)
  /\ Go(t, "notify_all")
  /\ UNCHANGED <<idCount, active, queue, status, used, job, w>>

Throw(t) == \E j \in c[t].job :
  /\ At(t, "notify_all")
  /\ Wake(Asleep)
  /\ job' = [job EXCEPT ![j].st = "thrown"]
  /\ Go(t, "caught")
  /\ UNCHANGED <<idCount, num, active, queue, status, used>>

\* The handler runs the iterations left itself, or lets the error go.
RunRest(t) == \E j \in c[t].job :
  /\ At(t, "caught") /\ c[t].i < job[j].kind.n /\ MayRun(j)
  /\ job' = Ran(job, j, c[t].i)
  /\ Put(t, [c[t] EXCEPT !.i = @ + 1])
  /\ UNCHANGED <<idCount, num, active, queue, status, used, w>>

DropError(t) == \E j \in c[t].job :
  /\ At(t, "caught")
  /\ DropByCall(t, j, job)
  /\ UNCHANGED <<idCount, num, active, queue, status, used, w>>

MarkByCall(t) == \E j \in c[t].job :
  /\ At(t, "mark")
  /\ status' = status \cup {job[j].id}
  /\ Put(t, NoCall)
  /\ UNCHANGED <<idCount, num, active, queue, used, job, w>>

\* The client is done with a future.
DropFuture(t) == \E j \in Jobs :
  /\ t \in Clients /\ c[t] = NoCall /\ job[j].future
  /\ job' = [job EXCEPT ![j].future = FALSE]
  /\ UNCHANGED <<idCount, num, active, queue, status, used, w, c>>

EnqueueStep(t) ==
  \/ IssueId(t) \/ CheckId(t) \/ CreateTask(t) \/ AddTasks(t)
  \/ Push(t) \/ Notify(t) \/ ReturnFuture(t) \/ SubRest(t) \/ Throw(t)
  \/ RunRest(t) \/ DropError(t) \/ MarkByCall(t)

-----------------------------------------------------------------------------
(* waitForCompletion() and clear()                                         *)

CallWait(t) ==
  /\ t \in Clients /\ MayCall(t)
  /\ \E after \in {"waited", "idle"} :
       Put(t, [NoCall EXCEPT !.pc = "enabled", !.after = after, !.job = Accepted])
  /\ UNCHANGED <<idCount, num, active, queue, status, used, job, w>>

AfterWait(t) == IF c[t].after = "waited" THEN "waited" ELSE "clear_ids"

WorkersAreEnabled(t) ==
  /\ At(t, "enabled")
  /\ Go(t, IF 0 <= num THEN "empty" ELSE AfterWait(t))
  /\ UNCHANGED <<idCount, num, active, queue, status, used, job, w>>

\* The loop spins while the queue is not empty.
SeeEmpty(t) ==
  /\ At(t, "empty") /\ queue = <<>>
  /\ Go(t, "active")
  /\ UNCHANGED <<idCount, num, active, queue, status, used, job, w>>

\* MUTANT: an empty queue is taken for completion.
SeeEmptyOnly(t) ==
  /\ At(t, "active")
  /\ Go(t, AfterWait(t))
  /\ UNCHANGED <<idCount, num, active, queue, status, used, job, w>>

SeeActive(t) ==
  /\ At(t, "active")
  /\ Go(t, IF active = 0 THEN AfterWait(t) ELSE "empty")
  /\ UNCHANGED <<idCount, num, active, queue, status, used, job, w>>

Waited(t) ==
  /\ At(t, "waited")
  /\ Put(t, NoCall)
  /\ UNCHANGED <<idCount, num, active, queue, status, used, job, w>>

ClearIds(t) ==
  /\ At(t, "clear_ids")
  /\ idCount' = 0
  /\ Go(t, "clear_queue")
  /\ UNCHANGED <<num, active, queue, status, used, job, w>>

\* The queue destroys what is left in it, the tasks nobody else holds too.
Orphans == {j \in Jobs : Queued(j) /\ (\A t \in Threads : ~CallHolds(t, j))
                                    /\ (\A t \in Workers : ~WorkerHolds(t, j))}
ClearQueue(t) ==
  /\ At(t, "clear_queue")
  /\ queue' = <<>>
  /\ job' = [j \in Jobs |-> IF j \in Orphans THEN Destroyed(job, j)[j] ELSE job[j]]
  /\ status' = status \cup {job[j].id : j \in Orphans}
  /\ Go(t, "clear_status")
  /\ UNCHANGED <<idCount, num, active, used, w>>

ClearStatus(t) ==
  /\ At(t, "clear_status")
  /\ status' = {}
  /\ Put(t, IF c[t].after = "idle" THEN NoCall ELSE [c[t] EXCEPT !.pc = c[t].after])
  /\ UNCHANGED <<idCount, num, active, queue, used, job, w>>

\* ~ThreadManager(), called once, when no client is inside of a call.
CallDestroy(t) ==
  /\ t \in Clients /\ ~Closing /\ \A u \in Clients : c[u] = NoCall
  /\ Put(t, [NoCall EXCEPT !.pc = "exit", !.after = "gone"])
  /\ UNCHANGED <<idCount, num, active, queue, status, used, job, w>>

ExitWorkers(t) ==
  /\ At(t, "exit")
  /\ num' = -1
  /\ Go(t, "exit_notify")
  /\ UNCHANGED <<idCount, active, queue, status, used, job, w>>

\* MUTANT: sleeping workers are not told to exit.
ExitSilently(t) ==
  /\ At(t, "exit_notify")
  /\ Go(t, "join")
  /\ UNCHANGED <<idCount, num, active, queue, status, used, job, w>>

ExitNotify(t) ==
  /\ At(t, "exit_notify")
  /\ Wake(Asleep)
  /\ Go(t, "join")
  /\ UNCHANGED <<idCount, num, active, queue, status, used, job>>

Join(t) ==
  /\ At(t, "join") /\ \A u \in Workers : w[u].pc = "exited"
  /\ active' = 0
  /\ Go(t, "enabled")
  /\ UNCHANGED <<idCount, num, queue, status, used, job, w>>

OtherStep(t) ==
  \/ WorkersAreEnabled(t) \/ SeeEmpty(t) \/ SeeActive(t) \/ Waited(t)
  \/ ClearIds(t) \/ ClearQueue(t) \/ ClearStatus(t)
  \/ ExitWorkers(t) \/ ExitNotify(t) \/ Join(t)

-----------------------------------------------------------------------------
(* doWorkerTasks()                                                         *)

WAt(t, pc) == w[t].pc = pc
WGo(t, pc) == w' = [w EXCEPT ![t].pc = pc]
WPut(t, f) == w' = [w EXCEPT ![t] = f]

Look(t) ==
  /\ WAt(t, "look")
  /\ WGo(t, IF 0 <= num THEN "fetch" ELSE "exited")
  /\ UNCHANGED <<idCount, num, active, queue, status, used, job, c>>

Fetch(t) ==
  /\ WAt(t, "fetch")
  /\ IF queue # <<>>
       THEN /\ WPut(t, [pc |-> "took", job |-> {Head(queue)[1]}, i |-> Head(queue)[2]])
            /\ queue' = Tail(queue)
       ELSE WGo(t, "missed") /\ UNCHANGED queue
  /\ UNCHANGED <<idCount, num, active, status, used, job, c>>

Took(t) ==
  /\ WAt(t, "took")
  /\ num' = num - 1
  /\ WGo(t, "precede")
  /\ UNCHANGED <<idCount, active, queue, status, used, job, c>>

\* waitForPrecedence() spins.
Precede(t) == \E j \in w[t].job :
  /\ WAt(t, "precede") /\ MayRun(j)
  /\ WGo(t, "body")
  /\ UNCHANGED <<idCount, num, active, queue, status, used, job, c>>

\* The function returns and the worker drops its shared_ptr.
Finish(t) == \E j \in w[t].job :
  /\ WAt(t, "body") /\ c[t] = NoCall
  /\ IF HeldBesidesWorker(t, j)
       THEN job' = Ran(job, j, w[t].i) /\ WPut(t, Resting("look"))
       ELSE job' = Destroyed(Ran(job, j, w[t].i), j) /\ WGo(t, "mark")
  /\ UNCHANGED <<idCount, num, active, queue, status, used, c>>

MarkByWorker(t) == \E j \in w[t].job :
  /\ WAt(t, "mark")
  /\ status' = status \cup {job[j].id}
  /\ WPut(t, Resting("look"))
  /\ UNCHANGED <<idCount, num, active, queue, used, job, c>>

Missed(t) ==
  /\ WAt(t, "missed")
  /\ WGo(t, IF 0 < num THEN "look" ELSE "rest")
  /\ UNCHANGED <<idCount, num, active, queue, status, used, job, c>>

Rest(t) ==
  /\ WAt(t, "rest")
  /\ active' = active - 1
  /\ WGo(t, "wait")
  /\ UNCHANGED <<idCount, num, queue, status, used, job, c>>

\* num_of_tasks_.wait(0) returns at once unless the counter is 0.
Wait(t) ==
  /\ WAt(t, "wait")
  /\ WGo(t, IF num = 0 THEN "asleep" ELSE "woken")
  /\ UNCHANGED <<idCount, num, active, queue, status, used, job, c>>

Woken(t) ==
  /\ WAt(t, "woken")
  /\ active' = active + 1
  /\ WGo(t, "look")
  /\ UNCHANGED <<idCount, num, queue, status, used, job, c>>

WorkerStep(t) ==
  \/ Look(t) \/ Fetch(t) \/ Took(t) \/ Precede(t) \/ Finish(t) \/ MarkByWorker(t)
  \/ Missed(t) \/ Rest(t) \/ Wait(t) \/ Woken(t)

-----------------------------------------------------------------------------
CallStep(t) == EnqueueStep(t) \/ OtherStep(t)

Next == \/ \E t \in Threads : Enqueue(t) \/ CallWait(t) \/ CallDestroy(t) \/ CallStep(t)
        \/ \E t \in Clients : DropFuture(t)
        \/ \E t \in Workers : WorkerStep(t)

Spec == Init /\ [][Next]_vars

\* Every thread the operating system has not stopped goes on: a worker with its
\* loop, a caller with the call it is in (and with its exception handler).
Fairness == /\ \A t \in Workers : WF_vars(WorkerStep(t))
            /\ \A t \in Threads : WF_vars(CallStep(t))
FairSpec == Spec /\ Fairness
-----------------------------------------------------------------------------
(* Properties                                                              *)

CallPcs == HasTask \cup
  {"idle", "issue", "reissue", "check", "slot", "mark", "enabled", "empty", "active",
   "waited", "clear_ids", "clear_queue", "clear_status", "exit", "exit_notify",
   "join", "gone"}
WorkerPcs == Running \cup
  {"look", "fetch", "mark", "missed", "rest", "wait", "asleep", "woken", "exited"}

\* Every variable stays in its range.
TypeOK ==
  /\ idCount \in Nat /\ num \in Int /\ active \in 0..Cardinality(Workers)
  /\ Len(queue) <= Capacity
  /\ \A n \in DOMAIN queue : queue[n] \in Jobs \X Nat
  /\ status \subseteq Ids /\ used \in [Ids -> 0..SlotRoom]
  /\ job \in [Jobs -> [st : {"new", "made", "live", "thrown", "refused"},
                       kind : Kinds \cup {NoKind}, id : Ids, ran : SUBSET Nat,
                       ready : BOOLEAN, future : BOOLEAN, before : SUBSET Jobs]]
  /\ w \in [Workers -> [pc : WorkerPcs, job : SUBSET Jobs, i : Nat]]
  /\ c \in [Threads -> [pc : CallPcs, job : SUBSET Jobs, id : Nat, i : Nat,
                        attempt : Nat, after : {"idle", "waited", "reissue", "gone"}]]

Complete(j) == job[j].ran = 0..(job[j].kind.n - 1)

\* A task enqueued with wait_for_precedence runs only when every task whose
\* enqueue had returned before it was enqueued is complete, although the ids
\* that say so are reused after a clear.
PrecedenceRespected == \A t \in Workers : WAt(t, "body") =>
  \A j \in w[t].job : job[j].kind.wait => \A o \in job[j].before : Complete(o)

\* When waitForCompletion() returns, or clear() begins to reset the ids, every
\* task accepted before the call is complete: none is in the hands of a worker
\* between the queue and the counter of active workers.
WaitIsHonest == \A t \in Threads :
  ~Closing /\ c[t].pc \in {"waited", "clear_ids"} =>
    \A j \in c[t].job : \A o \in {j} \cup job[j].before :
      job[o].st = "live" => Complete(o)

\* A future becomes ready only after every iteration of its task ran.
ReadyIsComplete == ~Closing =>
  \A j \in Jobs : job[j].st = "live" /\ job[j].ready => Complete(j)

\* Iterations a call has added to the counter and not yet put in the queue.
Enqueuing == {t \in Threads : c[t].pc \in {"push", "notify", "sub"}}
Unqueued(t, j) ==
  {j} \X ((IF At(t, "notify") THEN c[t].i + 1 ELSE c[t].i)..(job[j].kind.n - 1))
Announced == UNION {UNION {Unqueued(t, j) : j \in c[t].job} : t \in Enqueuing}

\* An enqueue that starts the ids again throws no queued task away.  NOT true of
\* the code when two threads enqueue.
EnqueueDropsNothing == \A t \in Threads :
  ~Closing /\ At(t, "clear_queue") /\ c[t].after = "reissue" => queue = <<>>

\* num_of_tasks_ is what is announced, what is queued and what was taken but not
\* counted yet; num_of_active_workers_ counts the workers that are not between
\* their two updates.  The waits of workers and of clients rely on both.
CountersAgree == ~Closing =>
  /\ num = Cardinality(Announced) + Len(queue)
             + Cardinality({t \in Workers : WAt(t, "took")})
  /\ active = Cardinality({t \in Workers : w[t].pc \notin {"wait", "asleep", "woken"}})

\* No lost wake-up: while some worker sleeps, each queued iteration has a worker
\* on its way to the queue, or a call about to notify one.
SleepersAreCalled == ~Closing /\ Asleep # {} => Len(queue) <=
  Cardinality({t \in Workers : w[t].pc \in {"wait", "woken", "look", "fetch", "missed",
                                            "rest"}})
    + Cardinality({t \in Threads : At(t, "notify")})

\* The counters the waits rely on are exact, and no wake-up is lost.
WorkIsAnnounced == CountersAgree /\ SleepersAreCalled

\* Every accepted task is completed at some time, or the manager is destroyed.
EveryTaskCompletes == \A j \in Jobs :
  job[j].st = "live" ~> Complete(j) \/ Closing

\* Every call of a client ends: enqueue, waitForCompletion, clear and the
\* destructor, which joins all workers.
EveryCallReturns == \A t \in Clients :
  c[t] # NoCall ~> c[t] = NoCall \/ At(t, "gone")
=============================================================================
