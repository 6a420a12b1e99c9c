------------------------ MODULE ThreadManagerProofs ------------------------
(***************************************************************************)
(* What the thread manager keeps for every number of workers, tasks, ids,  *)
(* slots and attempts and every queue capacity, when one client thread     *)
(* calls it (its tasks may enqueue tasks at the same time) and the queue   *)
(* loses nothing.                                                          *)
(*                                                                         *)
(* IInv, at the end, is inductive.  Its part Core says who holds which     *)
(* task and what the bits of the ids mean; Counts says what the counters   *)
(* mean, and Core needs it where a wait trusts them.  Core is given up     *)
(* when the destructor has joined the workers, or, when tasks enqueue      *)
(* tasks, when it begins (Over): a task that enqueues another one then may *)
(* start the ids again under the feet of the tasks that run.               *)
(***************************************************************************)
EXTENDS ThreadManager, FiniteSetTheorems, SequenceTheorems, TLAPS

\* One thread at most calls the manager from outside of its tasks.
OneClient == \A t, u \in Clients : t = u
Nests == \E k \in Kinds : k.nests
Joining == {"exit", "exit_notify", "join"}
\* The destructor has gone so far that Core is given up.
Over == \E t \in Clients :
  c[t].after = "gone" /\ (Nests \/ c[t].pc \notin Joining)
-----------------------------------------------------------------------------
Frames == [pc : CallPcs, job : SUBSET Jobs, id : Nat, i : Nat, attempt : Nat,
           after : {"idle", "waited", "reissue", "gone"}]
WorkerFrames == [pc : WorkerPcs, job : SUBSET Jobs, i : Nat]
Tasks == [st : {"new", "made", "live", "thrown", "refused"}, kind : Kinds \cup {NoKind},
          id : Nat, ran : SUBSET Nat, ready : BOOLEAN, future : BOOLEAN, before : SUBSET Jobs]
Types ==
  /\ idCount \in Nat /\ num \in Int /\ active \in Int
  /\ queue \in Seq(Jobs \X Nat)
  /\ status \subseteq Nat
  /\ job \in [Jobs -> Tasks] /\ w \in [Workers -> WorkerFrames] /\ c \in [Threads -> Frames]
-----------------------------------------------------------------------------
Spinning == {"enabled", "empty", "active"}
Clearing == {"clear_ids", "clear_queue", "clear_status"}
\* The call is about to make a task, which has no id yet.
Preparing(t) == \/ c[t].pc \in {"issue", "reissue", "check", "slot"}
                \/ c[t].pc \in Spinning \cup Clearing /\ c[t].after = "reissue"
Makes(t) == Preparing(t) \/ c[t].pc \in HasTask \cup {"mark"}
InHand(t, j) == w[t].pc \in Running \cup {"mark"} /\ j \in w[t].job
Held(j) == \/ Queued(j) \/ \E t \in Threads : CallHolds(t, j)
           \/ \E t \in Workers : WorkerHolds(t, j)
Alive(j) == Held(j) \/ Destroying(j)

Entering == {"add", "push", "notify", "sub", "notify_all", "return"}
StateOf(t) == IF Preparing(t) \/ c[t].pc \in Entering THEN {"made"}
              ELSE IF c[t].pc = "caught" THEN {"thrown"} ELSE {"live", "thrown"}

JobsInv == \A j \in Jobs :
  /\ job[j].st = "new" => job[j] = NewJob
  /\ job[j].st # "new" => job[j].kind \in Kinds
  /\ job[j].st = "made" => \E t \in Threads : Makes(t) /\ j \in c[t].job
  /\ job[j].ran \subseteq 0..(job[j].kind.n - 1)
  /\ \A o \in job[j].before : job[o].st = "live"
QueueInv == \A n \in DOMAIN queue :
  job[queue[n][1]].st # "new" /\ queue[n][2] < job[queue[n][1]].kind.n
Grip(t) == \A j \in w[t].job : InHand(t, j) =>
  /\ \A k \in w[t].job : k = j
  /\ job[j].st # "new"
  /\ w[t].pc \in Running => w[t].i < job[j].kind.n
Nested(t) == c[t] # NoCall => /\ w[t].pc = "body" /\ Makes(t) /\ Nests
                              /\ c[t].pc \notin Clearing \cup {"reissue"}
WorkerInv == \A t \in Workers : Grip(t) /\ Nested(t)
Sole(t, j) == \A k \in c[t].job : k = j
MakesInv(t) == Makes(t) => \A j \in c[t].job :
  /\ Sole(t, j)
  /\ \A u \in Threads : Makes(u) /\ j \in c[u].job => u = t
  /\ job[j].st \in StateOf(t)
  /\ c[t].pc \in {"push", "notify", "sub", "notify_all"} => c[t].i < job[j].kind.n
  /\ Preparing(t) => ~Alive(j)
Shape(t) ==
  /\ c[t].pc = "idle" => c[t] = NoCall
  /\ Preparing(t) \/ c[t].pc = "add" => c[t].i = 0
  /\ c[t].pc \in Clearing => c[t].after # "waited"
  /\ c[t].pc = "waited" => c[t].after = "waited"
  /\ c[t].pc \in Joining \cup {"gone"} => c[t].after = "gone"
  /\ c[t].after = "gone" => t \in Clients /\ c[t].pc \in Joining \cup Spinning \cup Clearing \cup {"gone"}
CallInv == \A t \in Threads : Shape(t) /\ MakesInv(t)

\* An iteration that is not behind its call in the queue or in the hands of a worker has run.
Pending(j, i) == \/ \E n \in DOMAIN queue : queue[n] = <<j, i>>
                 \/ \E t \in Workers : WorkerHolds(t, j) /\ w[t].i = i
Passed(t, j, i) == /\ j \in c[t].job
                   /\ \/ c[t].pc = "push" /\ i < c[t].i
                      \/ c[t].pc = "notify" /\ i <= c[t].i
                      \/ c[t].pc = "return"
Enqueued(j, i) == job[j].st = "live" \/ \E t \in Threads : Passed(t, j, i)
RunInv == \A j \in Jobs :
  \A i \in 0..(job[j].kind.n - 1) : Enqueued(j, i) => i \in job[j].ran \/ Pending(j, i)
ReadyInv == \A j \in Jobs :
  /\ job[j].st \in {"made", "live"} /\ job[j].ready => Complete(j)
  /\ job[j].st = "live" /\ Destroying(j) => Complete(j)
  /\ Destroying(j) => ~Held(j)

Chosen(t) == c[t].pc \in {"check", "slot"}
ResetByCall == \E t \in Threads : c[t].pc \in {"clear_queue", "clear_status"}
IdInv ==
  /\ \A j \in Jobs : Alive(j) => job[j].id < idCount /\ job[j].id < MaxId
  /\ \A j, o \in Jobs : Alive(j) /\ Alive(o) /\ job[j].id = job[o].id => j = o
  /\ \A t \in Threads : Chosen(t) =>
       /\ c[t].id < idCount
       /\ \A j \in Jobs : Alive(j) => job[j].id # c[t].id
       /\ \A u \in Threads : Chosen(u) /\ c[u].id = c[t].id => u = t
       /\ c[t].pc = "slot" => c[t].id < MaxId
StatusInv ==
  /\ \A j \in Jobs : Held(j) => job[j].id \notin status
  /\ \A t \in Threads : Chosen(t) => c[t].id \notin status
  /\ ResetByCall \/ \A k \in status : k < idCount
OrderInv ==
  /\ \A j \in Jobs : Alive(j) => \A o \in job[j].before : Complete(o) \/ job[o].id < job[j].id
  /\ \A t \in Threads : Chosen(t) => \A j \in c[t].job : \A o \in job[j].before :
       Complete(o) \/ job[o].id < c[t].id
QuietPcs == Clearing \cup {"waited", "reissue"}
Quiet == queue = <<>> /\ \A t \in Workers : w[t].pc \notin Running \cup {"mark"}
AwaitAt(t) ==
  /\ c[t].pc \in QuietPcs => Quiet
  /\ c[t].pc \in {"clear_queue", "clear_status", "reissue"} => idCount = 0
  /\ c[t].pc = "active" => queue = <<>> \/ \E u \in Workers :
       w[u].pc \in Running \cup {"mark", "look", "fetch", "missed"}
AwaitInv == \A t \in Clients : AwaitAt(t)
Core == JobsInv /\ QueueInv /\ WorkerInv /\ CallInv /\ RunInv /\ ReadyInv /\ IdInv /\ StatusInv
        /\ OrderInv /\ PrecedenceRespected /\ AwaitInv

ClosingInv ==
  /\ \A t \in Threads : c[t].after = "gone" =>
       t \in Clients /\ c[t].pc \in Joining \cup Spinning \cup Clearing \cup {"gone"}
  /\ \A t \in Clients : c[t].after = "gone" /\ c[t].pc \notin Joining =>
        \A u \in Workers : w[u].pc = "exited"
Counts == WorkIsAnnounced /\ (~Closing => IsFiniteSet(Announced))
-----------------------------------------------------------------------------
(* Types.                                                                   *)

Others(t) == \A u \in Threads \ {t} : c'[u] = c[u]
OtherWorkers(t) == \A u \in Workers \ {t} : w'[u] = w[u]
OtherTasks(j) == \A o \in Jobs \ {j} : job'[o] = job[o]

\* A thread is a worker or a client, never both.
LEMMA Distinct == Threads = Workers \cup Clients /\ Workers \cap Clients = {}
BY ManagerAssumption DEF Threads

\* The frame of a thread that is in no call is a frame.
LEMMA NoCallFrame == NoCall \in Frames
BY DEF NoCall, Frames, CallPcs, HasTask

\* The fields of a kind.
LEMMA KindTypes ==
  ASSUME NEW k \in Kinds \cup {NoKind}
  PROVE  k.n \in Nat /\ k.loop \in BOOLEAN /\ k.wait \in BOOLEAN /\ k.nests \in BOOLEAN
         /\ (k \in Kinds => k.n # 0)
<1> DEFINE AllKinds == [n : Nat, loop : BOOLEAN, wait : BOOLEAN, nests : BOOLEAN]
<1>1. k \in AllKinds /\ (k \in Kinds => k.n # 0)
  <2>1. CASE k \in Kinds
    <3>1. k \in [n : Nat \ {0}, loop : BOOLEAN, wait : BOOLEAN, nests : BOOLEAN]
      BY <2>1, ManagerAssumption DEF KindAssumption
    <3> QED
      BY <3>1
  <2>2. CASE k \notin Kinds
    <3>1. k = NoKind
      BY <2>2
    <3>2. NoKind \in AllKinds
      BY DEF NoKind
    <3> QED
      BY <2>2, <3>1, <3>2
  <2> QED
    BY <2>1, <2>2
<1> QED
  BY <1>1

\* The fields of the frame of a call.
LEMMA FrameFields ==
  ASSUME Types, NEW t \in Threads
  PROVE  /\ c[t] \in Frames /\ c[t].pc \in CallPcs /\ c[t].job \subseteq Jobs
         /\ c[t].id \in Nat /\ c[t].i \in Nat /\ c[t].attempt \in Nat
         /\ c[t].after \in {"idle", "waited", "reissue", "gone"}
BY DEF Types, Frames

\* The fields of the frame of a worker.
LEMMA WorkerFields ==
  ASSUME Types, NEW t \in Workers
  PROVE  /\ w[t] \in WorkerFrames /\ w[t].pc \in WorkerPcs /\ w[t].job \subseteq Jobs
         /\ w[t].i \in Nat
BY DEF Types, WorkerFrames

\* The fields of a task.
LEMMA TaskFields ==
  ASSUME Types, NEW j \in Jobs
  PROVE  /\ job[j] \in Tasks /\ job[j].st \in {"new", "made", "live", "thrown", "refused"}
         /\ job[j].kind \in Kinds \cup {NoKind} /\ job[j].id \in Nat /\ job[j].ran \subseteq Nat
         /\ job[j].ready \in BOOLEAN /\ job[j].future \in BOOLEAN /\ job[j].before \subseteq Jobs
BY DEF Types, Tasks

\* Put(t, f) gives t the frame f and leaves the other calls alone.
LEMMA PutFacts ==
  ASSUME Types, NEW t \in Threads, NEW f \in Frames, Put(t, f)
  PROVE  c' \in [Threads -> Frames] /\ Others(t) /\ c'[t] = f
BY DEF Types, Put, Others

\* A frame with another pc is a frame with the same task.
LEMMA GoFrame ==
  ASSUME NEW f \in Frames, NEW p \in CallPcs
  PROVE  LET g == [f EXCEPT !.pc = p]
         IN  /\ g \in Frames /\ g.pc = p /\ g.job = f.job /\ g.id = f.id /\ g.i = f.i
             /\ g.attempt = f.attempt /\ g.after = f.after
BY DEF Frames

\* Go(t, p) moves t to p and changes nothing else.
LEMMA GoFacts ==
  ASSUME Types, NEW t \in Threads, NEW p \in CallPcs, Go(t, p)
  PROVE  /\ c' \in [Threads -> Frames] /\ Others(t)
         /\ c'[t].pc = p /\ c'[t].job = c[t].job /\ c'[t].id = c[t].id /\ c'[t].i = c[t].i
         /\ c'[t].attempt = c[t].attempt /\ c'[t].after = c[t].after
<1>1. c[t] \in Frames /\ c \in [Threads -> Frames]
  BY DEF Types
<1> DEFINE g == [c[t] EXCEPT !.pc = p]
<1>2. g \in Frames /\ g.pc = p /\ g.job = c[t].job /\ g.id = c[t].id /\ g.i = c[t].i
      /\ g.attempt = c[t].attempt /\ g.after = c[t].after
  BY <1>1, GoFrame
<1>3. c' = [c EXCEPT ![t] = g]
  BY DEF Go
<1> HIDE DEF g
<1> QED
  BY <1>1, <1>2, <1>3 DEF Others

\* WPut(t, f) gives worker t the frame f and leaves the others alone.
LEMMA WPutFacts ==
  ASSUME Types, NEW t \in Workers, NEW f \in WorkerFrames, WPut(t, f)
  PROVE  w' \in [Workers -> WorkerFrames] /\ OtherWorkers(t) /\ w'[t] = f
BY DEF Types, WPut, OtherWorkers

\* WGo(t, p) moves worker t to p and changes nothing else.
LEMMA WGoFacts ==
  ASSUME Types, NEW t \in Workers, NEW p \in WorkerPcs, WGo(t, p)
  PROVE  /\ w' \in [Workers -> WorkerFrames] /\ OtherWorkers(t)
         /\ w'[t].pc = p /\ w'[t].job = w[t].job /\ w'[t].i = w[t].i
<1>1. w[t] \in WorkerFrames /\ w \in [Workers -> WorkerFrames]
  BY DEF Types
<1> DEFINE g == [w[t] EXCEPT !.pc = p]
<1>2. g \in WorkerFrames /\ g.pc = p /\ g.job = w[t].job /\ g.i = w[t].i
  BY <1>1 DEF WorkerFrames
<1>3. w' = [w EXCEPT ![t] = g]
  BY DEF WGo
<1> HIDE DEF g
<1> QED
  BY <1>1, <1>2, <1>3 DEF OtherWorkers

\* A worker at rest has no task.
LEMMA RestingFrame ==
  ASSUME NEW p \in WorkerPcs
  PROVE  Resting(p) \in WorkerFrames /\ Resting(p).pc = p /\ Resting(p).job = {}
BY DEF Resting, WorkerFrames

\* Wake(S) sends the workers of S, all asleep, back to the wait.
LEMMA WakeFacts ==
  ASSUME Types, NEW S \in SUBSET Asleep, Wake(S)
  PROVE  /\ w' \in [Workers -> WorkerFrames]
         /\ \A u \in Workers : \/ w'[u] = w[u] /\ u \notin S
                               \/ u \in S /\ w[u].pc = "asleep" /\ w'[u] = Resting("wait")
BY RestingFrame DEF Types, Wake, Asleep, WorkerPcs

\* A task that is replaced leaves the other tasks as they were.
LEMMA TaskUpdate ==
  ASSUME Types, NEW j \in Jobs, NEW r \in Tasks, job' = [job EXCEPT ![j] = r]
  PROVE  job' \in [Jobs -> Tasks] /\ OtherTasks(j) /\ job'[j] = r
BY DEF Types, OtherTasks
-----------------------------------------------------------------------------
(* Steps that leave every task where it is.                                 *)

Busy(u) == w[u].pc \in Running \cup {"mark"}
CalmCall(t) ==
  /\ Others(t)
  /\ Makes(t)' <=> Makes(t)
  /\ Makes(t) => c'[t].job = c[t].job
  /\ c'[t].pc \in HasTask <=> c[t].pc \in HasTask
  /\ c'[t].pc = "mark" <=> c[t].pc = "mark"
  /\ \A j \in Jobs : \A i \in 0..(job[j].kind.n - 1) : Passed(t, j, i)' => Passed(t, j, i)
CalmWorker(u) ==
  \/ ~Busy(u) /\ ~Busy(u)'
  \/ /\ w'[u].job = w[u].job /\ w'[u].i = w[u].i
     /\ w'[u].pc \in Running <=> w[u].pc \in Running
     /\ w'[u].pc = "mark" <=> w[u].pc = "mark"
Calm(t) == UNCHANGED <<job, queue>> /\ CalmCall(t) /\ \A u \in Workers : CalmWorker(u)

SameHands ==
  /\ \A u \in Threads, j \in Jobs : CallHolds(u, j)' <=> CallHolds(u, j)
  /\ \A u \in Workers, j \in Jobs : WorkerHolds(u, j)' <=> WorkerHolds(u, j)
  /\ \A u \in Workers, j \in Jobs : InHand(u, j)' <=> InHand(u, j)
  /\ \A j \in Jobs : Queued(j)' <=> Queued(j)
  /\ \A j \in Jobs : Destroying(j)' <=> Destroying(j)
  /\ \A j \in Jobs : Held(j)' <=> Held(j)
  /\ \A j \in Jobs : Alive(j)' <=> Alive(j)
  /\ \A j \in Jobs, i \in Nat : Pending(j, i)' <=> Pending(j, i)

\* In a calm step every task stays in the hands that hold it.
LEMMA CalmHands ==
  ASSUME NEW t \in Threads, queue' = queue, CalmCall(t), \A u \in Workers : CalmWorker(u)
  PROVE  SameHands
<1>1. queue' = queue /\ CalmCall(t) /\ \A u \in Workers : CalmWorker(u)
  OBVIOUS
<1>2. \A u \in Threads, j \in Jobs : CallHolds(u, j)' <=> CallHolds(u, j)
  BY <1>1 DEF CalmCall, Others, CallHolds, Makes
<1>3. \A u \in Workers, j \in Jobs : WorkerHolds(u, j)' <=> WorkerHolds(u, j)
  BY <1>1 DEF CalmWorker, WorkerHolds, Busy
<1>4. \A u \in Workers, j \in Jobs : InHand(u, j)' <=> InHand(u, j)
  BY <1>1 DEF CalmWorker, InHand, Busy
<1>5. \A j \in Jobs : Queued(j)' <=> Queued(j)
  BY <1>1 DEF Queued
<1>6. \A j \in Jobs : Destroying(j)' <=> Destroying(j)
  <2>1. \A u \in Workers, j \in Jobs :
          w'[u].pc = "mark" /\ j \in w'[u].job <=> w[u].pc = "mark" /\ j \in w[u].job
    BY <1>1 DEF CalmWorker, Busy
  <2>2. \A u \in Threads, j \in Jobs :
          c'[u].pc = "mark" /\ j \in c'[u].job <=> c[u].pc = "mark" /\ j \in c[u].job
    BY <1>1 DEF CalmCall, Others, Makes
  <2> QED
    BY <2>1, <2>2 DEF Destroying
<1>7. \A j \in Jobs : Held(j)' <=> Held(j)
  BY <1>2, <1>3, <1>5 DEF Held
<1>8. \A j \in Jobs : Alive(j)' <=> Alive(j)
  BY <1>6, <1>7 DEF Alive
<1>9. \A j \in Jobs, i \in Nat : Pending(j, i)' <=> Pending(j, i)
  <2>1. \A u \in Workers, j \in Jobs, i \in Nat :
          (WorkerHolds(u, j) /\ w[u].i = i)' <=> WorkerHolds(u, j) /\ w[u].i = i
    BY <1>1, <1>3 DEF CalmWorker, WorkerHolds, Busy
  <2> QED
    BY <1>1, <2>1 DEF Pending
<1> QED
  BY <1>2, <1>3, <1>4, <1>5, <1>6, <1>7, <1>8, <1>9 DEF SameHands

\* A calm step keeps the invariants about tasks and the queue.
LEMMA CalmTasks ==
  ASSUME Types, NEW t \in Threads, Calm(t), JobsInv, QueueInv, RunInv, ReadyInv
  PROVE  JobsInv' /\ QueueInv' /\ RunInv' /\ ReadyInv'
<1>1. UNCHANGED <<job, queue>> /\ CalmCall(t) /\ SameHands
  BY CalmHands DEF Calm
<1>2. JobsInv'
  <2>1. \A j \in Jobs : (\E u \in Threads : Makes(u) /\ j \in c[u].job)
                          => (\E u \in Threads : Makes(u) /\ j \in c[u].job)'
    <3> SUFFICES ASSUME NEW j \in Jobs, NEW u \in Threads, Makes(u), j \in c[u].job
                 PROVE  Makes(u)' /\ j \in c'[u].job
      OBVIOUS
    <3>1. CASE u = t
      BY <1>1, <3>1 DEF CalmCall
    <3>2. CASE u # t
      <4>1. c'[u] = c[u]
        BY <1>1, <3>2 DEF CalmCall, Others
      <4> QED
        BY <4>1 DEF Makes, Preparing
    <3> QED
      BY <3>1, <3>2
  <2> QED
    BY <1>1, <2>1 DEF JobsInv
<1>3. QueueInv'
  BY <1>1 DEF QueueInv
<1>4. RunInv'
  <2> SUFFICES ASSUME NEW j \in Jobs, NEW i \in 0..(job[j].kind.n - 1), Enqueued(j, i)'
               PROVE  i \in job[j].ran \/ Pending(j, i)'
    BY <1>1 DEF RunInv
  <2>1. Enqueued(j, i)
    <3>1. CASE job[j].st = "live"
      BY <3>1 DEF Enqueued
    <3>2. CASE job[j].st # "live"
      <4>1. PICK u \in Threads : Passed(u, j, i)'
        BY <1>1, <3>2 DEF Enqueued
      <4>2. CASE u = t
        BY <1>1, <4>1, <4>2 DEF CalmCall, Enqueued
      <4>3. CASE u # t
        <5>1. c'[u] = c[u]
          BY <1>1, <4>3 DEF CalmCall, Others
        <5> QED
          BY <4>1, <5>1 DEF Passed, Enqueued
      <4> QED
        BY <4>2, <4>3
    <3> QED
      BY <3>1, <3>2
  <2>2. i \in Nat
    BY TaskFields, KindTypes
  <2> QED
    BY <1>1, <2>1, <2>2 DEF RunInv, SameHands
<1>5. ReadyInv'
  BY <1>1 DEF ReadyInv, SameHands, Complete
<1> QED
  BY <1>2, <1>3, <1>4, <1>5
-----------------------------------------------------------------------------
(* A call moves on and its task stays where it is.                          *)

\* What the new frame of t must satisfy.
Lands(t) ==
  /\ Shape(t)'
  /\ Preparing(t)' <=> Preparing(t)
  /\ Makes(t) => StateOf(t) \subseteq StateOf(t)'
  /\ Makes(t) /\ c'[t].pc \in {"push", "notify", "sub", "notify_all"} =>
       \A j \in c[t].job : c'[t].i < job[j].kind.n
  /\ t \in Workers => c'[t] = NoCall \/ (c[t] # NoCall /\ c'[t].pc \notin Clearing \cup {"reissue"})
CallMove(t) == UNCHANGED <<job, queue, w>> /\ CalmCall(t) /\ Lands(t)

\* Workers change their place, none its task.
Stands(u) == w[u].pc = "body" /\ c[u] # NoCall => w'[u] = w[u]

\* A calm step whose new frame fits its task keeps the invariants of calls.
LEMMA CalmCalls ==
  ASSUME Types, NEW t \in Threads, Calm(t), Lands(t), CallInv
  PROVE  CallInv'
<1>1. UNCHANGED <<job, queue>> /\ CalmCall(t) /\ SameHands
  BY CalmHands DEF Calm
<1>2. \A u \in Threads : /\ Makes(u)' <=> Makes(u)
                         /\ Makes(u) => c'[u].job = c[u].job
                         /\ Preparing(u)' <=> Preparing(u)
  <2> SUFFICES ASSUME NEW u \in Threads, u # t
               PROVE  /\ Makes(u)' <=> Makes(u)
                      /\ Makes(u) => c'[u].job = c[u].job
                      /\ Preparing(u)' <=> Preparing(u)
    BY <1>1 DEF CalmCall, Lands
  <2>1. c'[u] = c[u]
    BY <1>1 DEF CalmCall, Others
  <2> QED
    BY <2>1 DEF Makes, Preparing
<1> SUFFICES ASSUME NEW u \in Threads
             PROVE  Shape(u)' /\ MakesInv(u)'
  BY DEF CallInv
<1>3. Shape(u)'
  <2>1. CASE u = t
    BY <2>1 DEF Lands
  <2>2. CASE u # t
    <3>1. c'[u] = c[u]
      BY <1>1, <2>2 DEF CalmCall, Others
    <3> QED
      BY <3>1 DEF CallInv, Shape, Preparing
  <2> QED
    BY <2>1, <2>2
<1>4. MakesInv(u)'
  <2> SUFFICES ASSUME Makes(u)', NEW j \in c'[u].job
               PROVE  /\ Sole(u, j)'
                      /\ \A v \in Threads : Makes(v)' /\ j \in c'[v].job => v = u
                      /\ job'[j].st \in StateOf(u)'
                      /\ c'[u].pc \in {"push", "notify", "sub", "notify_all"} =>
                           c'[u].i < job'[j].kind.n
                      /\ Preparing(u)' => ~Alive(j)'
    BY DEF MakesInv
  <2>1. MakesInv(u) /\ Makes(u) /\ c'[u].job = c[u].job /\ j \in c[u].job /\ j \in Jobs
    BY <1>2, FrameFields DEF CallInv
  <2>2. /\ Sole(u, j)'
        /\ \A v \in Threads : Makes(v)' /\ j \in c'[v].job => v = u
    BY <1>2, <2>1 DEF MakesInv, Sole
  <2>3. Preparing(u)' => ~Alive(j)'
    BY <1>1, <1>2, <2>1 DEF MakesInv, SameHands
  <2>4. CASE u = t
    BY <1>1, <2>1, <2>2, <2>3, <2>4 DEF Lands, MakesInv
  <2>5. CASE u # t
    <3>1. c'[u] = c[u]
      BY <1>1, <2>5 DEF CalmCall, Others
    <3>2. StateOf(u)' = StateOf(u)
      BY <3>1 DEF StateOf, Preparing
    <3> QED
      BY <1>1, <1>2, <2>1, <2>2, <2>3, <3>1, <3>2 DEF MakesInv
  <2> QED
    BY <2>4, <2>5
<1> QED
  BY <1>3, <1>4

\* A calm step in which no worker inside of a call moves keeps those of workers.
LEMMA CalmWorkers ==
  ASSUME Types, NEW t \in Threads, Calm(t), Lands(t), WorkerInv, \A u \in Workers : Stands(u)
  PROVE  WorkerInv'
<1>1. UNCHANGED <<job, queue>> /\ CalmCall(t) /\ SameHands
  BY CalmHands DEF Calm
<1> SUFFICES ASSUME NEW u \in Workers
             PROVE  Grip(u)' /\ Nested(u)'
  BY DEF WorkerInv
<1>2. Grip(u) /\ Nested(u) /\ u \in Threads
  BY DEF WorkerInv, Threads
<1>3. Grip(u)'
  <2> SUFFICES ASSUME NEW j \in w'[u].job, InHand(u, j)'
               PROVE  /\ \A k \in w'[u].job : k = j
                      /\ job'[j].st # "new"
                      /\ w'[u].pc \in Running => w'[u].i < job'[j].kind.n
    BY DEF Grip
  <2>1. CalmWorker(u) /\ Busy(u)'
    BY DEF Calm, InHand, Busy
  <2>2. /\ w'[u].job = w[u].job /\ w'[u].i = w[u].i
        /\ w'[u].pc \in Running <=> w[u].pc \in Running
        /\ w'[u].pc = "mark" <=> w[u].pc = "mark"
    BY <2>1 DEF CalmWorker
  <2> QED
    BY <1>1, <1>2, <2>2 DEF Grip, InHand
<1>4. Nested(u)'
  <2>1. CASE u = t
    BY <1>1, <1>2, <2>1 DEF Lands, CalmCall, Nested, Stands
  <2>2. CASE u # t
    <3>1. c'[u] = c[u]
      BY <1>1, <1>2, <2>2 DEF CalmCall, Others
    <3> QED
      BY <1>2, <3>1 DEF Nested, Makes, Preparing, Stands
  <2> QED
    BY <2>1, <2>2
<1> QED
  BY <1>3, <1>4

\* No thread takes a new id, and no id changes its meaning.
LEMMA CalmIds ==
  ASSUME Types, NEW t \in Threads, Calm(t), IdInv, StatusInv, OrderInv,
         UNCHANGED <<idCount, status>>,
         Chosen(t)' => /\ Chosen(t) /\ c'[t].id = c[t].id
                       /\ c'[t].pc = "slot" => c[t].id < MaxId,
         c[t].pc \in {"clear_queue", "clear_status"} =>
           c'[t].pc \in {"clear_queue", "clear_status"}
  PROVE  IdInv' /\ StatusInv' /\ OrderInv'
<1>1. UNCHANGED <<job, queue>> /\ CalmCall(t) /\ SameHands
  BY CalmHands DEF Calm
<1>2. \A u \in Threads : Chosen(u)' =>
        /\ Chosen(u) /\ c'[u].id = c[u].id /\ c'[u].job = c[u].job
        /\ c'[u].pc = "slot" => c'[u].id < MaxId
  <2> SUFFICES ASSUME NEW u \in Threads, Chosen(u)'
               PROVE  /\ Chosen(u) /\ c'[u].id = c[u].id /\ c'[u].job = c[u].job
                      /\ c'[u].pc = "slot" => c'[u].id < MaxId
    OBVIOUS
  <2>1. CASE u = t
    BY <1>1, <2>1 DEF CalmCall, Chosen, Makes, Preparing
  <2>2. CASE u # t
    BY <1>1, <2>2 DEF CalmCall, Others, Chosen, IdInv
  <2> QED
    BY <2>1, <2>2
<1>3. IdInv'
  <2>1. \A j \in Jobs : Alive(j)' => job'[j].id < idCount' /\ job'[j].id < MaxId
    BY <1>1 DEF IdInv, SameHands
  <2>2. \A j, o \in Jobs : Alive(j)' /\ Alive(o)' /\ job'[j].id = job'[o].id => j = o
    BY <1>1 DEF IdInv, SameHands
  <2>3. ASSUME NEW u \in Threads, Chosen(u)'
        PROVE  /\ c'[u].id < idCount'
               /\ \A j \in Jobs : Alive(j)' => job'[j].id # c'[u].id
               /\ \A v \in Threads : Chosen(v)' /\ c'[v].id = c'[u].id => v = u
               /\ c'[u].pc = "slot" => c'[u].id < MaxId
    BY <1>1, <1>2, <2>3 DEF IdInv, SameHands
  <2> QED
    BY <2>1, <2>2, <2>3 DEF IdInv
<1>4. StatusInv'
  <2>1. \A j \in Jobs : Held(j)' => job'[j].id \notin status'
    BY <1>1 DEF StatusInv, SameHands
  <2>2. \A u \in Threads : Chosen(u)' => c'[u].id \notin status'
    BY <1>1, <1>2 DEF StatusInv, SameHands
  <2>3. ResetByCall => ResetByCall'
    BY <1>1 DEF ResetByCall, CalmCall, Others
  <2> QED
    BY <2>1, <2>2, <2>3 DEF StatusInv
<1>5. OrderInv'
  <2>1. \A j \in Jobs : Alive(j)' =>
          \A o \in job'[j].before : Complete(o)' \/ job'[o].id < job'[j].id
    BY <1>1 DEF OrderInv, SameHands, Complete
  <2>2. \A u \in Threads : Chosen(u)' => \A j \in c'[u].job : \A o \in job'[j].before :
          Complete(o)' \/ job'[o].id < c'[u].id
    BY <1>1, <1>2 DEF OrderInv, Complete
  <2> QED
    BY <2>1, <2>2 DEF OrderInv
<1> QED
  BY <1>3, <1>4, <1>5
-----------------------------------------------------------------------------
(* Every step keeps the types.                                              *)

\* The frame issueTaskId() leaves behind.
LEMMA FrameIssue ==
  ASSUME NEW f \in Frames, NEW n \in Nat, f.pc \in {"issue", "reissue"}
  PROVE  LET g == [f EXCEPT !.pc = IF @ = "issue" THEN "check" ELSE "slot", !.id = n]
         IN  /\ g \in Frames /\ g.pc = (IF f.pc = "issue" THEN "check" ELSE "slot")
             /\ g.id = n /\ g.job = f.job /\ g.i = f.i /\ g.after = f.after
<1> DEFINE p == IF f.pc = "issue" THEN "check" ELSE "slot"
           g == [f EXCEPT !.pc = p, !.id = n]
<1>1. p \in CallPcs
  BY DEF CallPcs
<1>2. [f EXCEPT !.pc = IF @ = "issue" THEN "check" ELSE "slot", !.id = n] = g
  BY DEF Frames
<1> HIDE DEF p
<1>3. /\ g \in Frames /\ g.pc = p
      /\ g.id = n /\ g.job = f.job /\ g.i = f.i /\ g.after = f.after
  BY <1>1 DEF Frames
<1> QED
  BY <1>2, <1>3 DEF p

\* The frame of an enqueue that starts the ids again.
LEMMA FrameEnable ==
  ASSUME NEW f \in Frames
  PROVE  LET g == [f EXCEPT !.pc = "enabled", !.after = "reissue"]
         IN  /\ g \in Frames /\ g.pc = "enabled" /\ g.after = "reissue"
             /\ g.id = f.id /\ g.job = f.job /\ g.i = f.i
BY DEF Frames, CallPcs

\* The frame of the next attempt to create a task.
LEMMA FrameRetry ==
  ASSUME NEW f \in Frames
  PROVE  LET g == [f EXCEPT !.pc = "issue", !.attempt = @ + 1]
         IN  /\ g \in Frames /\ g.pc = "issue" /\ g.after = f.after
             /\ g.job = f.job /\ g.i = f.i
<1> DEFINE n == f.attempt + 1
<1>1. n \in Nat
  BY DEF Frames
<1> HIDE DEF n
<1>2. LET g == [f EXCEPT !.pc = "issue", !.attempt = n]
      IN  /\ g \in Frames /\ g.pc = "issue" /\ g.after = f.after
          /\ g.job = f.job /\ g.i = f.i
  BY <1>1 DEF Frames, CallPcs
<1> QED
  BY <1>2 DEF n

\* The frame of the next iteration to enqueue.
LEMMA FrameNext ==
  ASSUME NEW f \in Frames
  PROVE  LET g == [f EXCEPT !.pc = "push", !.i = @ + 1]
         IN  /\ g \in Frames /\ g.pc = "push" /\ g.after = f.after
             /\ g.job = f.job /\ g.i = f.i + 1
<1> DEFINE n == f.i + 1
<1>1. n \in Nat
  BY DEF Frames
<1> HIDE DEF n
<1>2. LET g == [f EXCEPT !.pc = "push", !.i = n]
      IN  /\ g \in Frames /\ g.pc = "push" /\ g.after = f.after
          /\ g.job = f.job /\ g.i = n
  BY <1>1 DEF Frames, CallPcs, HasTask
<1> QED
  BY <1>2 DEF n

\* The frame of a handler that ran one iteration.
LEMMA FrameRan ==
  ASSUME NEW f \in Frames
  PROVE  LET g == [f EXCEPT !.i = @ + 1]
         IN  /\ g \in Frames /\ g.pc = f.pc /\ g.after = f.after
             /\ g.job = f.job /\ g.i = f.i + 1
<1> DEFINE n == f.i + 1
<1>1. n \in Nat
  BY DEF Frames
<1> HIDE DEF n
<1>2. LET g == [f EXCEPT !.i = n]
      IN  /\ g \in Frames /\ g.pc = f.pc /\ g.after = f.after
          /\ g.job = f.job /\ g.i = n
  BY <1>1 DEF Frames
<1> QED
  BY <1>2 DEF n

\* The first frame of an enqueue.
LEMMA NewEnqueue ==
  ASSUME NEW S \in SUBSET Jobs
  PROVE  LET g == [NoCall EXCEPT !.pc = "issue", !.job = S]
         IN  g \in Frames /\ g.pc = "issue" /\ g.job = S /\ g.i = 0 /\ g.after = "idle"
BY DEF NoCall, Frames, CallPcs, HasTask

\* The first frame of waitForCompletion() or clear().
LEMMA NewWait ==
  ASSUME NEW S \in SUBSET Jobs, NEW a \in {"waited", "idle"}
  PROVE  LET g == [NoCall EXCEPT !.pc = "enabled", !.after = a, !.job = S]
         IN  g \in Frames /\ g.pc = "enabled" /\ g.job = S /\ g.after = a
BY DEF NoCall, Frames, CallPcs, HasTask

\* The first frame of the destructor.
LEMMA NewDestroy ==
  LET g == [NoCall EXCEPT !.pc = "exit", !.after = "gone"]
  IN  g \in Frames /\ g.pc = "exit" /\ g.job = {} /\ g.after = "gone"
BY DEF NoCall, Frames, CallPcs, HasTask

\* The fields of the frame of no call.
LEMMA NoCallFields == NoCall.pc = "idle" /\ NoCall.job = {} /\ NoCall.after = "idle"
BY DEF NoCall

\* An enqueue that begins keeps the types.
LEMMA TypesEnqueue == ASSUME Types, NEW t \in Threads, Enqueue(t) PROVE Types'
<1>1. PICK j \in Jobs, k \in Kinds :
        /\ job' = [job EXCEPT ![j] = [NewJob EXCEPT !.st = "made", !.kind = k, !.before = Accepted]]
        /\ Put(t, [NoCall EXCEPT !.pc = "issue", !.job = {j}])
        /\ UNCHANGED <<idCount, num, active, queue, status, used, w>>
  BY DEF Enqueue
<1>2. [NoCall EXCEPT !.pc = "issue", !.job = {j}] \in Frames
  <2>1. {j} \in SUBSET Jobs
    OBVIOUS
  <2> QED
    BY <2>1, NewEnqueue
<1>3. [NewJob EXCEPT !.st = "made", !.kind = k, !.before = Accepted] \in Tasks
  BY DEF Tasks, NewJob, Accepted
<1> QED
  BY <1>1, <1>2, <1>3, PutFacts, TaskUpdate DEF Types

\* issueTaskId() takes the counter for the id and counts it up.
LEMMA IssueFacts ==
  ASSUME Types, NEW t \in Threads, IssueId(t)
  PROVE  /\ c[t].pc \in {"issue", "reissue"}
         /\ c' \in [Threads -> Frames] /\ Others(t)
         /\ c'[t].pc = (IF c[t].pc = "issue" THEN "check" ELSE "slot")
         /\ c'[t].id = idCount /\ c'[t].job = c[t].job /\ c'[t].i = c[t].i
         /\ c'[t].after = c[t].after
         /\ idCount' = idCount + 1
         /\ UNCHANGED <<num, active, queue, status, used, job, w>>
<1> DEFINE g == [c[t] EXCEPT !.pc = IF @ = "issue" THEN "check" ELSE "slot", !.id = idCount]
<1>1. c[t].pc \in {"issue", "reissue"} /\ Put(t, g) /\ idCount' = idCount + 1
      /\ UNCHANGED <<num, active, queue, status, used, job, w>>
  BY DEF IssueId
<1>2. c[t] \in Frames /\ idCount \in Nat
  BY DEF Types
<1>3. /\ g \in Frames /\ g.pc = (IF c[t].pc = "issue" THEN "check" ELSE "slot")
      /\ g.id = idCount /\ g.job = c[t].job /\ g.i = c[t].i /\ g.after = c[t].after
  BY <1>1, <1>2, FrameIssue
<1> HIDE DEF g
<1>4. c' \in [Threads -> Frames] /\ Others(t) /\ c'[t] = g
  BY <1>1, <1>3, PutFacts
<1> QED
  BY <1>1, <1>3, <1>4

\* issueTaskId() keeps the types.
LEMMA TypesIssueId == ASSUME Types, NEW t \in Threads, IssueId(t) PROVE Types'
<1>1. c' \in [Threads -> Frames] /\ idCount' = idCount + 1
      /\ UNCHANGED <<num, active, queue, status, used, job, w>>
  BY IssueFacts
<1> QED
  BY <1>1 DEF Types

\* The check of the id keeps the types.
LEMMA TypesCheckId == ASSUME Types, NEW t \in Threads, CheckId(t) PROVE Types'
<1>1. c' \in [Threads -> Frames]
  BY FrameEnable, FrameFields, PutFacts, GoFacts DEF CheckId, CallPcs
<1> QED
  BY <1>1 DEF CheckId, Types

\* createSharedTask() keeps the types.
LEMMA TypesCreateTask == ASSUME Types, NEW t \in Threads, CreateTask(t) PROVE Types'
<1>1. PICK j \in c[t].job :
        /\ \/ job' = [job EXCEPT ![j].id = c[t].id] /\ Go(t, "add")
           \/ Put(t, [c[t] EXCEPT !.pc = "issue", !.attempt = @ + 1]) /\ UNCHANGED job
           \/ Put(t, NoCall) /\ job' = [job EXCEPT ![j].st = "refused"]
        /\ UNCHANGED <<idCount, num, active, queue, status, w>>
  BY DEF CreateTask
<1>2. c' \in [Threads -> Frames]
  BY <1>1, FrameRetry, FrameFields, NoCallFrame, PutFacts, GoFacts DEF CallPcs, HasTask
<1>3. j \in Jobs /\ c[t].id \in Nat
  BY FrameFields
<1>4. [job[j] EXCEPT !.id = c[t].id] \in Tasks /\ [job[j] EXCEPT !.st = "refused"] \in Tasks
  BY <1>3, TaskFields DEF Tasks
<1>5. job' \in [Jobs -> Tasks]
  BY <1>1, <1>3, <1>4, TaskUpdate DEF Types
<1> QED
  BY <1>1, <1>2, <1>5 DEF Types

\* The addition to the counter keeps the types.
LEMMA TypesAddTasks == ASSUME Types, NEW t \in Threads, AddTasks(t) PROVE Types'
<1>1. PICK j \in c[t].job : num' = num + job[j].kind.n /\ Go(t, "push")
                            /\ UNCHANGED <<idCount, active, queue, status, used, job, w>>
  BY DEF AddTasks
<1>2. job[j].kind.n \in Nat
  BY FrameFields, TaskFields, KindTypes
<1>3. c' \in [Threads -> Frames]
  BY <1>1, GoFacts DEF CallPcs, HasTask
<1> QED
  BY <1>1, <1>2, <1>3 DEF Types

\* The subtraction after an overflow keeps the types.
LEMMA TypesSubRest == ASSUME Types, NEW t \in Threads, SubRest(t) PROVE Types'
<1>1. PICK j \in c[t].job : num' = num - (job[j].kind.n - c[t].i) /\ Go(t, "notify_all")
                            /\ UNCHANGED <<idCount, active, queue, status, used, job, w>>
  BY DEF SubRest
<1>2. job[j].kind.n \in Nat /\ c[t].i \in Nat
  BY FrameFields, TaskFields, KindTypes
<1>3. c' \in [Threads -> Frames]
  BY <1>1, GoFacts DEF CallPcs, HasTask
<1> QED
  BY <1>1, <1>2, <1>3 DEF Types

\* A push, successful or not, keeps the types.
LEMMA TypesPush == ASSUME Types, NEW t \in Threads, Push(t) PROVE Types'
<1>1. PICK j \in c[t].job :
        /\ \/ queue' = queue \/ queue' = Append(queue, <<j, c[t].i>>)
        /\ Go(t, "notify") \/ Go(t, "sub")
        /\ UNCHANGED <<idCount, num, active, status, used, job, w>>
  BY DEF Push
<1>2. c' \in [Threads -> Frames]
  BY <1>1, GoFacts DEF CallPcs, HasTask
<1>3. <<j, c[t].i>> \in Jobs \X Nat
  BY FrameFields
<1>4. queue' \in Seq(Jobs \X Nat)
  <2>1. queue \in Seq(Jobs \X Nat)
    BY DEF Types
  <2>2. Append(queue, <<j, c[t].i>>) \in Seq(Jobs \X Nat)
    BY <1>3, <2>1, AppendProperties
  <2> QED
    BY <1>1, <2>1, <2>2
<1> QED
  BY <1>1, <1>2, <1>4 DEF Types

\* notify_one() wakes at most one sleeper.
LEMMA NotifyFacts ==
  ASSUME Types, NotifyOne
  PROVE  /\ w' \in [Workers -> WorkerFrames]
         /\ \A u \in Workers : \/ w'[u] = w[u]
                               \/ w[u].pc = "asleep" /\ w'[u] = Resting("wait")
<1>1. CASE UNCHANGED w
  BY <1>1 DEF Types
<1>2. CASE \E t \in Asleep : Wake({t})
  BY <1>2, WakeFacts
<1> QED
  BY <1>1, <1>2 DEF NotifyOne

\* A notification keeps the types.
LEMMA TypesNotify == ASSUME Types, NEW t \in Threads, Notify(t) PROVE Types'
<1>1. c' \in [Threads -> Frames]
  BY FrameNext, FrameFields, PutFacts, GoFacts DEF Notify, CallPcs, HasTask
<1> QED
  BY <1>1, NotifyFacts DEF Notify, Types

\* A call that drops its shared_ptr destroys the task if it was the last.
LEMMA DropFacts ==
  ASSUME Types, NEW t \in Threads, NEW j \in Jobs, NEW jobs \in [Jobs -> Tasks],
         DropByCall(t, j, jobs)
  PROVE  /\ c' \in [Threads -> Frames] /\ Others(t) /\ job' \in [Jobs -> Tasks]
         /\ \A o \in Jobs \ {j} : job'[o] = jobs[o]
         /\ \/ HeldBesidesCall(t, j) /\ c'[t] = NoCall /\ job' = jobs
            \/ /\ ~HeldBesidesCall(t, j) /\ c'[t].pc = "mark" /\ c'[t].job = c[t].job
               /\ c'[t].i = c[t].i /\ c'[t].after = c[t].after
               /\ job'[j].ready = (jobs[j].ready \/ jobs[j].kind.loop)
         /\ job'[j].st = jobs[j].st /\ job'[j].kind = jobs[j].kind /\ job'[j].id = jobs[j].id
         /\ job'[j].ran = jobs[j].ran /\ job'[j].before = jobs[j].before
         /\ job'[j].future = jobs[j].future
<1>1. CASE HeldBesidesCall(t, j)
  BY <1>1, PutFacts, NoCallFrame DEF DropByCall
<1>2. CASE ~HeldBesidesCall(t, j)
  <2>1. job' = Destroyed(jobs, j) /\ Go(t, "mark")
    BY <1>2 DEF DropByCall
  <2> DEFINE b == jobs[j].ready \/ jobs[j].kind.loop
             r == [jobs[j] EXCEPT !.ready = b]
  <2>2. jobs[j] \in Tasks /\ b \in BOOLEAN
    BY KindTypes DEF Tasks
  <2>3. r \in Tasks /\ r.ready = b /\ r.st = jobs[j].st /\ r.kind = jobs[j].kind
        /\ r.id = jobs[j].id /\ r.ran = jobs[j].ran /\ r.before = jobs[j].before
        /\ r.future = jobs[j].future
    BY <2>2 DEF Tasks
  <2>4. job' = [jobs EXCEPT ![j] = r]
    BY <2>1 DEF Destroyed
  <2> HIDE DEF r, b
  <2>5. job' \in [Jobs -> Tasks] /\ job'[j] = r /\ \A o \in Jobs \ {j} : job'[o] = jobs[o]
    BY <2>3, <2>4
  <2>6. job'[j].ready = (jobs[j].ready \/ jobs[j].kind.loop)
    BY <2>3, <2>5 DEF b
  <2> QED
    BY <1>2, <2>1, <2>3, <2>5, <2>6, GoFacts DEF CallPcs
<1> QED
  BY <1>1, <1>2

\* What the return of a future writes to the task.
LEMMA ReturnFacts ==
  ASSUME Types, NEW j \in Jobs
  PROVE  LET r == [job EXCEPT ![j].st = "live", ![j].future = TRUE]
         IN  /\ r \in [Jobs -> Tasks] /\ \A o \in Jobs \ {j} : r[o] = job[o]
             /\ r[j].st = "live" /\ r[j].future /\ r[j].kind = job[j].kind /\ r[j].id = job[j].id
             /\ r[j].ran = job[j].ran /\ r[j].before = job[j].before
             /\ r[j].ready = job[j].ready
<1> DEFINE q == [job[j] EXCEPT !.st = "live"]
           r == [q EXCEPT !.future = TRUE]
<1>0. q \in Tasks /\ q.st = "live" /\ q.kind = job[j].kind /\ q.id = job[j].id
      /\ q.ran = job[j].ran /\ q.before = job[j].before /\ q.ready = job[j].ready
  BY TaskFields DEF Tasks
<1>1. r \in Tasks /\ r.st = "live" /\ r.future /\ r.kind = job[j].kind /\ r.id = job[j].id
      /\ r.ran = job[j].ran /\ r.before = job[j].before /\ r.ready = job[j].ready
  BY <1>0 DEF Tasks
<1>2. [job EXCEPT ![j].st = "live", ![j].future = TRUE] = [job EXCEPT ![j] = r]
  BY DEF Types
<1> HIDE DEF r
<1> QED
  BY <1>1, <1>2 DEF Types
\* What the run of an iteration writes to the task.
LEMMA RanFacts ==
  ASSUME NEW jobs \in [Jobs -> Tasks], NEW j \in Jobs, NEW i \in Nat
  PROVE  LET r == Ran(jobs, j, i)
         IN  /\ r \in [Jobs -> Tasks] /\ \A o \in Jobs \ {j} : r[o] = jobs[o]
             /\ r[j].ran = jobs[j].ran \cup {i} /\ r[j].ready = (jobs[j].ready \/ ~jobs[j].kind.loop)
             /\ r[j].st = jobs[j].st /\ r[j].kind = jobs[j].kind /\ r[j].id = jobs[j].id
             /\ r[j].before = jobs[j].before /\ r[j].future = jobs[j].future
<1> DEFINE b == jobs[j].ready \/ ~jobs[j].kind.loop
           R == jobs[j].ran \cup {i}
           q == [jobs[j] EXCEPT !.ran = R]
           r == [q EXCEPT !.ready = b]
<1>1. jobs[j] \in Tasks /\ R \in SUBSET Nat /\ b \in BOOLEAN
  BY KindTypes DEF Tasks
<1>2. Ran(jobs, j, i) = [jobs EXCEPT ![j] = r]
  BY DEF Ran, Tasks
<1> HIDE DEF b, R
<1>3. q \in Tasks /\ q.ran = R /\ q.st = jobs[j].st /\ q.kind = jobs[j].kind /\ q.id = jobs[j].id
      /\ q.before = jobs[j].before /\ q.future = jobs[j].future
  BY <1>1 DEF Tasks
<1> HIDE DEF q
<1>4. r \in Tasks /\ r.ran = R /\ r.ready = b /\ r.st = q.st /\ r.kind = q.kind /\ r.id = q.id
      /\ r.before = q.before /\ r.future = q.future
  BY <1>1, <1>3 DEF Tasks
<1> HIDE DEF r
<1>5. [jobs EXCEPT ![j] = r] \in [Jobs -> Tasks] /\ [jobs EXCEPT ![j] = r][j] = r
      /\ \A o \in Jobs \ {j} : [jobs EXCEPT ![j] = r][o] = jobs[o]
  BY <1>4
<1> QED
  BY <1>2, <1>3, <1>4, <1>5 DEF b, R

\* What ~TaskImpl() writes to the task.
LEMMA DestroyedFacts ==
  ASSUME NEW jobs \in [Jobs -> Tasks], NEW j \in Jobs
  PROVE  LET r == Destroyed(jobs, j)
         IN  /\ r \in [Jobs -> Tasks] /\ \A o \in Jobs \ {j} : r[o] = jobs[o]
             /\ r[j].ready = (jobs[j].ready \/ jobs[j].kind.loop) /\ r[j].ran = jobs[j].ran
             /\ r[j].st = jobs[j].st /\ r[j].kind = jobs[j].kind /\ r[j].id = jobs[j].id
             /\ r[j].before = jobs[j].before /\ r[j].future = jobs[j].future
<1> DEFINE b == jobs[j].ready \/ jobs[j].kind.loop
           r == [jobs[j] EXCEPT !.ready = b]
<1>1. jobs[j] \in Tasks /\ b \in BOOLEAN
  BY KindTypes DEF Tasks
<1>2. Destroyed(jobs, j) = [jobs EXCEPT ![j] = r]
  BY DEF Destroyed
<1> HIDE DEF b
<1>3. r \in Tasks /\ r.ready = b /\ r.st = jobs[j].st /\ r.kind = jobs[j].kind /\ r.id = jobs[j].id
      /\ r.before = jobs[j].before /\ r.future = jobs[j].future /\ r.ran = jobs[j].ran
  BY <1>1 DEF Tasks
<1> HIDE DEF r
<1>4. [jobs EXCEPT ![j] = r] \in [Jobs -> Tasks] /\ [jobs EXCEPT ![j] = r][j] = r
      /\ \A o \in Jobs \ {j} : [jobs EXCEPT ![j] = r][o] = jobs[o]
  BY <1>3
<1> QED
  BY <1>2, <1>3, <1>4 DEF b

\* The return of a future keeps the types.
LEMMA TypesReturnFuture == ASSUME Types, NEW t \in Threads, ReturnFuture(t) PROVE Types'
<1> DEFINE jobs(j) == [job EXCEPT ![j].st = "live", ![j].future = TRUE]
<1>1. PICK j \in c[t].job : DropByCall(t, j, jobs(j))
                            /\ UNCHANGED <<idCount, num, active, queue, status, used, w>>
  BY DEF ReturnFuture
<1>2. j \in Jobs
  BY FrameFields
<1>3. jobs(j) \in [Jobs -> Tasks]
  BY <1>2, ReturnFacts
<1> HIDE DEF jobs
<1>4. c' \in [Threads -> Frames] /\ job' \in [Jobs -> Tasks]
  BY <1>1, <1>2, <1>3, DropFacts
<1> QED
  BY <1>1, <1>4 DEF Types

\* The end of an exception handler keeps the types.
LEMMA TypesDropError == ASSUME Types, NEW t \in Threads, DropError(t) PROVE Types'
<1>1. PICK j \in c[t].job : DropByCall(t, j, job)
                            /\ UNCHANGED <<idCount, num, active, queue, status, used, w>>
  BY DEF DropError
<1>2. j \in Jobs /\ job \in [Jobs -> Tasks]
  BY FrameFields DEF Types
<1>3. c' \in [Threads -> Frames] /\ job' \in [Jobs -> Tasks]
  BY <1>1, <1>2, DropFacts
<1> QED
  BY <1>1, <1>3 DEF Types

\* The throw of an OverflowError keeps the types.
LEMMA TypesThrow == ASSUME Types, NEW t \in Threads, Throw(t) PROVE Types'
<1>1. PICK j \in c[t].job : job' = [job EXCEPT ![j].st = "thrown"]
  BY DEF Throw
<1>2. j \in Jobs
  BY FrameFields
<1>3. [job[j] EXCEPT !.st = "thrown"] \in Tasks
  BY <1>2, TaskFields DEF Tasks
<1>4. job' \in [Jobs -> Tasks]
  BY <1>1, <1>2, <1>3, TaskUpdate
<1>5. w' \in [Workers -> WorkerFrames]
  BY WakeFacts DEF Throw
<1>6. c' \in [Threads -> Frames]
  BY GoFacts DEF Throw, CallPcs, HasTask
<1> QED
  BY <1>4, <1>5, <1>6 DEF Throw, Types

\* A handler that runs an iteration keeps the types.
LEMMA TypesRunRest == ASSUME Types, NEW t \in Threads, RunRest(t) PROVE Types'
<1>1. PICK j \in c[t].job : job' = Ran(job, j, c[t].i) /\ Put(t, [c[t] EXCEPT !.i = @ + 1])
                            /\ UNCHANGED <<idCount, num, active, queue, status, used, w>>
  BY DEF RunRest
<1>2. j \in Jobs /\ c[t].i \in Nat /\ c[t] \in Frames /\ job \in [Jobs -> Tasks]
  BY FrameFields DEF Types
<1>3. job' \in [Jobs -> Tasks]
  BY <1>1, <1>2, RanFacts
<1>4. c' \in [Threads -> Frames]
  BY <1>1, <1>2, FrameRan, PutFacts
<1> QED
  BY <1>1, <1>3, <1>4 DEF Types

\* A destructor run by a call keeps the types.
LEMMA TypesMarkByCall == ASSUME Types, NEW t \in Threads, MarkByCall(t) PROVE Types'
<1>1. PICK j \in c[t].job : status' = status \cup {job[j].id} /\ Put(t, NoCall)
                            /\ UNCHANGED <<idCount, num, active, queue, used, job, w>>
  BY DEF MarkByCall
<1>2. job[j].id \in Nat
  BY FrameFields, TaskFields
<1> QED
  BY <1>1, <1>2, PutFacts, NoCallFrame DEF Types

\* A dropped future keeps the types.
LEMMA TypesDropFuture == ASSUME Types, NEW t \in Threads, DropFuture(t) PROVE Types'
<1>1. PICK j \in Jobs : job' = [job EXCEPT ![j].future = FALSE]
                        /\ UNCHANGED <<idCount, num, active, queue, status, used, w, c>>
  BY DEF DropFuture
<1>2. [job[j] EXCEPT !.future = FALSE] \in Tasks
  <2>1. job[j] \in Tasks
    BY TaskFields
  <2> QED
    BY <2>1 DEF Tasks
<1> QED
  BY <1>1, <1>2, TaskUpdate DEF Types

\* The steps that only move a call, or write a counter, keep the types.
LEMMA TypesSpin ==
  ASSUME Types, NEW t \in Threads,
         \/ CallWait(t) \/ CallDestroy(t) \/ WorkersAreEnabled(t) \/ SeeEmpty(t) \/ SeeActive(t)
         \/ Waited(t) \/ ClearIds(t) \/ ExitWorkers(t) \/ Join(t)
  PROVE  Types'
<1>1. CASE CallWait(t)
  <2>1. Accepted \in SUBSET Jobs
    BY DEF Accepted
  <2> QED
    BY <1>1, <2>1, NewWait, PutFacts DEF CallWait, Types
<1>2. CASE CallDestroy(t)
  BY <1>2, NewDestroy, PutFacts DEF CallDestroy, Types
<1>3. CASE WorkersAreEnabled(t)
  BY <1>3, GoFacts DEF WorkersAreEnabled, AfterWait, CallPcs, Types
<1>4. CASE SeeEmpty(t)
  BY <1>4, GoFacts DEF SeeEmpty, CallPcs, Types
<1>5. CASE SeeActive(t)
  BY <1>5, GoFacts DEF SeeActive, AfterWait, CallPcs, Types
<1>6. CASE Waited(t)
  BY <1>6, PutFacts, NoCallFrame DEF Waited, Types
<1>7. CASE ClearIds(t)
  BY <1>7, GoFacts DEF ClearIds, CallPcs, Types
<1>8. CASE ExitWorkers(t)
  BY <1>8, GoFacts DEF ExitWorkers, CallPcs, Types
<1>9. CASE Join(t)
  BY <1>9, GoFacts DEF Join, CallPcs, Types
<1> QED
  BY <1>1, <1>2, <1>3, <1>4, <1>5, <1>6, <1>7, <1>8, <1>9

\* Clearing the queue keeps the types.
LEMMA TypesClearQueue == ASSUME Types, NEW t \in Threads, ClearQueue(t) PROVE Types'
<1>1. c' \in [Threads -> Frames]
  BY GoFacts DEF ClearQueue, CallPcs
<1>2. job' \in [Jobs -> Tasks]
  BY DestroyedFacts DEF ClearQueue, Types
<1>3. status' \subseteq Nat
  BY TaskFields DEF ClearQueue, Types, Orphans
<1>4. queue' \in Seq(Jobs \X Nat)
  BY EmptySeq DEF ClearQueue
<1> QED
  BY <1>1, <1>2, <1>3, <1>4 DEF ClearQueue, Types

\* After clear() the call goes on to what it cleared for.
LEMMA ClearStatusFacts ==
  ASSUME Types, NEW t \in Threads, ClearStatus(t)
  PROVE  /\ c' \in [Threads -> Frames] /\ Others(t)
         /\ c[t].after = "idle" => c'[t] = NoCall
         /\ c[t].after # "idle" => /\ c'[t].pc = c[t].after /\ c'[t].job = c[t].job
                                   /\ c'[t].i = c[t].i /\ c'[t].after = c[t].after
         /\ c[t].pc = "clear_status" /\ status' = {}
         /\ UNCHANGED <<idCount, num, active, queue, used, job, w>>
<1>1. CASE c[t].after = "idle"
  BY <1>1, PutFacts, NoCallFrame DEF ClearStatus, At
<1>2. CASE c[t].after # "idle"
  <2>1. Go(t, c[t].after) /\ c[t].after \in CallPcs
    BY <1>2, FrameFields DEF ClearStatus, Put, Go, Types, CallPcs
  <2> QED
    BY <1>2, <2>1, GoFacts DEF ClearStatus, At
<1> QED
  BY <1>1, <1>2

\* Waking the workers for their exit keeps the types.
LEMMA TypesExitNotify == ASSUME Types, NEW t \in Threads, ExitNotify(t) PROVE Types'
BY WakeFacts, GoFacts DEF ExitNotify, Types, CallPcs

\* Every step of a call keeps the types.
LEMMA TypesCall == ASSUME Types, NEW t \in Threads, CallStep(t) PROVE Types'
<1>1. CASE ClearStatus(t)
  <2>1. c' \in [Threads -> Frames] /\ status' = {}
        /\ UNCHANGED <<idCount, num, active, queue, used, job, w>>
    BY <1>1, ClearStatusFacts
  <2> QED
    BY <2>1 DEF Types
<1> QED
  BY <1>1, TypesIssueId, TypesCheckId, TypesCreateTask, TypesAddTasks, TypesPush, TypesNotify,
     TypesReturnFuture, TypesSubRest, TypesThrow, TypesRunRest, TypesDropError, TypesMarkByCall,
     TypesSpin, TypesClearQueue, TypesExitNotify DEF CallStep, EnqueueStep, OtherStep
\* Every step of a worker keeps the types.
LEMMA TypesWorker == ASSUME Types, NEW t \in Workers, WorkerStep(t) PROVE Types'
<1>1. CASE Look(t)
  BY <1>1, WGoFacts DEF Look, WorkerPcs, Types
<1>2. CASE Fetch(t)
  <2>1. CASE queue # <<>>
    <3> DEFINE S == Jobs \X Nat
    <3>1. queue \in Seq(S) /\ queue # <<>>
      BY <2>1 DEF Types
    <3>2. Head(queue) \in S /\ queue' \in Seq(S)
      BY <1>2, <2>1, <3>1, HeadTailProperties DEF Fetch
    <3>3. [pc |-> "took", job |-> {Head(queue)[1]}, i |-> Head(queue)[2]] \in WorkerFrames
      BY <3>2 DEF WorkerFrames, WorkerPcs, Running
    <3>4. w' \in [Workers -> WorkerFrames]
      BY <1>2, <2>1, <3>3, WPutFacts DEF Fetch
    <3> QED
      BY <1>2, <3>2, <3>4 DEF Fetch, Types
  <2>2. CASE queue = <<>>
    <3>1. WGo(t, "missed") /\ UNCHANGED <<idCount, num, active, queue, status, used, job, c>>
      BY <1>2, <2>2 DEF Fetch
    <3> QED
      BY <3>1, WGoFacts DEF Types, WorkerPcs
  <2> QED
    BY <2>1, <2>2
<1>3. CASE Took(t)
  BY <1>3, WGoFacts DEF Took, WorkerPcs, Running, Types
<1>4. CASE Precede(t)
  <2>1. w' \in [Workers -> WorkerFrames]
    BY <1>4, WGoFacts DEF Precede, WorkerPcs, Running
  <2> QED
    BY <1>4, <2>1 DEF Precede, Types
<1>5. CASE Finish(t)
  <2>1. PICK j \in w[t].job :
          /\ \/ job' = Ran(job, j, w[t].i) /\ WPut(t, Resting("look"))
             \/ job' = Destroyed(Ran(job, j, w[t].i), j) /\ WGo(t, "mark")
          /\ UNCHANGED <<idCount, num, active, queue, status, used, c>>
    BY <1>5 DEF Finish
  <2>2. j \in Jobs /\ w[t].i \in Nat /\ job \in [Jobs -> Tasks]
    BY WorkerFields DEF Types
  <2>3. job' \in [Jobs -> Tasks]
    <3>1. Ran(job, j, w[t].i) \in [Jobs -> Tasks]
      BY <2>2, RanFacts
    <3>2. Destroyed(Ran(job, j, w[t].i), j) \in [Jobs -> Tasks]
      BY <2>2, <3>1, DestroyedFacts
    <3> QED
      BY <2>1, <3>1, <3>2
  <2>4. w' \in [Workers -> WorkerFrames]
    <3>1. Resting("look") \in WorkerFrames /\ "mark" \in WorkerPcs
      BY RestingFrame DEF WorkerPcs
    <3> QED
      BY <2>1, <3>1, WPutFacts, WGoFacts
  <2> QED
    BY <2>1, <2>3, <2>4 DEF Types
<1>6. CASE MarkByWorker(t)
  <2>1. PICK j \in w[t].job : /\ status' = status \cup {job[j].id} /\ WPut(t, Resting("look"))
                              /\ UNCHANGED <<idCount, num, active, queue, used, job, c>>
    BY <1>6 DEF MarkByWorker
  <2>2. job[j].id \in Nat
    BY WorkerFields, TaskFields
  <2> QED
    <3>1. w' \in [Workers -> WorkerFrames]
      BY <2>1, WPutFacts, RestingFrame DEF WorkerPcs
    <3> QED
      BY <2>1, <2>2, <3>1 DEF Types
<1>7. CASE Missed(t)
  BY <1>7, WGoFacts DEF Missed, WorkerPcs, Types
<1>8. CASE Rest(t)
  BY <1>8, WGoFacts DEF Rest, WorkerPcs, Types
<1>9. CASE Wait(t)
  BY <1>9, WGoFacts DEF Wait, WorkerPcs, Types
<1>10. CASE Woken(t)
  BY <1>10, WGoFacts DEF Woken, WorkerPcs, Types
<1> QED
  BY <1>1, <1>2, <1>3, <1>4, <1>5, <1>6, <1>7, <1>8, <1>9, <1>10 DEF WorkerStep

\* Every step keeps the types.
LEMMA TypesStep == ASSUME Types, [Next]_vars PROVE Types'
<1>1. CASE UNCHANGED vars
  BY <1>1 DEF vars, Types
<1>2. CASE Next
  <2>1. ASSUME NEW t \in Threads, Enqueue(t) \/ CallWait(t) \/ CallDestroy(t) \/ CallStep(t)
        PROVE  Types'
    BY <2>1, TypesEnqueue, TypesSpin, TypesCall
  <2>2. ASSUME NEW t \in Clients, DropFuture(t) PROVE Types'
    BY <2>2, TypesDropFuture, Distinct
  <2> QED
    BY <1>2, <2>1, <2>2, TypesWorker DEF Next
<1> QED
  BY <1>1, <1>2

\* The constructor establishes the types.
LEMMA TypesInit == ASSUME Init PROVE Types
<1>1. NewJob \in Tasks
  BY DEF NewJob, Tasks
<1>2. Resting("wait") \in WorkerFrames
  BY RestingFrame DEF WorkerPcs
<1>3. <<>> \in Seq(Jobs \X Nat)
  BY EmptySeq
<1> QED
  BY <1>1, <1>2, <1>3, NoCallFrame DEF Init, Types
-----------------------------------------------------------------------------
(* Calls that move on without touching a task, a worker or the queue.       *)

\* A call that moves on keeps every conjunct of Core that is not about ids or waits.
LEMMA MoveKeeps ==
  ASSUME Types, NEW t \in Threads, CallMove(t), Core
  PROVE  /\ Calm(t) /\ SameHands
         /\ JobsInv' /\ QueueInv' /\ WorkerInv' /\ CallInv' /\ RunInv' /\ ReadyInv'
         /\ PrecedenceRespected'
<1>1. Calm(t) /\ Lands(t) /\ UNCHANGED <<job, queue, w>>
  BY DEF CallMove, Calm, CalmWorker
<1>2. JobsInv' /\ QueueInv' /\ RunInv' /\ ReadyInv'
  BY <1>1, CalmTasks DEF Core
<1>3. CallInv'
  BY <1>1, CalmCalls DEF Core
<1>4. \A u \in Workers : Stands(u)
  BY <1>1 DEF Stands
<1>5. WorkerInv'
  BY <1>1, <1>4, CalmWorkers DEF Core
<1>6. PrecedenceRespected'
  <2>1. PrecedenceRespected
    BY DEF Core
  <2> QED
    BY <1>1, <2>1 DEF PrecedenceRespected, WAt, Complete
<1> QED
  BY <1>1, <1>2, <1>3, <1>5, <1>6, CalmHands DEF Calm

\* What a wait has seen stays true while neither the queue nor a worker moves.
LEMMA AwaitMoves ==
  ASSUME NEW t \in Threads, UNCHANGED <<queue, w, idCount>>, Others(t), AwaitInv,
         t \in Clients => AwaitAt(t)'
  PROVE  AwaitInv'
<1> SUFFICES ASSUME NEW u \in Clients, u # t PROVE AwaitAt(u)'
  BY DEF AwaitInv
<1>1. c'[u] = c[u] /\ AwaitAt(u)
  BY Distinct DEF AwaitInv, Others
<1> QED
  BY <1>1 DEF AwaitAt, Quiet

\* Inside of a call, unless it is the destructor.
LEMMA InsideCall ==
  ASSUME OneClient, Types, Core, ~Over, NEW t \in Threads, c[t].pc # "idle", c[t].pc \notin Joining
  PROVE  /\ ~Closing /\ c[t] # NoCall /\ c[t].after # "gone"
         /\ t \in Workers => Makes(t) /\ Nests /\ w[t].pc = "body"
                             /\ c[t].pc \notin Clearing \cup {"reissue"}
<1>1. c[t] # NoCall
  BY NoCallFields
<1>2. t \in Workers => Makes(t) /\ Nests /\ w[t].pc = "body" /\ c[t].pc \notin Clearing \cup {"reissue"}
  BY <1>1 DEF Core, WorkerInv, Nested
<1>3. ASSUME NEW u \in Clients, c[u].after = "gone" PROVE FALSE
  <2>1. ~Nests /\ c[u].pc \in Joining
    BY <1>3 DEF Over
  <2>2. t \in Clients
    BY <1>2, <2>1, Distinct
  <2> QED
    BY <2>1, <2>2 DEF OneClient
<1>4. c[t].after = "gone" => t \in Clients
  BY DEF Core, CallInv, Shape
<1> QED
  BY <1>1, <1>2, <1>3, <1>4 DEF Closing

\* CheckId keeps Core.
LEMMA CheckIdCore ==
  ASSUME OneClient, Types, Core, ~Over, NEW t \in Threads, CheckId(t)
  PROVE  Core'
<1>1. /\ c[t].pc = "check" /\ Others(t) /\ c'[t].job = c[t].job /\ c'[t].id = c[t].id
      /\ c'[t].i = c[t].i
      /\ \/ c'[t].pc = "enabled" /\ c'[t].after = "reissue"
         \/ c'[t].pc = "slot" /\ c'[t].after = c[t].after /\ ~(MaxId <= c[t].id)
      /\ UNCHANGED <<idCount, num, active, queue, status, used, job, w>>
  <2>1. CASE isAll(c[t].id) \/ MaxId <= c[t].id
    <3> DEFINE g == [c[t] EXCEPT !.pc = "enabled", !.after = "reissue"]
    <3>1. At(t, "check") /\ Put(t, g)
          /\ UNCHANGED <<idCount, num, active, queue, status, used, job, w>>
      BY <2>1 DEF CheckId
    <3>2. /\ g \in Frames /\ g.pc = "enabled" /\ g.after = "reissue"
          /\ g.id = c[t].id /\ g.job = c[t].job /\ g.i = c[t].i
      BY FrameEnable, FrameFields
    <3> HIDE DEF g
    <3>3. Others(t) /\ c'[t] = g
      BY <3>1, <3>2, PutFacts
    <3> QED
      BY <3>1, <3>2, <3>3 DEF At
  <2>2. CASE ~(isAll(c[t].id) \/ MaxId <= c[t].id)
    BY <2>2, GoFacts DEF CheckId, At, CallPcs
  <2> QED
    BY <2>1, <2>2
<1>2. Shape(t) /\ Preparing(t) /\ Makes(t)
  BY <1>1 DEF Core, CallInv, Makes, Preparing
<1>3. c[t].after # "gone" /\ (t \in Workers => c[t] # NoCall)
  BY <1>1, InsideCall DEF Joining
<1>4. CalmCall(t)
  BY <1>1 DEF CalmCall, Makes, Preparing, Spinning, HasTask, Passed
<1>5. Lands(t)
  <2>1. Preparing(t)'
    BY <1>1 DEF Preparing, Spinning
  <2>2. Shape(t)'
    BY <1>1, <1>2, <1>3, <2>1 DEF Shape, Clearing, Joining
  <2>3. StateOf(t) \subseteq StateOf(t)'
    BY <1>2, <2>1 DEF StateOf
  <2> QED
    BY <1>1, <1>2, <1>3, <2>1, <2>2, <2>3 DEF Lands, Clearing
<1>6. CallMove(t)
  BY <1>1, <1>4, <1>5 DEF CallMove
<1>7. IdInv' /\ StatusInv' /\ OrderInv'
  <2>1. MaxId \in Nat
    BY ManagerAssumption
  <2>2. c[t].id \in Nat
    BY FrameFields
  <2> QED
    BY <1>1, <1>6, <2>1, <2>2, MoveKeeps, CalmIds DEF Chosen, Core
<1>8. AwaitInv'
  <2>1. AwaitAt(t)'
    BY <1>1 DEF AwaitAt, QuietPcs, Clearing
  <2> QED
    BY <1>1, <2>1, AwaitMoves DEF Core
<1> QED
  BY <1>6, <1>7, <1>8, MoveKeeps DEF Core

\* A call that only waits or clears.
Roams(t) ==
  /\ UNCHANGED <<num, used, job, queue, w>> /\ Others(t)
  /\ c[t].pc \in Spinning \cup Clearing /\ c'[t].pc \in Spinning \cup Clearing \cup {"waited"}
  /\ c'[t].job = c[t].job /\ c'[t].i = c[t].i /\ c'[t].after = c[t].after
  /\ c[t].after # "gone"
  /\ c'[t].pc \in Clearing => c[t].after # "waited"
  /\ c'[t].pc = "waited" => c[t].after = "waited"
  /\ t \in Workers => c[t] # NoCall /\ c'[t].pc \notin Clearing

\* A roaming call moves on without a task.
LEMMA RoamsMove ==
  ASSUME Types, Core, NEW t \in Threads, Roams(t)
  PROVE  CallMove(t) /\ ~Chosen(t)'
<1>1. Shape(t)
  BY DEF Core, CallInv
<1>2. Preparing(t)' <=> Preparing(t)
  BY DEF Roams, Preparing, Spinning, Clearing
<1>3. Makes(t)' <=> Makes(t)
  BY <1>2 DEF Roams, Makes, Spinning, Clearing, HasTask
<1>4. CalmCall(t)
  BY <1>3 DEF Roams, CalmCall, Spinning, Clearing, HasTask, Passed
<1>5. Shape(t)'
  BY <1>1, <1>2 DEF Roams, Shape, Spinning, Clearing, Joining
<1>6. Makes(t) => StateOf(t) \subseteq StateOf(t)'
  BY <1>2 DEF Roams, Makes, StateOf, Spinning, Clearing, HasTask
<1>7. Lands(t)
  BY <1>2, <1>5, <1>6 DEF Roams, Lands, Spinning, Clearing
<1>8. ~Chosen(t)'
  BY DEF Roams, Chosen, Spinning, Clearing
<1> QED
  BY <1>4, <1>7, <1>8 DEF Roams, CallMove

\* A roaming call keeps Core when what it claims to have seen is true.
LEMMA RoamsCore ==
  ASSUME Types, Core, NEW t \in Threads, Roams(t), UNCHANGED <<idCount, status>>,
         c[t].pc \in {"clear_queue", "clear_status"} =>
           c'[t].pc \in {"clear_queue", "clear_status"},
         t \in Clients => AwaitAt(t)'
  PROVE  Core'
<1>1. CallMove(t) /\ ~Chosen(t)'
  BY RoamsMove
<1>2. IdInv' /\ StatusInv' /\ OrderInv'
  BY <1>1, MoveKeeps, CalmIds DEF Core
<1>3. AwaitInv'
  BY AwaitMoves DEF Core, Roams
<1> QED
  BY <1>1, <1>2, <1>3, MoveKeeps DEF Core

\* What the counters say of a manager that is not being destroyed.
Ready == {t \in Workers : w[t].pc \notin {"wait", "asleep", "woken"}}
Taken == {t \in Workers : WAt(t, "took")}

\* num_of_tasks_ covers the queue, and no worker is busy when num_of_active_workers_ is 0.
LEMMA Counted ==
  ASSUME Types, ~Closing, Counts
  PROVE  /\ num >= Len(queue) /\ num >= 0
         /\ active = 0 => Ready = {}
<1>1. IsFiniteSet(Ready) /\ IsFiniteSet(Taken)
  BY ManagerAssumption, FS_Subset DEF Ready, Taken
<1>2. Cardinality(Announced) \in Nat /\ Cardinality(Taken) \in Nat
  BY <1>1, FS_CardinalityType DEF Counts
<1>3. Len(queue) \in Nat
  BY LenProperties DEF Types
<1>4. num = Cardinality(Announced) + Len(queue) + Cardinality(Taken) /\ active = Cardinality(Ready)
  BY DEF Counts, WorkIsAnnounced, CountersAgree, Taken, Ready
<1>5. active = 0 => Ready = {}
  BY <1>1, <1>4, FS_EmptySet
<1> QED
  BY <1>2, <1>3, <1>4, <1>5

\* The first look of a wait keeps Core.
LEMMA WorkersAreEnabledCore ==
  ASSUME OneClient, Types, Core, ~Over, Counts,
         NEW t \in Threads, WorkersAreEnabled(t)
  PROVE  Core'
<1>1. c[t].pc = "enabled" /\ UNCHANGED <<idCount, num, active, queue, status, used, job, w>>
  BY DEF WorkersAreEnabled, At
<1>2. ~Closing /\ c[t].after # "gone" /\ (t \in Workers => c[t] # NoCall)
  BY <1>1, InsideCall DEF Joining
<1>3. 0 <= num
  BY <1>2, Counted DEF Types
<1>4. /\ Others(t) /\ c'[t].pc = "empty" /\ c'[t].job = c[t].job /\ c'[t].i = c[t].i
      /\ c'[t].after = c[t].after
  BY <1>3, GoFacts DEF WorkersAreEnabled, CallPcs
<1>5. Roams(t)
  BY <1>1, <1>2, <1>4 DEF Roams, Spinning, Clearing
<1>6. AwaitAt(t)'
  BY <1>4 DEF AwaitAt, QuietPcs, Clearing
<1> QED
  BY <1>1, <1>5, <1>6, RoamsCore

\* A wait that finds the queue empty keeps Core.
LEMMA SeeEmptyCore ==
  ASSUME OneClient, Types, Core, ~Over, NEW t \in Threads, SeeEmpty(t)
  PROVE  Core'
<1>1. c[t].pc = "empty" /\ UNCHANGED <<idCount, num, active, queue, status, used, job, w>>
      /\ queue = <<>>
  BY DEF SeeEmpty, At
<1>2. c[t].after # "gone" /\ (t \in Workers => c[t] # NoCall)
  BY <1>1, InsideCall DEF Joining
<1>3. /\ Others(t) /\ c'[t].pc = "active" /\ c'[t].job = c[t].job /\ c'[t].i = c[t].i
      /\ c'[t].after = c[t].after
  BY GoFacts DEF SeeEmpty, CallPcs
<1>4. Roams(t)
  BY <1>1, <1>2, <1>3 DEF Roams, Spinning, Clearing
<1>5. AwaitAt(t)'
  BY <1>1, <1>3 DEF AwaitAt, QuietPcs, Clearing
<1> QED
  BY <1>1, <1>4, <1>5, RoamsCore

\* A wait that finds no active worker has seen the manager quiet: the queue was
\* empty before, and a worker that took the last task would still be active.
LEMMA SeeActiveCore ==
  ASSUME OneClient, Types, Core, ~Over, Counts,
         NEW t \in Threads, SeeActive(t)
  PROVE  Core'
<1>1. c[t].pc = "active" /\ UNCHANGED <<idCount, num, active, queue, status, used, job, w>>
  BY DEF SeeActive, At
<1>2. ~Closing /\ c[t].after # "gone" /\ (t \in Workers => c[t] # NoCall /\ w[t].pc = "body")
  BY <1>1, InsideCall DEF Joining
<1>3. CASE active = 0
  <2>1. \A u \in Workers : w[u].pc \in {"wait", "asleep", "woken"}
    BY <1>2, <1>3, Counted DEF Ready
  <2>2. t \in Clients /\ t \notin Workers
    BY <1>2, <2>1, Distinct
  <2>3. AwaitAt(t)
    BY <2>2 DEF Core, AwaitInv
  <2>4. Quiet
    BY <1>1, <2>1, <2>3 DEF AwaitAt, Quiet, Running
  <2>5. /\ Others(t) /\ c'[t].pc = AfterWait(t) /\ c'[t].job = c[t].job /\ c'[t].i = c[t].i
        /\ c'[t].after = c[t].after
    BY <1>3, GoFacts DEF SeeActive, AfterWait, CallPcs
  <2>6. Roams(t)
    BY <1>1, <1>2, <2>2, <2>5 DEF Roams, Spinning, Clearing, AfterWait
  <2>7. Quiet'
    BY <1>1, <2>4 DEF Quiet
  <2>8. AwaitAt(t)'
    BY <2>5, <2>7 DEF AwaitAt, AfterWait
  <2> QED
    BY <1>1, <2>6, <2>8, RoamsCore
<1>4. CASE active # 0
  <2>1. /\ Others(t) /\ c'[t].pc = "empty" /\ c'[t].job = c[t].job /\ c'[t].i = c[t].i
        /\ c'[t].after = c[t].after
    BY <1>4, GoFacts DEF SeeActive, CallPcs
  <2>2. Roams(t)
    BY <1>1, <1>2, <2>1 DEF Roams, Spinning, Clearing
  <2>3. AwaitAt(t)'
    BY <2>1 DEF AwaitAt, QuietPcs, Clearing
  <2> QED
    BY <1>1, <2>2, <2>3, RoamsCore
<1> QED
  BY <1>3, <1>4

\* The return of waitForCompletion() keeps Core.
LEMMA WaitedCore ==
  ASSUME OneClient, Types, Core, ~Over, NEW t \in Threads, Waited(t)
  PROVE  Core'
<1>1. /\ c[t].pc = "waited" /\ Others(t) /\ c'[t] = NoCall
      /\ UNCHANGED <<idCount, num, active, queue, status, used, job, w>>
  BY PutFacts, NoCallFrame DEF Waited, At
<1>2. c[t].after = "waited" /\ c'[t].pc = "idle" /\ c'[t].after = "idle"
  BY <1>1, NoCallFields DEF Core, CallInv, Shape
<1>3. ~Preparing(t) /\ ~Makes(t) /\ ~Preparing(t)' /\ ~Makes(t)'
  BY <1>1, <1>2 DEF Preparing, Makes, Spinning, Clearing, HasTask
<1>4. CallMove(t)
  BY <1>1, <1>2, <1>3 DEF CallMove, CalmCall, Lands, Shape, Passed, HasTask, Clearing, Joining
<1>5. IdInv' /\ StatusInv' /\ OrderInv'
  BY <1>1, <1>2, <1>4, MoveKeeps, CalmIds DEF Chosen, Core
<1>6. AwaitInv'
  <2>1. AwaitAt(t)'
    BY <1>2 DEF AwaitAt, QuietPcs, Clearing
  <2> QED
    BY <1>1, <2>1, AwaitMoves DEF Core
<1> QED
  BY <1>4, <1>5, <1>6, MoveKeeps DEF Core

\* A wait that begins keeps Core.
LEMMA CallWaitCore ==
  ASSUME OneClient, Types, Core, ~Over, NEW t \in Threads, CallWait(t)
  PROVE  Core'
<1>1. PICK a \in {"waited", "idle"} :
        /\ t \in Clients /\ c[t] = NoCall
        /\ Put(t, [NoCall EXCEPT !.pc = "enabled", !.after = a, !.job = Accepted])
        /\ UNCHANGED <<idCount, num, active, queue, status, used, job, w>>
  BY DEF CallWait, MayCall
<1>2. Others(t) /\ c'[t].pc = "enabled" /\ c'[t].after = a
  <2> DEFINE g == [NoCall EXCEPT !.pc = "enabled", !.after = a, !.job = Accepted]
  <2>1. Accepted \in SUBSET Jobs
    BY DEF Accepted
  <2>2. g \in Frames /\ g.pc = "enabled" /\ g.after = a
    BY <2>1 DEF NoCall, Frames, CallPcs
  <2>3. Put(t, g)
    BY <1>1
  <2> HIDE DEF g
  <2> QED
    BY <2>2, <2>3, PutFacts
<1>3. c[t].pc = "idle"
  BY <1>1, NoCallFields
<1>4. ~Preparing(t) /\ ~Makes(t) /\ ~Preparing(t)' /\ ~Makes(t)'
  BY <1>2, <1>3 DEF Preparing, Makes, Spinning, Clearing, HasTask
<1>5. CallMove(t)
  BY <1>1, <1>2, <1>3, <1>4, Distinct
     DEF CallMove, CalmCall, Lands, Shape, Passed, HasTask, Clearing, Joining
<1>6. IdInv' /\ StatusInv' /\ OrderInv'
  BY <1>1, <1>2, <1>3, <1>5, MoveKeeps, CalmIds DEF Chosen, Core
<1>7. AwaitInv'
  <2>1. AwaitAt(t)'
    BY <1>2 DEF AwaitAt, QuietPcs, Clearing
  <2> QED
    BY <1>1, <1>2, <2>1, AwaitMoves DEF Core
<1> QED
  BY <1>5, <1>6, <1>7, MoveKeeps DEF Core

\* The destructor until it has joined the workers.
LEMMA ExitCore ==
  ASSUME OneClient, Types, Core, ~Over, NEW t \in Threads, CallDestroy(t) \/ ExitWorkers(t)
  PROVE  Core'
<1>1. /\ c[t].pc \in {"idle", "exit"} /\ Others(t) /\ t \in Clients
      /\ c'[t].pc \in {"exit", "exit_notify"} /\ c'[t].after = "gone"
      /\ UNCHANGED <<idCount, active, queue, status, used, job, w>>
  <2>1. CASE CallDestroy(t)
    <3> DEFINE g == [NoCall EXCEPT !.pc = "exit", !.after = "gone"]
    <3>1. Put(t, g) /\ t \in Clients /\ c[t] = NoCall
          /\ UNCHANGED <<idCount, active, queue, status, used, job, w>>
      BY <2>1 DEF CallDestroy
    <3>2. g \in Frames /\ g.pc = "exit" /\ g.after = "gone"
      BY NewDestroy
    <3> HIDE DEF g
    <3> QED
      BY <3>1, <3>2, PutFacts, NoCallFields
  <2>2. CASE ExitWorkers(t)
    <3>1. c[t].pc = "exit" /\ c[t].after = "gone" /\ t \in Clients
      BY <2>2 DEF ExitWorkers, At, Core, CallInv, Shape, Joining
    <3> QED
      BY <2>2, <3>1, GoFacts DEF ExitWorkers, CallPcs
  <2> QED
    BY <2>1, <2>2
<1>2. ~Preparing(t) /\ ~Makes(t) /\ ~Preparing(t)' /\ ~Makes(t)'
  BY <1>1 DEF Preparing, Makes, Spinning, Clearing, HasTask
<1>3. CallMove(t)
  BY <1>1, <1>2, Distinct
     DEF CallMove, CalmCall, Lands, Shape, Passed, HasTask, Clearing, Joining
<1>4. IdInv' /\ StatusInv' /\ OrderInv'
  BY <1>1, <1>3, MoveKeeps, CalmIds DEF Chosen, Core
<1>5. AwaitInv'
  <2>1. AwaitAt(t)'
    BY <1>1 DEF AwaitAt, QuietPcs, Clearing
  <2> QED
    BY <1>1, <2>1, AwaitMoves DEF Core
<1> QED
  BY <1>3, <1>4, <1>5, MoveKeeps DEF Core

\* The updates of the counter around the pushes, and a push that fails, keep Core.
LEMMA AddTasksCore ==
  ASSUME OneClient, Types, Core, ~Over, NEW t \in Threads,
         AddTasks(t) \/ SubRest(t) \/ (Push(t) /\ Len(queue) = Capacity)
  PROVE  Core'
<1>1. PICK j \in c[t].job : TRUE
  BY DEF AddTasks, SubRest, Push
<1>2. /\ \/ c[t].pc = "add" /\ c'[t].pc = "push"
         \/ c[t].pc = "sub" /\ c'[t].pc = "notify_all"
         \/ c[t].pc = "push" /\ c'[t].pc = "sub"
      /\ Others(t) /\ c'[t].job = c[t].job /\ c'[t].i = c[t].i /\ c'[t].after = c[t].after
      /\ UNCHANGED <<idCount, active, queue, status, used, job, w>>
  <2>1. CASE AddTasks(t)
    BY <2>1, GoFacts DEF AddTasks, At, CallPcs, HasTask
  <2>2. CASE SubRest(t)
    BY <2>2, GoFacts DEF SubRest, At, CallPcs, HasTask
  <2>3. CASE Push(t) /\ Len(queue) = Capacity
    <3>1. Capacity \in Nat
      BY ManagerAssumption
    <3>2. ~(Len(queue) < Capacity)
      BY <2>3, <3>1
    <3>3. /\ c[t].pc = "push" /\ Go(t, "sub")
          /\ UNCHANGED <<idCount, active, queue, status, used, job, w>>
      BY <2>3, <3>2 DEF Push, At
    <3> QED
      BY <3>3, GoFacts DEF CallPcs, HasTask
  <2> QED
    BY <2>1, <2>2, <2>3
<1>3. c[t].after # "gone" /\ (t \in Workers => c[t] # NoCall)
  BY <1>2, InsideCall DEF Joining
<1>4. ~Preparing(t) /\ Makes(t) /\ ~Preparing(t)' /\ Makes(t)'
  BY <1>2 DEF Preparing, Makes, Spinning, Clearing, HasTask
<1>5. Shape(t) /\ MakesInv(t)
  BY DEF Core, CallInv
<1>6. \A k \in c[t].job : c[t].i < job[k].kind.n
  <2> SUFFICES ASSUME NEW k \in c[t].job PROVE c[t].i < job[k].kind.n
    OBVIOUS
  <2>1. k \in Jobs /\ job[k].st = "made"
    BY <1>2, <1>4, <1>5, FrameFields DEF MakesInv, StateOf, Entering
  <2>2. job[k].kind \in Kinds
    BY <2>1 DEF Core, JobsInv
  <2>3. job[k].kind.n \in Nat /\ job[k].kind.n # 0
    BY <2>2, KindTypes
  <2> QED
    BY <1>2, <1>4, <1>5, <2>3 DEF Shape, MakesInv
<1>7. CalmCall(t)
  <2>1. \A k \in Jobs : \A i \in 0..(job[k].kind.n - 1) : ~Passed(t, k, i)'
    <3> SUFFICES ASSUME NEW k \in Jobs, NEW i \in 0..(job[k].kind.n - 1)
                 PROVE  ~Passed(t, k, i)'
      OBVIOUS
    <3>1. i \in Nat
      BY TaskFields, KindTypes
    <3> QED
      BY <1>2, <1>5, <3>1 DEF Passed, Shape
  <2> QED
    BY <1>2, <1>4, <2>1 DEF CalmCall, HasTask
<1>8. Lands(t)
  <2>1. StateOf(t) \subseteq StateOf(t)'
    BY <1>2, <1>4 DEF StateOf, Entering
  <2>2. Shape(t)'
    BY <1>2, <1>3, <1>4, <1>5 DEF Shape, Clearing, Joining
  <2> QED
    BY <1>2, <1>3, <1>4, <1>6, <2>1, <2>2 DEF Lands, Clearing
<1>9. CallMove(t)
  BY <1>2, <1>7, <1>8 DEF CallMove
<1>10. IdInv' /\ StatusInv' /\ OrderInv'
  BY <1>2, <1>9, MoveKeeps, CalmIds DEF Chosen, Core
<1>11. AwaitInv'
  <2>1. AwaitAt(t)'
    BY <1>2 DEF AwaitAt, QuietPcs, Clearing
  <2> QED
    BY <1>2, <2>1, AwaitMoves DEF Core
<1> QED
  BY <1>9, <1>10, <1>11, MoveKeeps DEF Core
-----------------------------------------------------------------------------
(* clear() and issueTaskId().                                               *)

\* Nothing is queued and no worker has a task: only the client is in a call.
LEMMA QuietMeans ==
  ASSUME OneClient, Types, Core, NEW t \in Clients, c[t].pc \in QuietPcs
  PROVE  /\ Quiet /\ \A u \in Workers : c[u] = NoCall
         /\ \A u \in Threads \ {t} : u \in Workers
         /\ \A j \in Jobs : ~Alive(j)
<1>1. Quiet
  BY DEF Core, AwaitInv, AwaitAt
<1>2. \A u \in Workers : c[u] = NoCall
  BY <1>1 DEF Quiet, Core, WorkerInv, Nested, Running
<1>3. \A u \in Threads \ {t} : u \in Workers
  BY Distinct DEF OneClient
<1>4. \A u \in Threads : c[u].pc \notin HasTask \cup {"mark"}
  BY <1>2, <1>3, NoCallFields DEF QuietPcs, Clearing, HasTask
<1>5. ASSUME NEW j \in Jobs PROVE ~Alive(j)
  <2>1. ~Queued(j)
    BY <1>1 DEF Quiet, Queued
  <2> QED
    BY <1>1, <1>4, <2>1 DEF Alive, Held, Destroying, CallHolds, WorkerHolds, Quiet
<1> QED
  BY <1>1, <1>2, <1>3, <1>5

\* Only the client resets the ids: a task that enqueues keeps its worker active.
LEMMA ClearerIsClient ==
  ASSUME OneClient, Types, Core, ~Over, NEW t \in Threads,
         c[t].pc \in Clearing
  PROVE  t \in Clients /\ c[t].after # "gone" /\ c[t].pc \in QuietPcs
<1>1. c[t].pc # "idle" /\ c[t].pc \notin Joining
  BY DEF Clearing, Joining
<1> QED
  BY <1>1, InsideCall, Distinct DEF QuietPcs

\* Starting the ids again keeps Core: no task is alive.
LEMMA ClearIdsCore ==
  ASSUME OneClient, Types, Core, ~Over, NEW t \in Threads, ClearIds(t)
  PROVE  Core'
<1>1. /\ c[t].pc = "clear_ids" /\ c[t].pc \in Clearing /\ idCount' = 0
      /\ UNCHANGED <<num, active, queue, status, used, job, w>>
  BY DEF ClearIds, At, Clearing
<1>2. t \in Clients /\ c[t].after # "gone" /\ c[t].pc \in QuietPcs
  BY <1>1, ClearerIsClient
<1>3. /\ Others(t) /\ c'[t].pc = "clear_queue" /\ c'[t].job = c[t].job /\ c'[t].i = c[t].i
      /\ c'[t].after = c[t].after
  BY GoFacts DEF ClearIds, CallPcs
<1>4. Roams(t)
  <2>1. c[t].after # "waited"
    BY <1>1, <1>2 DEF Core, CallInv, Shape, Threads
  <2> QED
    BY <1>1, <1>2, <1>3, <2>1, Distinct DEF Roams, Spinning, Clearing
<1>5. CallMove(t) /\ ~Chosen(t)' /\ SameHands
  BY <1>4, RoamsMove, MoveKeeps
<1>6. \A u \in Threads : ~Chosen(u)'
  BY <1>2, <1>3, <1>5, QuietMeans, NoCallFields DEF Others, Chosen
<1>7. \A j \in Jobs : ~Alive(j)' /\ ~Held(j)'
  BY <1>2, <1>5, QuietMeans DEF SameHands, Alive
<1>8. IdInv'
  BY <1>6, <1>7 DEF IdInv
<1>9. OrderInv'
  BY <1>6, <1>7 DEF OrderInv
<1>10. StatusInv'
  BY <1>3, <1>6, <1>7 DEF StatusInv, ResetByCall
<1>11. AwaitInv'
  <2>1. Quiet'
    BY <1>1, <1>2, QuietMeans DEF Quiet
  <2> QED
    BY <1>1, <1>2, <1>3, <2>1 DEF AwaitInv, AwaitAt, OneClient
<1> QED
  BY <1>5, <1>8, <1>9, <1>10, <1>11, MoveKeeps DEF Core

\* Clearing the queue keeps Core: it is empty.
LEMMA ClearQueueCore ==
  ASSUME OneClient, Types, Core, ~Over, NEW t \in Threads, ClearQueue(t)
  PROVE  Core'
<1>1. c[t].pc = "clear_queue" /\ c[t].pc \in Clearing
  BY DEF ClearQueue, At, Clearing
<1>2. t \in Clients /\ c[t].after # "gone" /\ c[t].pc \in QuietPcs
  BY <1>1, ClearerIsClient
<1>3. Quiet
  BY <1>2, QuietMeans
<1>4. Orphans = {}
  BY <1>3 DEF Quiet, Orphans, Queued
<1>5. UNCHANGED <<idCount, num, active, queue, status, used, job, w>>
  <2>1. queue' = queue
    BY <1>3 DEF ClearQueue, Quiet
  <2>2. job' = job
    BY <1>4 DEF ClearQueue, Types
  <2>3. status' = status
    BY <1>4 DEF ClearQueue
  <2> QED
    BY <2>1, <2>2, <2>3 DEF ClearQueue
<1>6. /\ Others(t) /\ c'[t].pc = "clear_status" /\ c'[t].job = c[t].job /\ c'[t].i = c[t].i
      /\ c'[t].after = c[t].after
  BY GoFacts DEF ClearQueue, CallPcs
<1>7. Roams(t)
  <2>1. c[t].after # "waited"
    BY <1>1 DEF Core, CallInv, Shape
  <2> QED
    BY <1>1, <1>2, <1>5, <1>6, <2>1, Distinct DEF Roams, Spinning, Clearing
<1>8. AwaitAt(t)'
  <2>1. AwaitAt(t)
    BY <1>2 DEF Core, AwaitInv
  <2> QED
    BY <1>1, <1>2, <1>5, <1>6, <2>1 DEF AwaitAt, Quiet
<1> QED
  BY <1>5, <1>6, <1>7, <1>8, RoamsCore

\* Clearing the bits keeps Core: no task is alive.
LEMMA ClearStatusCore ==
  ASSUME OneClient, Types, Core, ~Over, NEW t \in Threads, ClearStatus(t)
  PROVE  Core'
<1>1. /\ c[t].pc = "clear_status" /\ c[t].pc \in Clearing /\ Others(t) /\ status' = {}
      /\ c[t].after = "idle" => c'[t] = NoCall
      /\ c[t].after # "idle" => /\ c'[t].pc = c[t].after /\ c'[t].job = c[t].job
                                /\ c'[t].i = c[t].i /\ c'[t].after = c[t].after
      /\ UNCHANGED <<idCount, num, active, queue, used, job, w>>
  BY ClearStatusFacts DEF Clearing
<1>2. t \in Clients /\ c[t].after # "gone" /\ c[t].pc \in QuietPcs
  BY <1>1, ClearerIsClient
<1>3. Shape(t) /\ c[t].after \in {"idle", "reissue"}
  <2>1. Shape(t)
    BY DEF Core, CallInv
  <2> QED
    BY <1>1, <1>2, <2>1, FrameFields DEF Shape
<1>4. CallMove(t) /\ ~Chosen(t)'
  <2>1. CASE c[t].after = "idle"
    <3>1. c'[t].pc = "idle" /\ c'[t].after = "idle" /\ c'[t] = NoCall
      BY <1>1, <2>1, NoCallFields
    <3>2. ~Preparing(t) /\ ~Makes(t) /\ ~Preparing(t)' /\ ~Makes(t)'
      BY <1>1, <2>1, <3>1 DEF Preparing, Makes, Spinning, Clearing, HasTask
    <3> QED
      BY <1>1, <1>2, <2>1, <3>1, <3>2
         DEF CallMove, CalmCall, Lands, Shape, Passed, HasTask, Clearing, Joining, Chosen
  <2>2. CASE c[t].after = "reissue"
    <3>1. c'[t].pc = "reissue" /\ c'[t].after = "reissue" /\ c'[t].job = c[t].job /\ c'[t].i = c[t].i
      BY <1>1, <2>2
    <3>2. Preparing(t) /\ Makes(t) /\ Preparing(t)' /\ Makes(t)'
      BY <1>1, <2>2, <3>1 DEF Preparing, Makes, Spinning, Clearing, HasTask
    <3>3. StateOf(t) \subseteq StateOf(t)'
      BY <3>2 DEF StateOf
    <3>4. CalmCall(t)
      BY <1>1, <3>1, <3>2 DEF CalmCall, HasTask, Passed
    <3>5. Lands(t)
      BY <1>1, <1>2, <1>3, <3>1, <3>2, <3>3, Distinct DEF Lands, Shape, Clearing, Joining
    <3> QED
      BY <1>1, <3>1, <3>4, <3>5 DEF CallMove, Chosen
  <2> QED
    BY <1>3, <2>1, <2>2
<1>5. SameHands
  BY <1>4, MoveKeeps
<1>6. \A u \in Threads : ~Chosen(u)'
  BY <1>1, <1>2, <1>4, QuietMeans, NoCallFields DEF Others, Chosen
<1>7. \A j \in Jobs : ~Alive(j)' /\ ~Held(j)'
  BY <1>2, <1>5, QuietMeans DEF SameHands, Alive
<1>8. IdInv'
  BY <1>6, <1>7 DEF IdInv
<1>9. OrderInv'
  BY <1>6, <1>7 DEF OrderInv
<1>10. StatusInv'
  BY <1>1, <1>6, <1>7 DEF StatusInv
<1>11. AwaitInv'
  <2>1. Quiet'
    BY <1>1, <1>2, QuietMeans DEF Quiet
  <2>2. idCount' = 0
    BY <1>1, <1>2 DEF Core, AwaitInv, AwaitAt
  <2>3. c'[t].pc # "active"
    BY <1>1, <1>3, NoCallFields
  <2> QED
    BY <1>2, <2>1, <2>2, <2>3 DEF AwaitInv, AwaitAt, OneClient
<1> QED
  BY <1>4, <1>8, <1>9, <1>10, <1>11, MoveKeeps DEF Core

\* A task that was accepted and is not complete is still held by someone.
LEMMA IncompleteIsHeld ==
  ASSUME Types, Core, NEW j \in Jobs, job[j].st = "live", ~Complete(j)
  PROVE  Held(j)
<1>1. job[j].ran \subseteq 0..(job[j].kind.n - 1)
  BY DEF Core, JobsInv
<1>2. PICK i \in 0..(job[j].kind.n - 1) : i \notin job[j].ran
  BY <1>1 DEF Complete
<1>3. Pending(j, i)
  BY <1>2 DEF Core, RunInv, Enqueued
<1>4. Queued(j) \/ \E u \in Workers : WorkerHolds(u, j)
  BY <1>3 DEF Pending, Queued
<1> QED
  BY <1>4 DEF Held

\* The new id is greater than every id in use, so Core holds of it.
LEMMA IssueIdCore ==
  ASSUME OneClient, Types, Core, ~Over, NEW t \in Threads, IssueId(t)
  PROVE  Core'
<1>1. /\ c[t].pc \in {"issue", "reissue"} /\ Others(t)
      /\ c'[t].pc = (IF c[t].pc = "issue" THEN "check" ELSE "slot")
      /\ c'[t].id = idCount /\ c'[t].job = c[t].job /\ c'[t].i = c[t].i
      /\ c'[t].after = c[t].after
      /\ idCount' = idCount + 1
      /\ UNCHANGED <<num, active, queue, status, used, job, w>>
  BY IssueFacts
<1>2. c[t].after # "gone" /\ (t \in Workers => c[t] # NoCall /\ c[t].pc = "issue")
  BY <1>1, InsideCall DEF Joining
<1>3. Preparing(t) /\ Makes(t) /\ Preparing(t)' /\ Makes(t)'
  BY <1>1 DEF Preparing, Makes, Spinning, Clearing, HasTask
<1>4. CallMove(t)
  <2>1. StateOf(t) \subseteq StateOf(t)'
    BY <1>3 DEF StateOf
  <2>2. CalmCall(t)
    BY <1>1, <1>3 DEF CalmCall, HasTask, Passed
  <2>3. Shape(t)'
    <3>1. Shape(t)
      BY DEF Core, CallInv
    <3> QED
      BY <1>1, <1>2, <1>3, <3>1 DEF Shape, Clearing, Joining
  <2>4. Lands(t)
    BY <1>1, <1>2, <1>3, <2>1, <2>3 DEF Lands, Clearing
  <2> QED
    BY <1>1, <2>2, <2>4 DEF CallMove
<1>5. SameHands /\ idCount \in Nat
  BY <1>4, MoveKeeps DEF Types
\* While somebody resets the ids nobody issues one.
<1>6. \A u \in Clients : c[u].pc \in QuietPcs => u = t
  <2> SUFFICES ASSUME NEW u \in Clients, c[u].pc \in QuietPcs, u # t PROVE FALSE
    OBVIOUS
  <2>1. c[t] = NoCall
    BY QuietMeans
  <2> QED
    BY <1>1, <2>1, NoCallFields
<1>7. ~ResetByCall
  <2> SUFFICES ASSUME NEW u \in Threads, c[u].pc \in {"clear_queue", "clear_status"} PROVE FALSE
    BY DEF ResetByCall
  <2>1. u \in Clients /\ c[u].pc \in QuietPcs
    BY ClearerIsClient DEF Clearing
  <2> QED
    BY <1>1, <1>6, <2>1
<1>8. c[t].pc = "reissue" => idCount = 0
  <2> SUFFICES ASSUME c[t].pc = "reissue" PROVE idCount = 0
    OBVIOUS
  <2>1. t \in Clients
    BY <1>2, Distinct
  <2> QED
    BY <2>1 DEF Core, AwaitInv, AwaitAt
<1>9. \A u \in Threads : Chosen(u)' => u = t \/ (Chosen(u) /\ c'[u] = c[u])
  <2> SUFFICES ASSUME NEW u \in Threads, Chosen(u)', u # t PROVE Chosen(u) /\ c'[u] = c[u]
    OBVIOUS
  <2>1. c'[u] = c[u]
    BY <1>1 DEF Others
  <2> QED
    BY <2>1 DEF Chosen
<1>10. IdInv'
  <2>1. \A j \in Jobs : Alive(j)' => job'[j].id < idCount' /\ job'[j].id < MaxId
    BY <1>1, <1>5, TaskFields DEF Core, IdInv, SameHands
  <2>2. \A j, o \in Jobs : Alive(j)' /\ Alive(o)' /\ job'[j].id = job'[o].id => j = o
    BY <1>1, <1>5 DEF Core, IdInv, SameHands
  <2>3. ASSUME NEW u \in Threads, Chosen(u)'
        PROVE  /\ c'[u].id < idCount'
               /\ \A j \in Jobs : Alive(j)' => job'[j].id # c'[u].id
               /\ c'[u].pc = "slot" => c'[u].id < MaxId
    <3>1. CASE u = t
      <4>1. \A j \in Jobs : Alive(j)' => job'[j].id < idCount
        BY <1>1, <1>5 DEF Core, IdInv, SameHands
      <4>2. c'[t].pc = "slot" => idCount = 0 /\ 0 < MaxId
        BY <1>1, <1>8, ManagerAssumption
      <4> QED
        BY <1>1, <1>5, <3>1, <4>1, <4>2
    <3>2. CASE u # t
      <4>1. Chosen(u) /\ c'[u] = c[u] /\ c[u].id \in Nat
        BY <1>9, <2>3, <3>2, FrameFields
      <4> QED
        BY <1>1, <1>5, <4>1 DEF Core, IdInv, SameHands
    <3> QED
      BY <3>1, <3>2
  <2>4. ASSUME NEW u \in Threads, NEW v \in Threads, Chosen(u)', Chosen(v)', c'[u].id = c'[v].id
        PROVE  u = v
    <3>1. \A x \in Threads : Chosen(x)' /\ x # t => c'[x].id < idCount /\ Chosen(x) /\ c'[x] = c[x]
      BY <1>9 DEF Core, IdInv
    <3>2. CASE u # t /\ v # t
      BY <2>4, <3>1, <3>2 DEF Core, IdInv
    <3>3. CASE u = t \/ v = t
      BY <1>1, <1>5, <2>4, <3>1, <3>3
    <3> QED
      BY <3>2, <3>3
  <2> QED
    BY <2>1, <2>2, <2>3, <2>4 DEF IdInv
<1>11. StatusInv'
  <2>1. \A k \in status : k < idCount /\ k \in Nat
    BY <1>7 DEF Core, StatusInv, Types
  <2>2. \A u \in Threads : Chosen(u)' => c'[u].id \notin status'
    BY <1>1, <1>5, <1>9, <2>1 DEF Core, StatusInv
  <2>3. \A k \in status' : k < idCount'
    BY <1>1, <1>5, <2>1
  <2>4. \A j \in Jobs : Held(j)' => job'[j].id \notin status'
    BY <1>1, <1>5 DEF Core, StatusInv, SameHands
  <2> QED
    BY <2>2, <2>3, <2>4 DEF StatusInv
<1>12. OrderInv'
  <2>1. \A j \in Jobs : Alive(j)' =>
          \A o \in job'[j].before : Complete(o)' \/ job'[o].id < job'[j].id
    BY <1>1, <1>5 DEF Core, OrderInv, SameHands, Complete
  <2>2. ASSUME NEW u \in Threads, Chosen(u)', NEW j \in c'[u].job, NEW o \in job'[j].before
        PROVE  Complete(o)' \/ job'[o].id < c'[u].id
    <3>1. j \in Jobs
      BY <1>1, <1>9, <2>2, FrameFields
    <3>2. o \in Jobs /\ job[o].st = "live" /\ job'[o] = job[o] /\ (Complete(o)' <=> Complete(o))
      BY <1>1, <2>2, <3>1, TaskFields DEF Core, JobsInv, Complete
    <3>3. CASE u = t
      <4>1. ~Complete(o) => Alive(o)
        BY <3>2, IncompleteIsHeld DEF Alive
      <4> QED
        BY <1>1, <3>2, <3>3, <4>1 DEF Core, IdInv
    <3>4. CASE u # t
      BY <1>1, <1>9, <2>2, <3>2, <3>4 DEF Core, OrderInv
    <3> QED
      BY <3>3, <3>4
  <2> QED
    BY <2>1, <2>2 DEF OrderInv
<1>13. AwaitInv'
  <2> SUFFICES ASSUME NEW u \in Clients PROVE AwaitAt(u)'
    BY DEF AwaitInv
  <2>1. CASE u = t
    BY <1>1, <2>1 DEF AwaitAt, QuietPcs, Clearing
  <2>2. CASE u # t
    <3>1. c'[u] = c[u] /\ AwaitAt(u) /\ c[u].pc \notin QuietPcs
      BY <1>1, <1>6, <2>2, Distinct DEF Others, Core, AwaitInv
    <3> QED
      BY <1>1, <3>1 DEF AwaitAt, Quiet, QuietPcs, Clearing
  <2> QED
    BY <2>1, <2>2
<1> QED
  BY <1>4, <1>10, <1>11, <1>12, <1>13, MoveKeeps DEF Core
-----------------------------------------------------------------------------
(* Workers that take no task, and the calls that wake them.                 *)

\* Every conjunct of Core but PrecedenceRespected and AwaitInv.
TasksInv == JobsInv /\ QueueInv /\ WorkerInv /\ CallInv /\ RunInv /\ ReadyInv
         /\ IdInv /\ StatusInv /\ OrderInv

\* A worker that has no task keeps the conjuncts about tasks, calls and workers.
LEMMA IdleKeeps ==
  ASSUME Types, Core, NEW t \in Workers, UNCHANGED <<idCount, queue, status, job, c>>,
         \A u \in Workers : CalmWorker(u) /\ Stands(u)
  PROVE  TasksInv'
<1>1. t \in Threads
  BY Distinct
<1>2. CalmCall(t)
  BY DEF CalmCall, Others, Makes, Preparing, Passed
<1>3. Calm(t)
  BY <1>2 DEF Calm
<1>4. Shape(t) /\ MakesInv(t) /\ Nested(t)
  BY <1>1 DEF Core, CallInv, WorkerInv
<1>5. Lands(t)
  BY <1>4 DEF Lands, Shape, Preparing, StateOf, MakesInv, Nested
<1>6. JobsInv' /\ QueueInv' /\ RunInv' /\ ReadyInv'
  BY <1>1, <1>3, CalmTasks DEF Core
<1>7. CallInv'
  BY <1>1, <1>3, <1>5, CalmCalls DEF Core
<1>8. WorkerInv'
  BY <1>1, <1>3, <1>5, CalmWorkers DEF Core
<1>9. IdInv' /\ StatusInv' /\ OrderInv'
  <2>1. Chosen(t)' => /\ Chosen(t) /\ c'[t].id = c[t].id
                      /\ c'[t].pc = "slot" => c[t].id < MaxId
    BY <1>1 DEF Chosen, Core, IdInv
  <2> QED
    BY <1>1, <1>3, <2>1, CalmIds DEF Core
<1> QED
  BY <1>6, <1>7, <1>8, <1>9 DEF TasksInv

\* t moves from one place to another and has a task in neither, and in neither
\* calls the manager.
LEMMA IdleStep ==
  ASSUME OneClient, Types, Core, NEW t \in Workers, NEW p \in WorkerPcs, WGo(t, p), ~Busy(t),
         p \notin Running \cup {"mark"}, UNCHANGED <<idCount, queue, status, job, c>>,
         \A u \in Clients : c[u].pc = "active" /\ queue # <<>> /\ w[t].pc \in {"look", "fetch", "missed"}
            => p \in {"look", "fetch", "missed"}
  PROVE  Core'
<1>1. /\ w' \in [Workers -> WorkerFrames] /\ \A u \in Workers \ {t} : w'[u] = w[u]
      /\ w'[t].pc = p
  BY WGoFacts DEF OtherWorkers
<1>2. ASSUME NEW u \in Workers PROVE CalmWorker(u) /\ Stands(u)
  <2>1. CASE u = t
    BY <1>1, <2>1 DEF CalmWorker, Stands, Busy, Running
  <2>2. CASE u # t
    <3>1. w'[u] = w[u]
      BY <1>1, <2>2
    <3> QED
      BY <3>1 DEF CalmWorker, Stands
  <2> QED
    BY <2>1, <2>2
<1>3. TasksInv'
  BY <1>2, IdleKeeps
<1>4. PrecedenceRespected'
  <2> SUFFICES ASSUME NEW u \in Workers, w'[u].pc = "body", NEW j \in w'[u].job, job'[j].kind.wait
               PROVE  \A o \in job'[j].before : Complete(o)'
    BY DEF PrecedenceRespected, WAt
  <2>1. w'[u] = w[u]
    BY <1>1 DEF Running
  <2> QED
    BY <2>1 DEF Core, PrecedenceRespected, WAt, Complete
<1>5. AwaitInv'
  <2> SUFFICES ASSUME NEW u \in Clients PROVE AwaitAt(u)'
    BY DEF AwaitInv
  <2>1. AwaitAt(u)
    BY DEF Core, AwaitInv
  <2>2. Quiet => Quiet'
    BY <1>1 DEF Quiet
  <2>3. ASSUME c'[u].pc = "active", queue' # <<>>
        PROVE  \E v \in Workers : w'[v].pc \in Running \cup {"mark", "look", "fetch", "missed"}
    <3>1. PICK v \in Workers : w[v].pc \in Running \cup {"mark", "look", "fetch", "missed"}
      BY <2>1, <2>3 DEF AwaitAt
    <3>2. CASE v = t
      BY <1>1, <2>3, <3>1, <3>2 DEF Busy
    <3>3. CASE v # t
      BY <1>1, <3>1, <3>3
    <3> QED
      BY <3>2, <3>3
  <2> QED
    BY <2>1, <2>2, <2>3 DEF AwaitAt
<1> QED
  BY <1>3, <1>4, <1>5 DEF Core, TasksInv

\* The loop of a worker that finds no task keeps Core.
LEMMA LookCore ==
  ASSUME OneClient, Types, Core, ~Over, Counts,
         NEW t \in Workers,
         \/ Look(t) \/ Missed(t) \/ Rest(t) \/ Wait(t) \/ Woken(t) \/ (Fetch(t) /\ queue = <<>>)
  PROVE  Core'
<1>1. ASSUME NEW u \in Clients, c[u].pc = "active", queue # <<>>
      PROVE  num > 0
  <2>1. ~Closing
    BY <1>1, InsideCall, Distinct DEF Joining
  <2>2. Len(queue) > 0 /\ Len(queue) \in Nat /\ num \in Int
    BY <1>1, LenProperties, EmptySeq DEF Types
  <2> QED
    BY <2>1, <2>2, Counted
<1>2. num \in Int
  BY DEF Types
<1>3. CASE Look(t)
  <2>1. /\ w[t].pc = "look" /\ UNCHANGED <<idCount, num, active, queue, status, used, job, c>>
        /\ \/ 0 <= num /\ WGo(t, "fetch")
           \/ ~(0 <= num) /\ WGo(t, "exited")
    BY <1>3 DEF Look, WAt
  <2> QED
    BY <1>1, <1>2, <2>1, IdleStep DEF WorkerPcs, Running, Busy
<1>4. CASE Missed(t)
  <2>1. /\ w[t].pc = "missed" /\ UNCHANGED <<idCount, num, active, queue, status, used, job, c>>
        /\ \/ 0 < num /\ WGo(t, "look")
           \/ ~(0 < num) /\ WGo(t, "rest")
    BY <1>4 DEF Missed, WAt
  <2> QED
    BY <1>1, <1>2, <2>1, IdleStep DEF WorkerPcs, Running, Busy
<1>5. CASE Rest(t)
  BY <1>5, IdleStep DEF Rest, WAt, WorkerPcs, Running, Busy
<1>6. CASE Wait(t)
  <2>1. /\ w[t].pc = "wait" /\ UNCHANGED <<idCount, num, active, queue, status, used, job, c>>
        /\ WGo(t, "asleep") \/ WGo(t, "woken")
    BY <1>6 DEF Wait, WAt
  <2> QED
    BY <2>1, IdleStep DEF WorkerPcs, Running, Busy
<1>7. CASE Woken(t)
  BY <1>7, IdleStep DEF Woken, WAt, WorkerPcs, Running, Busy
<1>8. CASE Fetch(t) /\ queue = <<>>
  BY <1>8, IdleStep DEF Fetch, WAt, WorkerPcs, Running, Busy
<1> QED
  BY <1>3, <1>4, <1>5, <1>6, <1>7, <1>8

\* The worker has its task already: Took, and Precede, the heart of
\* PrecedenceRespected.
LEMMA TookCore ==
  ASSUME OneClient, Types, Core, ~Over, NEW t \in Workers, Took(t) \/ Precede(t)
  PROVE  Core'
<1>1. /\ UNCHANGED <<idCount, active, queue, status, used, job, c>>
      /\ \A u \in Workers \ {t} : w'[u] = w[u]
      /\ w'[t].job = w[t].job /\ w'[t].i = w[t].i
      /\ \/ w[t].pc = "took" /\ w'[t].pc = "precede"
         \/ w[t].pc = "precede" /\ w'[t].pc = "body" /\ \E j \in w[t].job : MayRun(j)
  <2>1. CASE Took(t)
    BY <2>1, WGoFacts DEF Took, WAt, OtherWorkers, WorkerPcs, Running
  <2>2. CASE Precede(t)
    BY <2>2, WGoFacts DEF Precede, WAt, OtherWorkers, WorkerPcs, Running
  <2> QED
    BY <2>1, <2>2
<1>2. ASSUME NEW u \in Workers PROVE CalmWorker(u) /\ Stands(u)
  <2>1. CASE u = t
    BY <1>1, <2>1 DEF CalmWorker, Stands, Running
  <2>2. CASE u # t
    <3>1. w'[u] = w[u]
      BY <1>1, <2>2
    <3> QED
      BY <3>1 DEF CalmWorker, Stands
  <2> QED
    BY <2>1, <2>2
<1>3. TasksInv'
  BY <1>1, <1>2, IdleKeeps
<1>4. PrecedenceRespected'
  <2> SUFFICES ASSUME NEW u \in Workers, w'[u].pc = "body", NEW j \in w'[u].job, job'[j].kind.wait,
                      NEW o \in job'[j].before
               PROVE  Complete(o)'
    BY DEF PrecedenceRespected, WAt
  <2>1. CASE u # t
    <3>1. w'[u] = w[u]
      BY <1>1, <2>1
    <3> QED
      BY <1>1, <3>1 DEF Core, PrecedenceRespected, WAt, Complete
  <2>2. CASE u = t
    <3>1. w[t].pc = "precede" /\ j \in w[t].job /\ j \in Jobs /\ job' = job
      BY <1>1, <2>2, WorkerFields
    <3>2. InHand(t, j) /\ WorkerHolds(t, j)
      BY <3>1 DEF InHand, WorkerHolds, Running
    <3>3. MayRun(j)
      BY <1>1, <2>2, <3>1, <3>2 DEF Core, WorkerInv, Grip
    <3>4. Alive(j)
      BY <3>2 DEF Alive, Held
    <3>5. o \in Jobs /\ job[o].st = "live" /\ job[o].id \in Nat /\ job[j].id \in Nat
      BY <3>1, TaskFields DEF Core, JobsInv
    <3>6. Complete(o)
      <4> SUFFICES ASSUME ~Complete(o) PROVE FALSE
        OBVIOUS
      <4>1. job[o].id < job[j].id
        BY <3>1, <3>4 DEF Core, OrderInv
      <4>2. isAll(job[j].id)
        BY <3>1, <3>3, <3>5, <4>1 DEF MayRun, NeedsToWait
      <4>3. job[o].id \in status
        BY <3>5, <4>1, <4>2 DEF isAll
      <4>4. Held(o)
        BY <3>5, IncompleteIsHeld
      <4> QED
        BY <3>5, <4>3, <4>4 DEF Core, StatusInv
    <3> QED
      BY <1>1, <3>6 DEF Complete
  <2> QED
    BY <2>1, <2>2
<1>5. AwaitInv'
  <2> SUFFICES ASSUME NEW u \in Clients PROVE AwaitAt(u)'
    BY DEF AwaitInv
  <2>1. AwaitAt(u) /\ ~Quiet
    BY <1>1 DEF Core, AwaitInv, Quiet, Running
  <2>2. c'[u].pc \notin QuietPcs /\ w'[t].pc \in Running
    BY <1>1, <2>1 DEF AwaitAt, Running
  <2> QED
    BY <2>2 DEF AwaitAt, QuietPcs, Clearing
<1> QED
  BY <1>3, <1>4, <1>5 DEF Core, TasksInv

\* Some sleepers are woken.
Wakes == \A u \in Workers : \/ w'[u] = w[u]
                            \/ w[u].pc = "asleep" /\ w'[u] = Resting("wait")

\* Workers that wake up have no task before and after.
LEMMA WakesCalm ==
  ASSUME Types, Wakes
  PROVE  /\ \A u \in Workers : CalmWorker(u) /\ Stands(u)
         /\ \A u \in Workers : w'[u].pc \in Running \cup {"mark"} => w'[u] = w[u]
         /\ queue' = queue => (Quiet => Quiet')
<1>1. Resting("wait").pc = "wait"
  BY DEF Resting
<1>2. \A u \in Workers : w'[u].pc \in Running \cup {"mark"} => w'[u] = w[u]
  BY <1>1 DEF Wakes, Running
<1>3. ASSUME NEW u \in Workers PROVE CalmWorker(u) /\ Stands(u)
  <2>1. CASE w'[u] = w[u]
    BY <2>1 DEF CalmWorker, Stands
  <2>2. CASE w[u].pc = "asleep" /\ w'[u].pc = "wait"
    BY <2>2 DEF CalmWorker, Stands, Busy, Running
  <2> QED
    BY <1>1, <2>1, <2>2 DEF Wakes
<1> QED
  BY <1>2, <1>3 DEF Quiet

\* What a wait has seen stays true when workers wake up.
LEMMA WakesAwait ==
  ASSUME Types, NEW u \in Clients, AwaitAt(u), Wakes, UNCHANGED <<queue, idCount>>, c'[u] = c[u]
  PROVE  AwaitAt(u)'
<1>1. ASSUME NEW v \in Workers, w[v].pc \in Running \cup {"mark", "look", "fetch", "missed"}
      PROVE  w'[v] = w[v]
  BY <1>1 DEF Wakes, Running
<1>2. Quiet => Quiet'
  BY WakesCalm
<1> QED
  BY <1>1, <1>2 DEF AwaitAt

\* A call moves on and wakes workers.
LEMMA WakingCore ==
  ASSUME OneClient, Types, Core, NEW t \in Threads, CalmCall(t), Lands(t), Wakes, ~Chosen(t)',
         UNCHANGED <<idCount, queue, status, job>>,
         c[t].pc \notin {"clear_queue", "clear_status"},
         c'[t].pc \notin QuietPcs \cup {"active"}
  PROVE  Core'
<1>1. Calm(t)
  BY WakesCalm DEF Calm
<1>2. JobsInv' /\ QueueInv' /\ RunInv' /\ ReadyInv'
  BY <1>1, CalmTasks DEF Core
<1>3. CallInv'
  BY <1>1, CalmCalls DEF Core
<1>4. WorkerInv'
  BY <1>1, WakesCalm, CalmWorkers DEF Core
<1>5. IdInv' /\ StatusInv' /\ OrderInv'
  BY <1>1, CalmIds DEF Core
<1>6. PrecedenceRespected'
  <2> SUFFICES ASSUME NEW u \in Workers, w'[u].pc = "body", NEW j \in w'[u].job, job'[j].kind.wait
               PROVE  \A o \in job'[j].before : Complete(o)'
    BY DEF PrecedenceRespected, WAt
  <2>1. w'[u] = w[u]
    BY WakesCalm DEF Running
  <2> QED
    BY <2>1 DEF Core, PrecedenceRespected, WAt, Complete
<1>7. AwaitInv'
  <2> SUFFICES ASSUME NEW u \in Clients PROVE AwaitAt(u)'
    BY DEF AwaitInv
  <2>1. CASE u = t
    BY <2>1 DEF AwaitAt, QuietPcs, Clearing
  <2>2. CASE u # t
    <3>1. c'[u] = c[u] /\ AwaitAt(u)
      BY <2>2, Distinct DEF CalmCall, Others, Core, AwaitInv
    <3> QED
      BY <3>1, WakesAwait
  <2> QED
    BY <2>1, <2>2
<1> QED
  BY <1>2, <1>3, <1>4, <1>5, <1>6, <1>7 DEF Core

\* What Notify does to the call.
LEMMA NextFacts ==
  ASSUME Types, NEW t \in Threads, Notify(t)
  PROVE  \E j \in c[t].job :
    /\ c[t].pc = "notify" /\ Others(t) /\ c'[t].job = c[t].job /\ c'[t].after = c[t].after
    /\ \/ c[t].i + 1 < job[j].kind.n /\ c'[t].pc = "push" /\ c'[t].i = c[t].i + 1
       \/ ~(c[t].i + 1 < job[j].kind.n) /\ c'[t].pc = "return" /\ c'[t].i = c[t].i
    /\ UNCHANGED <<idCount, num, active, queue, status, used, job>>
<1>1. PICK j \in c[t].job :
        /\ c[t].pc = "notify"
        /\ IF c[t].i + 1 < job[j].kind.n
             THEN Put(t, [c[t] EXCEPT !.pc = "push", !.i = @ + 1])
             ELSE Go(t, "return")
        /\ UNCHANGED <<idCount, num, active, queue, status, used, job>>
  BY DEF Notify, At
<1>2. CASE c[t].i + 1 < job[j].kind.n
  <2> DEFINE g == [c[t] EXCEPT !.pc = "push", !.i = @ + 1]
  <2>1. Put(t, g)
    BY <1>1, <1>2
  <2>2. g \in Frames /\ g.pc = "push" /\ g.after = c[t].after /\ g.job = c[t].job
        /\ g.i = c[t].i + 1
    BY FrameNext, FrameFields
  <2> HIDE DEF g
  <2>3. Others(t) /\ c'[t] = g
    BY <2>1, <2>2, PutFacts
  <2> QED
    BY <1>1, <1>2, <2>2, <2>3
<1>3. CASE ~(c[t].i + 1 < job[j].kind.n)
  BY <1>1, <1>3, GoFacts DEF CallPcs, HasTask
<1> QED
  BY <1>2, <1>3

\* A notification keeps Core.
LEMMA NotifyCore ==
  ASSUME OneClient, Types, Core, ~Over, NEW t \in Threads, Notify(t)
  PROVE  Core'
<1>1. PICK j \in c[t].job :
    /\ c[t].pc = "notify" /\ Others(t) /\ c'[t].job = c[t].job /\ c'[t].after = c[t].after
    /\ \/ c[t].i + 1 < job[j].kind.n /\ c'[t].pc = "push" /\ c'[t].i = c[t].i + 1
       \/ ~(c[t].i + 1 < job[j].kind.n) /\ c'[t].pc = "return" /\ c'[t].i = c[t].i
    /\ UNCHANGED <<idCount, num, active, queue, status, used, job>>
  BY NextFacts
<1>2. Wakes
  BY NotifyFacts DEF Notify, Wakes
<1>3. c[t].after # "gone" /\ (t \in Workers => c[t] # NoCall)
  BY <1>1, InsideCall DEF Joining
<1>4. ~Preparing(t) /\ Makes(t) /\ ~Preparing(t)' /\ Makes(t)'
  BY <1>1 DEF Preparing, Makes, Spinning, Clearing, HasTask
<1>5. \A k \in c[t].job : k = j
  BY <1>1, <1>4 DEF Core, CallInv, MakesInv, Sole
<1>6. job[j].kind.n \in Nat /\ c[t].i \in Nat
  BY FrameFields, TaskFields, KindTypes
<1>7. CalmCall(t)
  <2>1. ASSUME NEW k \in Jobs, NEW i \in 0..(job[k].kind.n - 1)
        PROVE  Passed(t, k, i)' <=> Passed(t, k, i)
    <3>1. CASE k \in c[t].job
      <4>1. k = j /\ i \in Nat
        BY <1>5, <1>6, <3>1
      <4> QED
        BY <1>1, <1>6, <3>1, <4>1 DEF Passed
    <3>2. CASE k \notin c[t].job
      BY <1>1, <3>2 DEF Passed
    <3> QED
      BY <3>1, <3>2
  <2> QED
    BY <1>1, <1>4, <2>1 DEF CalmCall, HasTask
<1>8. Lands(t)
  <2>1. StateOf(t) \subseteq StateOf(t)'
    BY <1>1, <1>4 DEF StateOf, Entering
  <2>2. Shape(t)'
    BY <1>1, <1>3, <1>4 DEF Shape, Clearing, Joining
  <2> QED
    BY <1>1, <1>3, <1>4, <1>5, <2>1, <2>2 DEF Lands, Clearing
<1> QED
  BY <1>1, <1>2, <1>7, <1>8, WakingCore DEF Chosen, QuietPcs, Clearing

\* Waking the workers for their exit keeps Core.
LEMMA ExitNotifyCore ==
  ASSUME OneClient, Types, Core, ~Over, NEW t \in Threads, ExitNotify(t)
  PROVE  Core'
<1>1. /\ c[t].pc = "exit_notify" /\ Others(t) /\ c'[t].pc = "join" /\ c'[t].after = c[t].after
      /\ UNCHANGED <<idCount, num, active, queue, status, used, job>>
  BY GoFacts DEF ExitNotify, At, CallPcs
<1>2. Wakes
  BY WakeFacts DEF ExitNotify, Wakes
<1>3. c[t].after = "gone" /\ t \in Clients
  BY <1>1 DEF Core, CallInv, Shape, Joining
<1>4. ~Preparing(t) /\ ~Makes(t) /\ ~Preparing(t)' /\ ~Makes(t)'
  BY <1>1 DEF Preparing, Makes, Spinning, Clearing, HasTask
<1>5. CalmCall(t) /\ Lands(t)
  BY <1>1, <1>3, <1>4, Distinct DEF CalmCall, Lands, Shape, Passed, HasTask, Clearing, Joining
<1> QED
  BY <1>1, <1>2, <1>5, WakingCore DEF Chosen, QuietPcs, Clearing
-----------------------------------------------------------------------------
(* What the steps that change a task leave as it was.                       *)

\* What a step of t leaves alone of another call.
LEMMA OthersSame ==
  ASSUME NEW t, Others(t), NEW u \in Threads, u # t
  PROVE  /\ c'[u] = c[u] /\ StateOf(u)' = StateOf(u)
         /\ Makes(u)' <=> Makes(u)
         /\ Preparing(u)' <=> Preparing(u)
         /\ Chosen(u)' <=> Chosen(u)
         /\ Shape(u)' <=> Shape(u)
         /\ \A j \in Jobs : CallHolds(u, j)' <=> CallHolds(u, j)
         /\ \A j \in Jobs, i \in Nat : Passed(u, j, i)' <=> Passed(u, j, i)
<1>1. c'[u] = c[u]
  BY DEF Others
<1>2. Preparing(u)' <=> Preparing(u)
  BY <1>1 DEF Preparing
<1> QED
  BY <1>1, <1>2 DEF Makes, Chosen, StateOf, Shape, CallHolds, Passed

\* A task that is alive, or of a call, has been enqueued.
LEMMA AliveIsOld ==
  ASSUME Types, Core, NEW j \in Jobs
  PROVE  /\ Alive(j) => job[j].st # "new"
         /\ \A u \in Threads : Makes(u) /\ j \in c[u].job => job[j].st # "new"
         /\ job[j].st # "new" => job[j].kind \in Kinds /\ \A o \in job[j].before : job[o].st = "live"
<1>1. ASSUME NEW u \in Threads, Makes(u), j \in c[u].job PROVE job[j].st # "new"
  BY <1>1 DEF Core, CallInv, MakesInv, StateOf
<1>2. ASSUME NEW u \in Threads, c[u].pc \in HasTask \cup {"mark"} PROVE Makes(u)
  BY <1>2 DEF Makes
<1>3. ASSUME NEW u \in Workers, InHand(u, j) PROVE job[j].st # "new"
  <2>1. j \in w[u].job
    BY <1>3 DEF InHand
  <2> QED
    BY <1>3, <2>1 DEF Core, WorkerInv, Grip
<1>4. Queued(j) => job[j].st # "new"
  BY DEF Core, QueueInv, Queued
<1>5. \A u \in Workers : w[u].pc \in Running \cup {"mark"} /\ j \in w[u].job => InHand(u, j)
  BY DEF InHand
<1>6. Alive(j) => job[j].st # "new"
  BY <1>1, <1>2, <1>3, <1>4, <1>5 DEF Alive, Held, Destroying, CallHolds, WorkerHolds
<1> QED
  BY <1>1, <1>6 DEF Core, JobsInv

\* A task that exists keeps its kind and the tasks before it, and stays complete.
KeepsTasks == \A k \in Jobs : job[k].st # "new" =>
  /\ job'[k].kind = job[k].kind /\ job'[k].before = job[k].before
  /\ job'[k].st # "new" /\ (job[k].st = "live" => job'[k].st = "live")
  /\ Complete(k) => Complete(k)'
KeepsIds == \A k \in Jobs : job[k].st # "new" => job'[k].id = job[k].id

\* A step that issues no id and sets only the bits of ids that are out of use
\* keeps the invariants about ids.
LEMMA IdsKeep ==
  ASSUME Types, Core, KeepsTasks, KeepsIds, idCount' = idCount,
         \A k \in Jobs : (Alive(k)' => Alive(k)) /\ (Held(k)' => Held(k)),
         \A u \in Threads : Chosen(u)' => Chosen(u) /\ c'[u] = c[u],
         ResetByCall => ResetByCall',
         \A s \in status' : s \in status \/
           /\ s < idCount
           /\ \A k \in Jobs : Held(k)' => job[k].id # s
           /\ \A u \in Threads : Chosen(u) => c[u].id # s
  PROVE  IdInv' /\ StatusInv' /\ OrderInv'
<1>1. \A k \in Jobs : Alive(k)' => /\ Alive(k) /\ job'[k].id = job[k].id
                                   /\ job'[k].before = job[k].before
  BY AliveIsOld DEF KeepsTasks, KeepsIds
<1>2. IdInv'
  <2>1. \A k \in Jobs : Alive(k)' => job'[k].id < idCount' /\ job'[k].id < MaxId
    BY <1>1 DEF Core, IdInv
  <2>2. \A k, o \in Jobs : Alive(k)' /\ Alive(o)' /\ job'[k].id = job'[o].id => k = o
    BY <1>1 DEF Core, IdInv
  <2>3. ASSUME NEW u \in Threads, Chosen(u)'
        PROVE  /\ c'[u].id < idCount'
               /\ \A k \in Jobs : Alive(k)' => job'[k].id # c'[u].id
               /\ \A v \in Threads : Chosen(v)' /\ c'[v].id = c'[u].id => v = u
               /\ c'[u].pc = "slot" => c'[u].id < MaxId
    BY <1>1, <2>3 DEF Core, IdInv
  <2> QED
    BY <2>1, <2>2, <2>3 DEF IdInv
<1>3. StatusInv'
  <2>1. \A k \in Jobs : Held(k)' => Held(k) /\ job'[k].id = job[k].id
    BY <1>1 DEF Alive
  <2>2. \A k \in Jobs : Held(k)' => job'[k].id \notin status'
    BY <2>1 DEF Core, StatusInv
  <2>3. \A u \in Threads : Chosen(u)' => c'[u].id \notin status'
    BY DEF Core, StatusInv
  <2> QED
    BY <2>2, <2>3 DEF Core, StatusInv
<1>4. OrderInv'
  <2>1. ASSUME NEW k \in Jobs, job[k].st # "new", NEW o \in job[k].before
        PROVE  job'[k].before = job[k].before /\ o \in Jobs /\ job'[o].id = job[o].id
               /\ (Complete(o) => Complete(o)')
    BY <2>1, AliveIsOld, TaskFields DEF KeepsTasks, KeepsIds
  <2>2. \A k \in Jobs : Alive(k)' =>
          \A o \in job'[k].before : Complete(o)' \/ job'[o].id < job'[k].id
    BY <1>1, <2>1, AliveIsOld DEF Core, OrderInv
  <2>3. ASSUME NEW u \in Threads, Chosen(u)', NEW k \in c'[u].job, NEW o \in job'[k].before
        PROVE  Complete(o)' \/ job'[o].id < c'[u].id
    <3>1. Chosen(u) /\ c'[u] = c[u] /\ k \in c[u].job /\ k \in Jobs /\ Makes(u)
      BY <2>3, FrameFields DEF Chosen, Makes, Preparing
    <3>2. job[k].st # "new"
      BY <3>1, AliveIsOld
    <3> QED
      BY <2>1, <2>3, <3>1, <3>2 DEF KeepsTasks, KeepsIds, Core, OrderInv
  <2> QED
    BY <2>2, <2>3 DEF OrderInv
<1> QED
  BY <1>2, <1>3, <1>4

\* No task before a running one becomes incomplete.
LEMMA PrecedenceKeeps ==
  ASSUME Types, Core, KeepsTasks, \A u \in Workers : w'[u].pc = "body" => w'[u] = w[u]
  PROVE  PrecedenceRespected'
<1> SUFFICES ASSUME NEW u \in Workers, w'[u].pc = "body", NEW j \in w'[u].job, job'[j].kind.wait,
                    NEW o \in job'[j].before
             PROVE  Complete(o)'
  BY DEF PrecedenceRespected, WAt
<1>1. w'[u] = w[u] /\ w[u].pc = "body" /\ j \in w[u].job /\ j \in Jobs
  BY WorkerFields
<1>2. job[j].st # "new"
  BY <1>1 DEF Core, WorkerInv, Grip, InHand, Running
<1>3. job[j].kind.wait /\ o \in job[j].before
  BY <1>1, <1>2 DEF KeepsTasks
<1>4. o \in Jobs /\ job[o].st = "live"
  BY <1>1, <1>2, <1>3, AliveIsOld, TaskFields
<1> QED
  BY <1>1, <1>3, <1>4 DEF KeepsTasks, Core, PrecedenceRespected, WAt

\* A worker keeps its hold of its task.
LEMMA GripKeeps ==
  ASSUME Types, Core, KeepsTasks, NEW u \in Workers, w'[u] = w[u] \/ ~Busy(u)'
  PROVE  Grip(u)'
<1>1. CASE ~Busy(u)'
  BY <1>1 DEF Grip, InHand, Busy
<1>2. CASE w'[u] = w[u]
  <2> SUFFICES ASSUME NEW j \in w[u].job, InHand(u, j)
               PROVE  /\ \A k \in w[u].job : k = j
                      /\ job'[j].st # "new"
                      /\ w[u].pc \in Running => w[u].i < job'[j].kind.n
    BY <1>2 DEF Grip, InHand
  <2>1. /\ j \in Jobs /\ \A k \in w[u].job : k = j
        /\ job[j].st # "new"
        /\ w[u].pc \in Running => w[u].i < job[j].kind.n
    BY WorkerFields DEF Core, WorkerInv, Grip
  <2> QED
    BY <2>1 DEF KeepsTasks
<1> QED
  BY <1>1, <1>2

\* Queued iterations stay iterations of their tasks.
LEMMA QueueKeeps ==
  ASSUME Types, Core, KeepsTasks, queue' = queue
  PROVE  QueueInv'
<1> SUFFICES ASSUME NEW n \in DOMAIN queue
             PROVE  job'[queue[n][1]].st # "new" /\ queue[n][2] < job'[queue[n][1]].kind.n
  BY DEF QueueInv
<1>1. queue[n][1] \in Jobs
  BY ElementOfSeq DEF Types
<1>2. job[queue[n][1]].st # "new" /\ queue[n][2] < job[queue[n][1]].kind.n
  BY DEF Core, QueueInv
<1> QED
  BY <1>1, <1>2 DEF KeepsTasks

\* What the other calls know of their tasks stays true.
LEMMA CallsKeep ==
  ASSUME Types, Core, KeepsTasks, NEW t \in Threads, Others(t),
         Makes(t)' => Makes(t) /\ c'[t].job = c[t].job,
         \A k \in Jobs : Alive(k)' => Alive(k) \/ (Makes(t) /\ k \in c[t].job),
         \A k \in Jobs : job[k].st # "new" =>
           job'[k].st = job[k].st \/ (Makes(t) /\ k \in c[t].job)
  PROVE  \A u \in Threads : u # t => Shape(u)' /\ MakesInv(u)'
<1> SUFFICES ASSUME NEW u \in Threads, u # t PROVE Shape(u)' /\ MakesInv(u)'
  OBVIOUS
<1>1. /\ c'[u] = c[u] /\ StateOf(u)' = StateOf(u)
      /\ Makes(u)' <=> Makes(u)
      /\ Preparing(u)' <=> Preparing(u)
      /\ Shape(u)'
  BY OthersSame DEF Core, CallInv
<1>2. MakesInv(u)'
  <2> SUFFICES ASSUME Makes(u), NEW j \in c[u].job
               PROVE  /\ Sole(u, j)'
                      /\ \A v \in Threads : Makes(v)' /\ j \in c'[v].job => v = u
                      /\ job'[j].st \in StateOf(u)
                      /\ c[u].pc \in {"push", "notify", "sub", "notify_all"} =>
                           c[u].i < job'[j].kind.n
                      /\ Preparing(u) => ~Alive(j)'
    BY <1>1 DEF MakesInv
  <2>1. j \in Jobs /\ MakesInv(u) /\ job[j].st # "new"
    BY FrameFields, AliveIsOld DEF Core, CallInv
  <2>2. ~(Makes(t) /\ j \in c[t].job)
    BY <2>1 DEF MakesInv
  <2>3. \A v \in Threads : Makes(v)' /\ j \in c'[v].job => v = u
    <3> SUFFICES ASSUME NEW v \in Threads, Makes(v)', j \in c'[v].job PROVE v = u
      OBVIOUS
    <3>1. CASE v = t
      BY <2>2, <3>1
    <3>2. CASE v # t
      BY <2>1, <3>2, OthersSame DEF MakesInv
    <3> QED
      BY <3>1, <3>2
  <2>4. job'[j].st = job[j].st /\ job'[j].kind = job[j].kind
    BY <2>1, <2>2 DEF KeepsTasks
  <2>5. Alive(j)' => Alive(j)
    BY <2>1, <2>2
  <2> QED
    BY <1>1, <2>1, <2>3, <2>4, <2>5 DEF MakesInv, Sole
<1> QED
  BY <1>1, <1>2

\* The task of a call is its own.
LEMMA Owned ==
  ASSUME Types, Core, NEW t \in Threads, Makes(t), NEW j \in c[t].job
  PROVE  /\ j \in Jobs /\ job[j].st # "new" /\ job[j].kind \in Kinds
         /\ job[j].kind.n \in Nat /\ job[j].kind.n # 0
         /\ c[t].job = {j} /\ Shape(t) /\ MakesInv(t)
         /\ \A u \in Threads : u # t =>
              ~CallHolds(u, j) /\ ~(c[u].pc = "mark" /\ j \in c[u].job) /\ ~(Makes(u) /\ j \in c[u].job)
<1>1. j \in Jobs /\ job[j].st # "new" /\ job[j].kind \in Kinds /\ Shape(t) /\ MakesInv(t)
  BY FrameFields, AliveIsOld DEF Core, CallInv
<1>2. job[j].kind.n \in Nat /\ job[j].kind.n # 0
  BY <1>1, KindTypes
<1>3. c[t].job = {j}
  BY <1>1 DEF MakesInv, Sole
<1>4. \A u \in Threads : u # t => ~(Makes(u) /\ j \in c[u].job)
  BY <1>1 DEF MakesInv
<1> QED
  BY <1>1, <1>2, <1>3, <1>4 DEF CallHolds, Makes

\* A call of a worker stays inside of the task it runs.
LEMMA NestedKeeps ==
  ASSUME Types, Core, NEW t \in Threads, Others(t), w' = w,
         t \in Workers => c'[t] = NoCall \/
           (Nested(t) /\ c[t] # NoCall /\ Makes(t)' /\ c'[t].pc \notin Clearing \cup {"reissue"})
  PROVE  \A u \in Workers : Nested(u)'
<1> SUFFICES ASSUME NEW u \in Workers PROVE Nested(u)'
  OBVIOUS
<1>1. CASE u = t
  BY <1>1 DEF Nested
<1>2. CASE u # t
  <2>1. u \in Threads
    BY Distinct
  <2>2. c'[u] = c[u] /\ (Makes(u)' <=> Makes(u))
    BY <1>2, <2>1, OthersSame
  <2>3. Nested(u)
    BY DEF Core, WorkerInv
  <2> QED
    BY <2>2, <2>3 DEF Nested
<1> QED
  BY <1>1, <1>2

\* A call that drops its shared_ptr keeps Core: a task it completes has run.
LEMMA DropCore ==
  ASSUME OneClient, Types, Core, ~Over, NEW t \in Threads, NEW j \in c[t].job,
         c[t].pc \in {"return", "caught"},
         NEW jobs \in [Jobs -> Tasks], \A o \in Jobs \ {j} : jobs[o] = job[o],
         c[t].pc = "return" => jobs[j].st = "live",
         c[t].pc = "caught" => jobs[j].st = "thrown",
         jobs[j].kind = job[j].kind, jobs[j].id = job[j].id, jobs[j].ran = job[j].ran,
         jobs[j].before = job[j].before, jobs[j].ready = job[j].ready,
         DropByCall(t, j, jobs), UNCHANGED <<idCount, num, active, queue, status, used, w>>
  PROVE  Core'
<1>1. /\ Others(t) /\ job' \in [Jobs -> Tasks]
      /\ \A o \in Jobs \ {j} : job'[o] = job[o]
      /\ \/ HeldBesidesCall(t, j) /\ c'[t] = NoCall /\ job' = jobs
         \/ /\ ~HeldBesidesCall(t, j) /\ c'[t].pc = "mark" /\ c'[t].job = c[t].job
            /\ c'[t].i = c[t].i /\ c'[t].after = c[t].after
      /\ job'[j].st = jobs[j].st /\ job'[j].kind = job[j].kind /\ job'[j].id = job[j].id
      /\ job'[j].ran = job[j].ran /\ job'[j].before = job[j].before
  BY FrameFields, DropFacts
<1>2. /\ Makes(t) /\ ~Preparing(t) /\ CallHolds(t, j) /\ t \in Threads
      /\ c[t].after # "gone" /\ (t \in Workers => c[t] # NoCall)
  BY InsideCall DEF Makes, Preparing, CallHolds, HasTask, Spinning, Clearing, Joining
<1>3. /\ j \in Jobs /\ job[j].st # "new" /\ job[j].kind \in Kinds
      /\ job[j].kind.n \in Nat /\ c[t].job = {j} /\ Shape(t) /\ MakesInv(t)
      /\ \A u \in Threads : u # t =>
           ~CallHolds(u, j) /\ ~(c[u].pc = "mark" /\ j \in c[u].job) /\ ~(Makes(u) /\ j \in c[u].job)
  BY <1>2, Owned
<1>4. job[j].st = (IF c[t].pc = "return" THEN "made" ELSE "thrown")
  BY <1>2, <1>3 DEF MakesInv, StateOf, Entering
<1>5. KeepsTasks
  <2> SUFFICES ASSUME NEW k \in Jobs, job[k].st # "new"
               PROVE  /\ job'[k].kind = job[k].kind
                      /\ job'[k].before = job[k].before /\ job'[k].st # "new"
                      /\ job[k].st = "live" => job'[k].st = "live"
                      /\ Complete(k) => Complete(k)'
    BY DEF KeepsTasks
  <2>1. CASE k = j
    BY <1>1, <1>4, <2>1 DEF Complete
  <2>2. CASE k # j
    BY <1>1, <2>2 DEF Complete
  <2> QED
    BY <2>1, <2>2
<1>6. \A k \in Jobs : Queued(k)' <=> Queued(k)
  BY DEF Queued
<1>7. \A u \in Workers, k \in Jobs : WorkerHolds(u, k)' <=> WorkerHolds(u, k)
  BY DEF WorkerHolds
<1>8. \A u \in Threads, k \in Jobs : CallHolds(u, k)' <=> CallHolds(u, k) /\ k # j
  <2> SUFFICES ASSUME NEW u \in Threads, NEW k \in Jobs
               PROVE  CallHolds(u, k)' <=> CallHolds(u, k) /\ k # j
    OBVIOUS
  <2>1. CASE u = t
    BY <1>1, <1>3, <2>1, NoCallFields DEF CallHolds, HasTask
  <2>2. CASE u # t
    BY <1>1, <1>3, <2>2, OthersSame
  <2> QED
    BY <2>1, <2>2
<1>9. HeldBesidesCall(t, j) <=> Held(j)'
  BY <1>3, <1>6, <1>7, <1>8 DEF HeldBesidesCall, Held
<1>10. \A k \in Jobs : k # j => (Held(k)' <=> Held(k))
  BY <1>6, <1>7, <1>8 DEF Held
<1>11. Held(j) /\ ~Destroying(j)
  BY <1>2, <1>3 DEF Held, Core, ReadyInv
<1>12. \A k \in Jobs : k # j => (Destroying(k)' <=> Destroying(k))
  <2> SUFFICES ASSUME NEW k \in Jobs, k # j PROVE Destroying(k)' <=> Destroying(k)
    OBVIOUS
  <2>1. \A u \in Threads : c'[u].pc = "mark" /\ k \in c'[u].job <=> c[u].pc = "mark" /\ k \in c[u].job
    BY <1>1, <1>3, NoCallFields DEF Others
  <2> QED
    BY <2>1 DEF Destroying
<1>13. Destroying(j)' => ~HeldBesidesCall(t, j)
  <2>1. \A u \in Threads : c[u].pc = "mark" => j \notin c[u].job
    BY <1>11 DEF Destroying
  <2>2. HeldBesidesCall(t, j) => \A u \in Threads : c'[u].pc = "mark" => j \notin c'[u].job
    BY <1>1, <2>1, NoCallFields DEF Others
  <2>3. \A u \in Workers : w[u].pc = "mark" => j \notin w[u].job
    BY <1>11 DEF Destroying
  <2> QED
    BY <2>2, <2>3 DEF Destroying
<1>14. \A k \in Jobs : (Held(k)' => Held(k)) /\ (Alive(k)' => Alive(k))
                       /\ (Destroying(k)' => ~Held(k)')
  BY <1>9, <1>10, <1>11, <1>12, <1>13 DEF Alive, Core, ReadyInv
<1>15. \A k \in Jobs, i \in Nat : Pending(k, i)' <=> Pending(k, i)
  BY <1>7 DEF Pending
<1>16. ~HeldBesidesCall(t, j) /\ job'[j].st = "live" => Complete(j)
  <2> SUFFICES ASSUME ~HeldBesidesCall(t, j), job'[j].st = "live" PROVE Complete(j)
    OBVIOUS
  <2>1. c[t].pc = "return"
    BY <1>1
  <2>2. ASSUME NEW i \in 0..(job[j].kind.n - 1) PROVE i \in job[j].ran
    <3>1. ~Pending(j, i)
      BY <2>2 DEF Pending, HeldBesidesCall, Queued
    <3>2. Enqueued(j, i)
      BY <2>1 DEF Enqueued, Passed
    <3> QED
      BY <1>3, <2>2, <3>1, <3>2 DEF Core, RunInv
  <2>3. job[j].ran \subseteq 0..(job[j].kind.n - 1)
    BY <1>3 DEF Core, JobsInv
  <2> QED
    BY <2>2, <2>3 DEF Complete
<1>17. JobsInv'
  <2> SUFFICES ASSUME NEW k \in Jobs
               PROVE  /\ job'[k].st = "new" => job'[k] = NewJob
                      /\ job'[k].st # "new" => job'[k].kind \in Kinds
                      /\ job'[k].st = "made" => \E u \in Threads : Makes(u)' /\ k \in c'[u].job
                      /\ job'[k].ran \subseteq 0..(job'[k].kind.n - 1)
                      /\ \A o \in job'[k].before : job'[o].st = "live"
    BY DEF JobsInv
  <2>1. /\ job[k].st = "new" => job[k] = NewJob
        /\ job[k].st # "new" => job[k].kind \in Kinds
        /\ job[k].st = "made" => \E u \in Threads : Makes(u) /\ k \in c[u].job
        /\ job[k].ran \subseteq 0..(job[k].kind.n - 1)
        /\ \A o \in job[k].before : o \in Jobs /\ job[o].st = "live"
    BY TaskFields DEF Core, JobsInv
  <2>2. \A o \in job[k].before : job'[o].st = "live"
    BY <1>5, <2>1 DEF KeepsTasks
  <2>3. CASE k = j
    BY <1>1, <1>3, <2>1, <2>2, <2>3
  <2>4. CASE k # j
    <3>1. job[k].st = "made" => \E u \in Threads : Makes(u)' /\ k \in c'[u].job
      <4> SUFFICES ASSUME job[k].st = "made" PROVE \E u \in Threads : Makes(u)' /\ k \in c'[u].job
        OBVIOUS
      <4>1. PICK u \in Threads : Makes(u) /\ k \in c[u].job
        BY <2>1
      <4>2. u # t
        BY <1>3, <2>4, <4>1
      <4> QED
        BY <1>1, <4>1, <4>2, OthersSame
    <3> QED
      BY <1>1, <2>1, <2>2, <2>4, <3>1
  <2> QED
    BY <2>3, <2>4
<1>18. QueueInv'
  BY <1>5, QueueKeeps
<1>19. ~Preparing(t)' /\ (Makes(t)' => c'[t].pc = "mark") /\ ~Chosen(t)'
  BY <1>1, NoCallFields DEF Preparing, Makes, Spinning, Clearing, HasTask, Chosen
<1>20. WorkerInv'
  <2>1. \A u \in Workers : Grip(u)'
    BY <1>5, GripKeeps
  <2>2. c'[t].pc = "mark" => Makes(t)'
    BY DEF Makes
  <2>3. t \in Workers => Nested(t)
    BY DEF Core, WorkerInv
  <2>4. \A u \in Workers : Nested(u)'
    BY <1>1, <1>2, <2>2, <2>3, NestedKeeps DEF Clearing
  <2> QED
    BY <2>1, <2>4 DEF WorkerInv
<1>21. CallInv'
  <2>1. \A u \in Threads : u # t => Shape(u)' /\ MakesInv(u)'
    <3>1. Makes(t)' => Makes(t) /\ c'[t].job = c[t].job
      BY <1>1, <1>2, <1>19, NoCallFields
    <3>2. \A k \in Jobs : job'[k].st = job[k].st \/ (Makes(t) /\ k \in c[t].job)
      BY <1>1, <1>2
    <3> QED
      BY <1>1, <1>5, <1>14, <3>1, <3>2, CallsKeep
  <2>2. Shape(t)'
    BY <1>1, <1>2, <1>19, NoCallFields DEF Shape, Clearing, Joining
  <2>3. MakesInv(t)'
    <3> SUFFICES ASSUME Makes(t)', NEW k \in c'[t].job
                 PROVE  /\ Sole(t, k)'
                        /\ \A u \in Threads : Makes(u)' /\ k \in c'[u].job => u = t
                        /\ job'[k].st \in StateOf(t)'
      BY <1>19 DEF MakesInv
    <3>1. c'[t].pc = "mark" /\ c'[t].job = {j} /\ k = j
      BY <1>1, <1>3, <1>19, NoCallFields
    <3>2. \A u \in Threads : Makes(u)' /\ k \in c'[u].job => u = t
      BY <1>1, <1>3, <3>1, OthersSame
    <3>3. StateOf(t)' = {"live", "thrown"}
      BY <1>19, <3>1 DEF StateOf, Entering
    <3> QED
      BY <1>1, <3>1, <3>2, <3>3 DEF Sole
  <2> QED
    BY <2>1, <2>2, <2>3 DEF CallInv
<1>22. RunInv'
  <2> SUFFICES ASSUME NEW k \in Jobs, NEW i \in 0..(job'[k].kind.n - 1), Enqueued(k, i)'
               PROVE  i \in job'[k].ran \/ Pending(k, i)'
    BY DEF RunInv
  <2>1. job'[k].kind = job[k].kind /\ job'[k].ran = job[k].ran
    BY <1>1
  <2>2. i \in Nat
    BY <2>1, TaskFields, KindTypes
  <2>3. Enqueued(k, i)
    <3>1. CASE job'[k].st = "live"
      <4>1. CASE k = j
        BY <1>1, <3>1, <4>1 DEF Enqueued, Passed
      <4>2. CASE k # j
        BY <1>1, <3>1, <4>2 DEF Enqueued
      <4> QED
        BY <4>1, <4>2
    <3>2. CASE job'[k].st # "live"
      <4>1. PICK u \in Threads : Passed(u, k, i)'
        BY <3>2 DEF Enqueued
      <4>2. u # t
        BY <1>1, <4>1, NoCallFields DEF Passed
      <4> QED
        BY <1>1, <2>2, <4>1, <4>2, OthersSame DEF Enqueued
    <3> QED
      BY <3>1, <3>2
  <2> QED
    BY <1>15, <2>1, <2>2, <2>3 DEF Core, RunInv
<1>23. ReadyInv'
  <2> SUFFICES ASSUME NEW k \in Jobs
               PROVE  /\ job'[k].st \in {"made", "live"} /\ job'[k].ready => Complete(k)'
                      /\ job'[k].st = "live" /\ Destroying(k)' => Complete(k)'
    BY <1>14 DEF ReadyInv
  <2>1. CASE k = j
    <3>1. Complete(j)' <=> Complete(j)
      BY <1>1 DEF Complete
    <3>2. job'[j].st = "live" /\ HeldBesidesCall(t, j) => job'[j].ready = job[j].ready /\ job[j].st = "made"
      BY <1>1, <1>4
    <3>3. job'[j].st # "made"
      BY <1>1
    <3> QED
      BY <1>3, <1>13, <1>16, <2>1, <3>1, <3>2, <3>3 DEF Core, ReadyInv
  <2>2. CASE k # j
    BY <1>1, <1>12, <2>2 DEF Core, ReadyInv, Complete
  <2> QED
    BY <2>1, <2>2
<1>24. IdInv' /\ StatusInv' /\ OrderInv'
  <2>1. \A u \in Threads : Chosen(u)' => Chosen(u) /\ c'[u] = c[u]
    BY <1>1, <1>19, OthersSame
  <2>2. ResetByCall => ResetByCall'
    BY <1>1 DEF ResetByCall, Others
  <2> QED
    BY <1>1, <1>5, <1>14, <2>1, <2>2, IdsKeep DEF KeepsIds
<1>25. PrecedenceRespected'
  BY <1>5, PrecedenceKeeps
<1>26. AwaitInv'
  <2>1. AwaitAt(t)'
    BY <1>1, NoCallFields DEF AwaitAt, QuietPcs, Clearing
  <2> QED
    BY <1>1, <2>1, AwaitMoves DEF Core
<1> QED
  BY <1>17, <1>18, <1>20, <1>21, <1>22, <1>23, <1>24, <1>25, <1>26 DEF Core

\* The return of a future keeps Core.
LEMMA ReturnFutureCore ==
  ASSUME OneClient, Types, Core, ~Over, NEW t \in Threads, ReturnFuture(t)
  PROVE  Core'
<1> DEFINE jobs(j) == [job EXCEPT ![j].st = "live", ![j].future = TRUE]
<1>1. PICK j \in c[t].job : /\ c[t].pc = "return" /\ DropByCall(t, j, jobs(j))
                            /\ UNCHANGED <<idCount, num, active, queue, status, used, w>>
  BY DEF ReturnFuture, At
<1>2. j \in Jobs
  BY FrameFields
<1>3. /\ jobs(j) \in [Jobs -> Tasks] /\ \A o \in Jobs \ {j} : jobs(j)[o] = job[o]
      /\ jobs(j)[j].st = "live" /\ jobs(j)[j].kind = job[j].kind /\ jobs(j)[j].id = job[j].id
      /\ jobs(j)[j].ran = job[j].ran /\ jobs(j)[j].before = job[j].before
      /\ jobs(j)[j].ready = job[j].ready
  BY <1>2, ReturnFacts
<1> HIDE DEF jobs
<1> QED
  BY <1>1, <1>3, DropCore

\* The end of an exception handler keeps Core.
LEMMA DropErrorCore ==
  ASSUME OneClient, Types, Core, ~Over, NEW t \in Threads, DropError(t)
  PROVE  Core'
<1>1. PICK j \in c[t].job : /\ c[t].pc = "caught" /\ DropByCall(t, j, job)
                            /\ UNCHANGED <<idCount, num, active, queue, status, used, w>>
  BY DEF DropError, At
<1>2. Makes(t) /\ ~Preparing(t)
  BY <1>1 DEF Makes, Preparing, HasTask, Spinning, Clearing
<1>3. job[j].st = "thrown"
  BY <1>1, <1>2 DEF Core, CallInv, MakesInv, StateOf, Entering
<1>4. job \in [Jobs -> Tasks]
  BY DEF Types
<1> QED
  BY <1>1, <1>3, <1>4, DropCore

\* Tasks being made stay with the call that makes them.
LEMMA JobsKeep ==
  ASSUME Types, Core, KeepsTasks, NEW t \in Threads, Others(t),
         \A k \in Jobs : job'[k] = job[k] \/
           /\ job[k].st # "new" /\ job'[k].ran \subseteq 0..(job[k].kind.n - 1)
           /\ job'[k].st = "made" => job[k].st = "made",
         \A k \in Jobs : job'[k].st = "made" /\ Makes(t) /\ k \in c[t].job =>
           Makes(t)' /\ k \in c'[t].job
  PROVE  JobsInv'
<1> SUFFICES ASSUME NEW k \in Jobs
             PROVE  /\ job'[k].st = "new" => job'[k] = NewJob
                    /\ job'[k].st # "new" => job'[k].kind \in Kinds
                    /\ job'[k].st = "made" => \E u \in Threads : Makes(u)' /\ k \in c'[u].job
                    /\ job'[k].ran \subseteq 0..(job'[k].kind.n - 1)
                    /\ \A o \in job'[k].before : job'[o].st = "live"
  BY DEF JobsInv
<1>1. /\ job[k].st = "new" => job[k] = NewJob
      /\ job[k].st # "new" => job[k].kind \in Kinds
      /\ job[k].st = "made" => \E u \in Threads : Makes(u) /\ k \in c[u].job
      /\ job[k].ran \subseteq 0..(job[k].kind.n - 1)
      /\ \A o \in job[k].before : o \in Jobs /\ job[o].st = "live"
  BY TaskFields DEF Core, JobsInv
<1>2. \A o \in job[k].before : job'[o].st = "live"
  BY <1>1 DEF KeepsTasks
<1>3. job'[k].st = "made" => \E u \in Threads : Makes(u)' /\ k \in c'[u].job
  <2> SUFFICES ASSUME job'[k].st = "made" PROVE \E u \in Threads : Makes(u)' /\ k \in c'[u].job
    OBVIOUS
  <2>1. PICK u \in Threads : Makes(u) /\ k \in c[u].job
    BY <1>1
  <2>2. CASE u = t
    BY <2>1, <2>2
  <2>3. CASE u # t
    BY <2>1, <2>3, OthersSame
  <2> QED
    BY <2>2, <2>3
<1>4. CASE job'[k] = job[k]
  BY <1>1, <1>2, <1>3, <1>4
<1>5. CASE job[k].st # "new" /\ job'[k].ran \subseteq 0..(job[k].kind.n - 1)
  BY <1>1, <1>2, <1>3, <1>5 DEF KeepsTasks
<1> QED
  BY <1>4, <1>5

\* A step of a call on its task j, which stays with the call or lets it go, and
\* leaves the queue alone.
Handles(t, j) ==
  /\ UNCHANGED <<idCount, queue>> /\ Others(t) /\ Wakes
  /\ Makes(t) /\ ~Preparing(t)' /\ c[t].pc \in HasTask \cup {"slot", "mark"}
  /\ \/ c'[t] = NoCall
     \/ /\ c'[t].pc \in HasTask \cup {"mark"} /\ c'[t].job = c[t].job /\ c'[t].after = c[t].after
        /\ c'[t].pc # "add"
        /\ c'[t].pc \in {"push", "notify", "sub", "notify_all"} => c'[t].i < job[j].kind.n
        /\ job'[j].st \in StateOf(t)'
  /\ j \in c[t].job /\ \A o \in Jobs \ {j} : job'[o] = job[o]
  /\ job'[j].st \notin {"new", "made"} /\ (job[j].st = "live" => job'[j].st = "live")
  /\ job'[j].kind = job[j].kind /\ job'[j].id = job[j].id /\ job'[j].before = job[j].before
  /\ job[j].ran \subseteq job'[j].ran /\ job'[j].ran \subseteq 0..(job[j].kind.n - 1)
  /\ \A k \in Jobs : (Held(k)' => Held(k)) /\ (Alive(k)' => Alive(k))

\* Such a step keeps all but the conjuncts about runs, bits and ids.
LEMMA HandlesKeeps ==
  ASSUME OneClient, Types, Core, ~Over, NEW t \in Threads, NEW j \in Jobs, Handles(t, j)
  PROVE  /\ KeepsTasks /\ JobsInv' /\ QueueInv' /\ WorkerInv' /\ CallInv' /\ PrecedenceRespected'
         /\ AwaitInv' /\ ~Chosen(t)'
<1>1. /\ job[j].st # "new" /\ c[t].job = {j} /\ Shape(t) /\ MakesInv(t)
      /\ \A u \in Threads : u # t => ~(Makes(u) /\ j \in c[u].job)
  BY Owned DEF Handles
<1>2. KeepsTasks
  <2> SUFFICES ASSUME NEW k \in Jobs, job[k].st # "new"
               PROVE  /\ job'[k].kind = job[k].kind
                      /\ job'[k].before = job[k].before /\ job'[k].st # "new"
                      /\ job[k].st = "live" => job'[k].st = "live"
                      /\ Complete(k) => Complete(k)'
    BY DEF KeepsTasks
  <2>1. CASE k = j
    <3>1. Complete(j) => Complete(j)'
      BY DEF Handles, Complete
    <3> QED
      BY <2>1, <3>1 DEF Handles
  <2>2. CASE k # j
    <3>1. job'[k] = job[k]
      BY <2>2 DEF Handles
    <3> QED
      BY <3>1 DEF Complete
  <2> QED
    BY <2>1, <2>2
<1>3. Others(t) /\ Wakes /\ UNCHANGED <<idCount, queue>>
  BY DEF Handles
<1>4. JobsInv'
  <2>1. \A k \in Jobs : job'[k] = job[k] \/
           /\ job[k].st # "new" /\ job'[k].ran \subseteq 0..(job[k].kind.n - 1)
           /\ job'[k].st = "made" => job[k].st = "made"
    BY <1>1 DEF Handles
  <2>2. \A k \in Jobs : ~(job'[k].st = "made" /\ Makes(t) /\ k \in c[t].job)
    BY <1>1 DEF Handles
  <2> QED
    BY <1>2, <1>3, <2>1, <2>2, JobsKeep
<1>5. QueueInv'
  BY <1>2, <1>3, QueueKeeps
<1>6. c[t] # NoCall /\ c[t].after # "gone" /\ (t \in Workers => w[t].pc = "body" /\ Nested(t))
  <2>1. c[t].pc # "idle" /\ c[t].pc \notin Joining
    BY DEF Handles, HasTask, Joining
  <2> QED
    BY <2>1, InsideCall DEF Core, WorkerInv
<1>7. \A u \in Workers : w[u].pc \in Running \cup {"mark"} => w'[u] = w[u]
  BY <1>3 DEF Wakes, Running
<1>8. WorkerInv'
  <2> SUFFICES ASSUME NEW u \in Workers PROVE Grip(u)' /\ Nested(u)'
    BY DEF WorkerInv
  <2>1. Grip(u)'
    <3>1. w'[u] = w[u] \/ ~Busy(u)'
      BY <1>3, WakesCalm DEF Busy
    <3> QED
      BY <1>2, <3>1, GripKeeps
  <2>2. Nested(u)'
    <3>1. Nested(u) /\ u \in Threads
      BY Distinct DEF Core, WorkerInv
    <3>2. CASE u = t
      <4>1. CASE c'[t] = NoCall
        BY <3>2, <4>1 DEF Nested
      <4>2. CASE c'[t].pc \in HasTask \cup {"mark"}
        BY <1>6, <1>7, <3>1, <3>2, <4>2 DEF Nested, Makes, Running, HasTask, Clearing
      <4> QED
        BY <4>1, <4>2 DEF Handles
    <3>3. CASE u # t
      <4>1. c'[u] = c[u] /\ (Makes(u)' <=> Makes(u))
        BY <1>3, <3>1, <3>3, OthersSame
      <4> QED
        BY <1>7, <3>1, <4>1 DEF Nested, Running
    <3> QED
      BY <3>2, <3>3
  <2> QED
    BY <2>1, <2>2
<1>9. Makes(t)' => c'[t].pc \in HasTask \cup {"mark"} /\ c'[t].job = c[t].job
  BY NoCallFields DEF Handles, Makes, HasTask
<1>10. CallInv'
  <2>1. \A u \in Threads : u # t => Shape(u)' /\ MakesInv(u)'
    <3>1. \A k \in Jobs : job'[k].st = job[k].st \/ (Makes(t) /\ k \in c[t].job)
      BY DEF Handles
    <3> QED
      BY <1>2, <1>3, <1>9, <3>1, CallsKeep DEF Handles
  <2>2. Shape(t)'
    <3>1. CASE c'[t] = NoCall
      BY <3>1, NoCallFields DEF Handles, Shape, Clearing, Joining
    <3>2. CASE c'[t].pc \in HasTask \cup {"mark"} /\ c'[t].after = c[t].after /\ c'[t].pc # "add"
      BY <1>6, <3>2 DEF Handles, Shape, Clearing, Joining, HasTask
    <3> QED
      BY <3>1, <3>2 DEF Handles
  <2>3. MakesInv(t)'
    <3> SUFFICES ASSUME Makes(t)', NEW k \in c'[t].job
                 PROVE  /\ Sole(t, k)'
                        /\ \A u \in Threads : Makes(u)' /\ k \in c'[u].job => u = t
                        /\ job'[k].st \in StateOf(t)'
                        /\ c'[t].pc \in {"push", "notify", "sub", "notify_all"} =>
                             c'[t].i < job'[k].kind.n
      BY DEF MakesInv, Handles
    <3>1. c'[t].job = {j} /\ k = j /\ c'[t].pc # "idle" /\ c'[t] # NoCall
      BY <1>1, <1>9, NoCallFields DEF HasTask
    <3>2. \A u \in Threads : Makes(u)' /\ k \in c'[u].job => u = t
      BY <1>1, <1>3, <3>1, OthersSame
    <3> QED
      BY <3>1, <3>2 DEF Sole, Handles
  <2> QED
    BY <2>1, <2>2, <2>3 DEF CallInv
<1>11. PrecedenceRespected'
  BY <1>2, <1>3, WakesCalm, PrecedenceKeeps DEF Running
<1>12. c'[t].pc \notin QuietPcs \cup {"active"} /\ ~Chosen(t)'
  BY NoCallFields DEF Handles, HasTask, QuietPcs, Clearing, Chosen
<1>13. AwaitInv'
  <2> SUFFICES ASSUME NEW u \in Clients PROVE AwaitAt(u)'
    BY DEF AwaitInv
  <2>1. CASE u = t
    BY <1>12, <2>1 DEF AwaitAt, QuietPcs, Clearing
  <2>2. CASE u # t
    <3>1. c'[u] = c[u] /\ AwaitAt(u)
      BY <1>3, <2>2, Distinct DEF Others, Core, AwaitInv
    <3> QED
      BY <1>3, <3>1, WakesAwait
  <2> QED
    BY <2>1, <2>2
<1> QED
  BY <1>2, <1>4, <1>5, <1>8, <1>10, <1>11, <1>12, <1>13

\* What is left to show when the task that is handled is not an accepted one, or
\* does not change.
LEMMA HandlesRest ==
  ASSUME OneClient, Types, Core, ~Over, NEW t \in Threads, NEW j \in Jobs, Handles(t, j),
         job'[j] = job[j] \/ job'[j].st \notin {"made", "live"},
         \A k \in Jobs, i \in Nat : Pending(k, i)' <=> Pending(k, i),
         \A k \in Jobs : Destroying(k)' => Destroying(k) \/ (k = j /\ job'[j].st # "live" /\ ~Held(j)'),
         c'[t].pc \notin {"push", "notify", "return"},
         \A s \in status' : s \in status \/
           /\ s < idCount
           /\ \A k \in Jobs : Held(k)' => job[k].id # s
           /\ \A u \in Threads : Chosen(u) => c[u].id # s
  PROVE  Core'
<1>1. KeepsTasks /\ ~Chosen(t)' /\ Others(t)
  BY HandlesKeeps DEF Handles
<1>2. \A k \in Jobs : (Held(k)' => Held(k)) /\ (Alive(k)' => Alive(k))
  BY DEF Handles
<1>3. \A k \in Jobs : job'[k] = job[k] \/ (k = j /\ job'[k].st \notin {"made", "live"})
  BY DEF Handles
<1>4. RunInv'
  <2> SUFFICES ASSUME NEW k \in Jobs, NEW i \in 0..(job'[k].kind.n - 1), Enqueued(k, i)'
               PROVE  i \in job'[k].ran \/ Pending(k, i)'
    BY DEF RunInv
  <2>1. job'[k].kind = job[k].kind /\ job[k].ran \subseteq job'[k].ran
    BY DEF Handles
  <2>2. i \in Nat
    BY <2>1, TaskFields, KindTypes
  <2>3. Enqueued(k, i)
    <3>1. CASE job'[k].st = "live"
      BY <1>3, <3>1 DEF Enqueued
    <3>2. CASE job'[k].st # "live"
      <4>1. PICK u \in Threads : Passed(u, k, i)'
        BY <3>2 DEF Enqueued
      <4>2. u # t
        BY <4>1 DEF Passed
      <4> QED
        BY <1>1, <2>2, <4>1, <4>2, OthersSame DEF Enqueued
    <3> QED
      BY <3>1, <3>2
  <2> QED
    BY <2>1, <2>2, <2>3 DEF Core, RunInv
<1>5. ReadyInv'
  <2> SUFFICES ASSUME NEW k \in Jobs
               PROVE  /\ job'[k].st \in {"made", "live"} /\ job'[k].ready => Complete(k)'
                      /\ job'[k].st = "live" /\ Destroying(k)' => Complete(k)'
                      /\ Destroying(k)' => ~Held(k)'
    BY DEF ReadyInv
  <2>1. CASE job'[k] = job[k]
    BY <1>2, <2>1 DEF Core, ReadyInv, Complete
  <2>2. CASE k = j /\ job'[k].st \notin {"made", "live"}
    BY <1>2, <2>2 DEF Core, ReadyInv
  <2> QED
    BY <1>3, <2>1, <2>2
<1>6. IdInv' /\ StatusInv' /\ OrderInv'
  <2>1. \A u \in Threads : Chosen(u)' => Chosen(u) /\ c'[u] = c[u]
    BY <1>1, OthersSame
  <2>2. ResetByCall => ResetByCall'
    BY <1>1 DEF ResetByCall, Others, Handles, HasTask
  <2> QED
    BY <1>1, <1>2, <2>1, <2>2, IdsKeep DEF Handles, KeepsIds
<1> QED
  BY <1>4, <1>5, <1>6, HandlesKeeps DEF Core

\* A task that is thrown or refused keeps its other fields.
LEMMA StateUpdate ==
  ASSUME Types, NEW j \in Jobs, NEW s \in {"thrown", "refused"}, job' = [job EXCEPT ![j].st = s]
  PROVE  /\ \A o \in Jobs \ {j} : job'[o] = job[o]
         /\ job'[j].st = s /\ job'[j].kind = job[j].kind /\ job'[j].id = job[j].id
         /\ job'[j].ran = job[j].ran /\ job'[j].before = job[j].before
         /\ job'[j].ready = job[j].ready
<1> DEFINE r == [job[j] EXCEPT !.st = s]
<1>1. job[j] \in Tasks
  BY TaskFields
<1>2. r \in Tasks /\ r.st = s /\ r.kind = job[j].kind /\ r.id = job[j].id
      /\ r.ran = job[j].ran /\ r.before = job[j].before /\ r.ready = job[j].ready
  BY <1>1 DEF Tasks
<1>3. job' = [job EXCEPT ![j] = r]
  OBVIOUS
<1> HIDE DEF r
<1> QED
  BY <1>2, <1>3, TaskUpdate DEF OtherTasks

\* The throw of an OverflowError keeps Core.
LEMMA ThrowCore ==
  ASSUME OneClient, Types, Core, ~Over, NEW t \in Threads, Throw(t)
  PROVE  Core'
<1>1. PICK j \in c[t].job : job' = [job EXCEPT ![j].st = "thrown"]
  BY DEF Throw
<1>2. /\ c[t].pc = "notify_all" /\ Others(t) /\ c'[t].pc = "caught" /\ c'[t].job = c[t].job
      /\ c'[t].after = c[t].after /\ UNCHANGED <<idCount, num, active, queue, status, used>>
  BY GoFacts DEF Throw, At, CallPcs, HasTask
<1>3. Makes(t) /\ ~Preparing(t) /\ Makes(t)' /\ ~Preparing(t)'
  BY <1>2 DEF Makes, Preparing, HasTask, Spinning, Clearing
<1>4. /\ j \in Jobs /\ job[j].st # "new" /\ MakesInv(t)
  BY <1>3, Owned
<1>5. /\ \A o \in Jobs \ {j} : job'[o] = job[o]
      /\ job'[j].st = "thrown" /\ job'[j].kind = job[j].kind /\ job'[j].id = job[j].id
      /\ job'[j].ran = job[j].ran /\ job'[j].before = job[j].before
  BY <1>1, <1>4, StateUpdate
<1>6. job[j].st = "made"
  BY <1>2, <1>3, <1>4 DEF MakesInv, StateOf, Entering
<1>7. Wakes
  BY WakeFacts DEF Throw, Wakes
<1>8. SameHands
  <2>1. CalmCall(t)
    BY <1>2, <1>3 DEF CalmCall, HasTask, Passed
  <2> QED
    BY <1>2, <1>7, <2>1, WakesCalm, CalmHands
<1>9. Handles(t, j)
  <2>1. job'[j].st \in StateOf(t)'
    BY <1>2, <1>3, <1>5 DEF StateOf, Entering
  <2>2. job[j].ran \subseteq 0..(job[j].kind.n - 1)
    BY <1>4 DEF Core, JobsInv
  <2> QED
    BY <1>2, <1>3, <1>4, <1>5, <1>6, <1>7, <1>8, <2>1, <2>2 DEF Handles, HasTask, SameHands
<1> QED
  BY <1>2, <1>4, <1>5, <1>8, <1>9, HandlesRest DEF SameHands

\* A handler that runs an iteration keeps Core.
LEMMA RunRestCore ==
  ASSUME OneClient, Types, Core, ~Over, NEW t \in Threads, RunRest(t)
  PROVE  Core'
<1>1. PICK j \in c[t].job : /\ c[t].pc = "caught" /\ c[t].i < job[j].kind.n
                            /\ job' = Ran(job, j, c[t].i) /\ Put(t, [c[t] EXCEPT !.i = @ + 1])
                            /\ UNCHANGED <<idCount, num, active, queue, status, used, w>>
  BY DEF RunRest, At
<1>2. /\ Others(t) /\ c'[t].pc = "caught" /\ c'[t].job = c[t].job /\ c'[t].after = c[t].after
  <2> DEFINE g == [c[t] EXCEPT !.i = @ + 1]
  <2>1. g \in Frames /\ g.pc = c[t].pc /\ g.after = c[t].after /\ g.job = c[t].job
    BY FrameRan, FrameFields
  <2>2. Put(t, g)
    BY <1>1
  <2> HIDE DEF g
  <2> QED
    BY <1>1, <2>1, <2>2, PutFacts
<1>3. Makes(t) /\ ~Preparing(t) /\ Makes(t)' /\ ~Preparing(t)'
  BY <1>1, <1>2 DEF Makes, Preparing, HasTask, Spinning, Clearing
<1>4. /\ j \in Jobs /\ job[j].st # "new" /\ MakesInv(t) /\ c[t].i \in Nat /\ job[j].kind.n \in Nat
  BY <1>3, Owned, FrameFields
<1>5. /\ \A o \in Jobs \ {j} : job'[o] = job[o]
      /\ job'[j].ran = job[j].ran \cup {c[t].i}
      /\ job'[j].st = job[j].st /\ job'[j].kind = job[j].kind /\ job'[j].id = job[j].id
      /\ job'[j].before = job[j].before
  BY <1>1, <1>4, RanFacts DEF Types
<1>6. job[j].st = "thrown"
  BY <1>1, <1>3, <1>4 DEF MakesInv, StateOf, Entering
<1>7. Wakes
  BY <1>1 DEF Wakes
<1>8. SameHands
  <2>1. CalmCall(t)
    BY <1>1, <1>2, <1>3 DEF CalmCall, HasTask, Passed
  <2> QED
    BY <1>1, <1>7, <2>1, WakesCalm, CalmHands
<1>9. Handles(t, j)
  <2>1. job'[j].st \in StateOf(t)'
    BY <1>2, <1>3, <1>5, <1>6 DEF StateOf, Entering
  <2>2. job'[j].ran \subseteq 0..(job[j].kind.n - 1)
    BY <1>1, <1>4, <1>5 DEF Core, JobsInv
  <2> QED
    BY <1>1, <1>2, <1>3, <1>4, <1>5, <1>6, <1>7, <1>8, <2>1, <2>2 DEF Handles, HasTask, SameHands
<1> QED
  BY <1>1, <1>2, <1>4, <1>5, <1>6, <1>8, <1>9, HandlesRest DEF SameHands

\* A bit set by a call is that of an id out of use.
LEMMA MarkByCallCore ==
  ASSUME OneClient, Types, Core, ~Over, NEW t \in Threads, MarkByCall(t)
  PROVE  Core'
<1>1. PICK j \in c[t].job : /\ c[t].pc = "mark" /\ status' = status \cup {job[j].id}
                            /\ Put(t, NoCall)
                            /\ UNCHANGED <<idCount, num, active, queue, used, job, w>>
  BY DEF MarkByCall, At
<1>2. Others(t) /\ c'[t] = NoCall /\ c'[t].pc = "idle" /\ c'[t].job = {}
  BY <1>1, PutFacts, NoCallFrame, NoCallFields
<1>3. Makes(t) /\ ~Preparing(t) /\ ~Preparing(t)'
  BY <1>1, <1>2, NoCallFields DEF Makes, Preparing, HasTask, Spinning, Clearing
<1>4. j \in Jobs /\ job[j].st # "new" /\ MakesInv(t)
  BY <1>3, Owned
<1>5. job[j].st \in {"live", "thrown"}
  BY <1>1, <1>3, <1>4 DEF MakesInv, StateOf, Entering
<1>6. \A k \in Jobs : (Destroying(k)' => Destroying(k)) /\ (Held(k)' <=> Held(k))
  <2>1. \A u \in Threads : c'[u] = c[u] \/ (u = t /\ c'[u].pc = "idle" /\ c[u].pc = "mark")
    BY <1>1, <1>2 DEF Others
  <2> QED
    BY <1>1, <2>1 DEF Destroying, Held, CallHolds, WorkerHolds, Queued, HasTask
<1>7. Destroying(j)
  BY <1>1 DEF Destroying
<1>8. Handles(t, j)
  <2>1. job[j].ran \subseteq 0..(job[j].kind.n - 1)
    BY <1>4 DEF Core, JobsInv
  <2> QED
    BY <1>1, <1>2, <1>3, <1>4, <1>5, <1>6, <2>1 DEF Handles, Wakes, Alive
<1>9. /\ \A k \in Jobs : Held(k)' => job[k].id # job[j].id
      /\ \A u \in Threads : Chosen(u) => c[u].id # job[j].id
      /\ job[j].id < idCount
  BY <1>4, <1>6, <1>7 DEF Core, IdInv, ReadyInv, Alive
<1>10. \A k \in Jobs, i \in Nat : Pending(k, i)' <=> Pending(k, i)
  BY <1>1 DEF Pending, WorkerHolds
<1> QED
  BY <1>1, <1>2, <1>4, <1>6, <1>8, <1>9, <1>10, HandlesRest

\* Steps in which no call moves, and t makes no task.
LEMMA CallsStay ==
  ASSUME Types, Core, KeepsTasks, NEW t \in Threads, c' = c, ~Makes(t),
         \A k \in Jobs : Alive(k)' => Alive(k),
         \A k \in Jobs : job[k].st # "new" => job'[k].st = job[k].st
  PROVE  CallInv'
<1>1. Others(t)
  BY DEF Others
<1>2. ~Makes(t)'
  BY DEF Makes, Preparing
<1>3. Shape(t)' /\ MakesInv(t)'
  <2>1. Shape(t)
    BY DEF Core, CallInv
  <2> QED
    BY <1>2, <2>1 DEF Shape, Preparing, MakesInv
<1>4. \A u \in Threads : u # t => Shape(u)' /\ MakesInv(u)'
  BY <1>1, <1>2, CallsKeep
<1> QED
  BY <1>3, <1>4 DEF CallInv

\* A dropped future keeps Core.
LEMMA DropFutureCore ==
  ASSUME OneClient, Types, Core, ~Over, NEW t \in Threads, DropFuture(t)
  PROVE  Core'
<1>1. PICK j \in Jobs : /\ t \in Clients /\ c[t] = NoCall /\ job[j].future
                        /\ job' = [job EXCEPT ![j].future = FALSE]
                        /\ UNCHANGED <<idCount, num, active, queue, status, used, w, c>>
  BY DEF DropFuture
<1>2. \A k \in Jobs : /\ job'[k].st = job[k].st /\ job'[k].kind = job[k].kind
                      /\ job'[k].id = job[k].id /\ job'[k].ran = job[k].ran
                      /\ job'[k].before = job[k].before /\ job'[k].ready = job[k].ready
                      /\ k = j \/ job'[k] = job[k]
  <2> DEFINE r == [job[j] EXCEPT !.future = FALSE]
  <2>1. job[j] \in Tasks
    BY TaskFields
  <2>2. r \in Tasks /\ r.st = job[j].st /\ r.kind = job[j].kind /\ r.id = job[j].id
        /\ r.ran = job[j].ran /\ r.before = job[j].before /\ r.ready = job[j].ready
    BY <2>1 DEF Tasks
  <2>3. job' = [job EXCEPT ![j] = r]
    BY <1>1
  <2> HIDE DEF r
  <2> QED
    BY <2>2, <2>3, TaskUpdate DEF OtherTasks
<1>3. job[j].st # "new"
  BY <1>1 DEF Core, JobsInv, NewJob
<1>4. \A k \in Jobs : Complete(k)' <=> Complete(k)
  BY <1>2 DEF Complete
<1>5. KeepsTasks
  BY <1>2, <1>4 DEF KeepsTasks
<1>6. Others(t) /\ ~Makes(t)
  BY <1>1, NoCallFields DEF Others, Makes, Preparing, HasTask, Spinning, Clearing
<1>7. SameHands
  <2>1. CalmCall(t)
    BY <1>1, <1>6 DEF CalmCall, Makes, Preparing, Passed
  <2>2. \A u \in Workers : CalmWorker(u)
    BY <1>1 DEF CalmWorker
  <2> QED
    BY <1>1, <2>1, <2>2, CalmHands
<1>8. JobsInv'
  <2>1. \A k \in Jobs : job'[k] = job[k] \/
           /\ job[k].st # "new" /\ job'[k].ran \subseteq 0..(job[k].kind.n - 1)
           /\ job'[k].st = "made" => job[k].st = "made"
    BY <1>2, <1>3 DEF Core, JobsInv
  <2> QED
    BY <1>5, <1>6, <2>1, JobsKeep
<1>9. QueueInv'
  BY <1>1, <1>5, QueueKeeps
<1>10. WorkerInv'
  <2>1. \A u \in Workers : Grip(u)'
    BY <1>1, <1>5, GripKeeps
  <2>2. \A u \in Workers : Nested(u)'
    BY <1>1 DEF Core, WorkerInv, Nested, Makes, Preparing
  <2> QED
    BY <2>1, <2>2 DEF WorkerInv
<1>11. CallInv'
  BY <1>1, <1>2, <1>5, <1>6, <1>7, CallsStay DEF SameHands
<1>12. RunInv'
  <2> SUFFICES ASSUME NEW k \in Jobs, NEW i \in 0..(job[k].kind.n - 1), Enqueued(k, i)'
               PROVE  i \in job[k].ran \/ Pending(k, i)'
    BY <1>2 DEF RunInv
  <2>1. Enqueued(k, i)
    BY <1>1, <1>2 DEF Enqueued, Passed
  <2>2. i \in Nat
    BY TaskFields, KindTypes
  <2> QED
    BY <1>7, <2>1, <2>2 DEF Core, RunInv, SameHands
<1>13. ReadyInv'
  BY <1>2, <1>4, <1>7 DEF Core, ReadyInv, SameHands
<1>14. IdInv' /\ StatusInv' /\ OrderInv'
  BY <1>1, <1>2, <1>5, <1>7, IdsKeep DEF SameHands, KeepsIds, Chosen, ResetByCall
<1>15. PrecedenceRespected'
  BY <1>1, <1>5, PrecedenceKeeps
<1>16. AwaitInv'
  BY <1>1 DEF Core, AwaitInv, AwaitAt, Quiet
<1> QED
  BY <1>8, <1>9, <1>10, <1>11, <1>12, <1>13, <1>14, <1>15, <1>16 DEF Core

-----------------------------------------------------------------------------
(* createSharedTask() and the queue.                                        *)

\* The next attempt to create a task keeps Core.
LEMMA RetryCore ==
  ASSUME OneClient, Types, Core, ~Over, NEW t \in Threads, At(t, "slot"),
         Put(t, [c[t] EXCEPT !.pc = "issue", !.attempt = @ + 1]),
         UNCHANGED <<idCount, num, active, queue, status, job, w>>
  PROVE  Core'
<1>1. c[t].pc = "slot"
  BY DEF At
<1>2. Others(t) /\ c'[t].pc = "issue" /\ c'[t].after = c[t].after /\ c'[t].job = c[t].job
      /\ c'[t].i = c[t].i
  <2> DEFINE g == [c[t] EXCEPT !.pc = "issue", !.attempt = @ + 1]
  <2>1. g \in Frames /\ g.pc = "issue" /\ g.after = c[t].after /\ g.job = c[t].job
        /\ g.i = c[t].i
    BY FrameRetry, FrameFields
  <2>2. Put(t, g)
    OBVIOUS
  <2> HIDE DEF g
  <2> QED
    BY <2>1, <2>2, PutFacts
<1>3. c[t].after # "gone" /\ (t \in Workers => c[t] # NoCall)
  BY <1>1, InsideCall DEF Joining
<1>4. Preparing(t) /\ Makes(t) /\ Preparing(t)' /\ Makes(t)'
  BY <1>1, <1>2 DEF Preparing, Makes
<1>5. Shape(t)
  BY DEF Core, CallInv
<1>6. CallMove(t)
  <2>1. CalmCall(t)
    BY <1>1, <1>2, <1>4 DEF CalmCall, HasTask, Passed
  <2>2. StateOf(t) \subseteq StateOf(t)'
    BY <1>4 DEF StateOf
  <2>3. Shape(t)'
    BY <1>1, <1>2, <1>3, <1>4, <1>5 DEF Shape, Clearing, Joining
  <2>4. Lands(t)
    BY <1>2, <1>3, <1>4, <2>2, <2>3 DEF Lands, Clearing
  <2> QED
    BY <2>1, <2>4 DEF CallMove
<1>7. IdInv' /\ StatusInv' /\ OrderInv'
  BY <1>1, <1>2, <1>6, MoveKeeps, CalmIds DEF Chosen, Core
<1>8. AwaitInv'
  <2>1. AwaitAt(t)'
    BY <1>2 DEF AwaitAt, QuietPcs, Clearing
  <2> QED
    BY <1>2, <2>1, AwaitMoves DEF Core
<1> QED
  BY <1>6, <1>7, <1>8, MoveKeeps DEF Core

\* A refused task keeps Core.
LEMMA RefuseCore ==
  ASSUME OneClient, Types, Core, ~Over, NEW t \in Threads, At(t, "slot"), NEW j \in c[t].job,
         Put(t, NoCall), job' = [job EXCEPT ![j].st = "refused"],
         UNCHANGED <<idCount, num, active, queue, status, w>>
  PROVE  Core'
<1>1. c[t].pc = "slot"
  BY DEF At
<1>2. Others(t) /\ c'[t] = NoCall /\ c'[t].pc = "idle" /\ c'[t].job = {} /\ c'[t].after = "idle"
  BY PutFacts, NoCallFrame, NoCallFields
<1>3. Makes(t) /\ Preparing(t) /\ ~Preparing(t)'
  BY <1>1, <1>2 DEF Makes, Preparing, Spinning, Clearing
<1>4. j \in Jobs /\ job[j].st # "new" /\ MakesInv(t)
  BY <1>3, Owned
<1>5. job[j].st = "made" /\ ~Alive(j)
  BY <1>3, <1>4 DEF MakesInv, StateOf
<1>6. /\ \A o \in Jobs \ {j} : job'[o] = job[o]
      /\ job'[j].st = "refused" /\ job'[j].kind = job[j].kind /\ job'[j].id = job[j].id
      /\ job'[j].ran = job[j].ran /\ job'[j].before = job[j].before
  BY <1>4, StateUpdate
<1>7. \A k \in Jobs : (Destroying(k)' <=> Destroying(k)) /\ (Held(k)' <=> Held(k))
  <2>1. \A u \in Threads : c'[u] = c[u] \/ (u = t /\ c'[u].pc = "idle" /\ c[u].pc = "slot")
    BY <1>1, <1>2 DEF Others
  <2> QED
    BY <2>1 DEF Destroying, Held, CallHolds, WorkerHolds, Queued, HasTask
<1>8. Handles(t, j)
  <2>1. job[j].ran \subseteq 0..(job[j].kind.n - 1)
    BY <1>4 DEF Core, JobsInv
  <2> QED
    BY <1>1, <1>2, <1>3, <1>4, <1>5, <1>6, <1>7, <2>1 DEF Handles, Wakes, Alive
<1>9. \A k \in Jobs, i \in Nat : Pending(k, i)' <=> Pending(k, i)
  BY DEF Pending, WorkerHolds
<1> QED
  BY <1>2, <1>4, <1>6, <1>7, <1>8, <1>9, HandlesRest

\* A task that is created has an id nobody uses.
LEMMA MadeCore ==
  ASSUME OneClient, Types, Core, ~Over, NEW t \in Threads, At(t, "slot"), NEW j \in c[t].job,
         Go(t, "add"), job' = [job EXCEPT ![j].id = c[t].id],
         UNCHANGED <<idCount, num, active, queue, status, w>>
  PROVE  Core'
<1>1. c[t].pc = "slot" /\ c[t].id \in Nat
  BY FrameFields DEF At
<1>2. Others(t) /\ c'[t].pc = "add" /\ c'[t].job = c[t].job /\ c'[t].i = c[t].i
      /\ c'[t].after = c[t].after
  BY GoFacts DEF CallPcs, HasTask
<1>3. Makes(t) /\ Preparing(t) /\ ~Preparing(t)' /\ Makes(t)' /\ Chosen(t) /\ ~Chosen(t)'
  BY <1>1, <1>2 DEF Makes, Preparing, Spinning, Clearing, HasTask, Chosen
<1>4. /\ j \in Jobs /\ job[j].st # "new" /\ c[t].job = {j} /\ Shape(t) /\ MakesInv(t)
      /\ \A u \in Threads : u # t => ~(Makes(u) /\ j \in c[u].job)
  BY <1>3, Owned
<1>5. job[j].st = "made" /\ ~Alive(j)
  BY <1>3, <1>4 DEF MakesInv, StateOf
<1>6. /\ \A o \in Jobs \ {j} : job'[o] = job[o]
      /\ job'[j].st = "made" /\ job'[j].kind = job[j].kind /\ job'[j].id = c[t].id
      /\ job'[j].ran = job[j].ran /\ job'[j].before = job[j].before /\ job'[j].ready = job[j].ready
  <2> DEFINE r == [job[j] EXCEPT !.id = c[t].id]
  <2>1. job[j] \in Tasks
    BY <1>4, TaskFields
  <2>2. r \in Tasks /\ r.st = job[j].st /\ r.kind = job[j].kind /\ r.id = c[t].id
        /\ r.ran = job[j].ran /\ r.before = job[j].before /\ r.ready = job[j].ready
    BY <1>1, <2>1 DEF Tasks
  <2>3. job' = [job EXCEPT ![j] = r]
    OBVIOUS
  <2> HIDE DEF r
  <2> QED
    BY <1>4, <1>5, <2>2, <2>3, TaskUpdate DEF OtherTasks
<1>7. \A k \in Jobs : Complete(k)' <=> Complete(k)
  BY <1>6 DEF Complete
<1>8. KeepsTasks
  BY <1>6, <1>7 DEF KeepsTasks
<1>9. c[t].after # "gone" /\ (t \in Workers => c[t] # NoCall)
  BY <1>1, InsideCall DEF Joining
<1>10. \A k \in Jobs : /\ Destroying(k)' <=> Destroying(k)
                       /\ Held(k)' <=> Held(k) \/ k = j
                       /\ Alive(k)' <=> Alive(k) \/ k = j
  <2>1. \A u \in Threads : u # t => c'[u] = c[u]
    BY <1>2 DEF Others
  <2>2. ASSUME NEW k \in Jobs PROVE Destroying(k)' <=> Destroying(k)
    BY <1>1, <1>2, <2>1 DEF Destroying
  <2>3. ASSUME NEW k \in Jobs, NEW u \in Threads
        PROVE  CallHolds(u, k)' <=> CallHolds(u, k) \/ (u = t /\ k = j)
    BY <1>1, <1>2, <1>4, <2>1 DEF CallHolds, HasTask
  <2>4. ASSUME NEW k \in Jobs PROVE Held(k)' <=> Held(k) \/ k = j
    BY <2>3 DEF Held, Queued, WorkerHolds
  <2> QED
    BY <2>2, <2>4 DEF Alive
<1>11. \A k \in Jobs, i \in Nat : Pending(k, i)' <=> Pending(k, i)
  BY DEF Pending, WorkerHolds
<1>12. JobsInv'
  <2>1. \A k \in Jobs : job'[k] = job[k] \/
           /\ job[k].st # "new" /\ job'[k].ran \subseteq 0..(job[k].kind.n - 1)
           /\ job'[k].st = "made" => job[k].st = "made"
    BY <1>5, <1>6 DEF Core, JobsInv
  <2> QED
    BY <1>2, <1>3, <1>8, <2>1, JobsKeep
<1>13. QueueInv'
  BY <1>8, QueueKeeps
<1>14. WorkerInv'
  <2>1. \A u \in Workers : Grip(u)'
    BY <1>8, GripKeeps
  <2>2. t \in Workers => Nested(t)
    BY DEF Core, WorkerInv
  <2>3. \A u \in Workers : Nested(u)'
    BY <1>2, <1>3, <1>9, <2>2, NestedKeeps DEF Clearing
  <2> QED
    BY <2>1, <2>3 DEF WorkerInv
<1>15. CallInv'
  <2>1. \A u \in Threads : u # t => Shape(u)' /\ MakesInv(u)'
    <3>1. \A k \in Jobs : job'[k].st = job[k].st \/ (Makes(t) /\ k \in c[t].job)
      BY <1>5, <1>6
    <3>2. \A k \in Jobs : Alive(k)' => Alive(k) \/ (Makes(t) /\ k \in c[t].job)
      BY <1>3, <1>10
    <3> QED
      BY <1>2, <1>3, <1>8, <3>1, <3>2, CallsKeep
  <2>2. Shape(t)'
    BY <1>1, <1>2, <1>3, <1>4, <1>9 DEF Shape, Clearing, Joining
  <2>3. MakesInv(t)'
    <3>1. StateOf(t)' = {"made"}
      BY <1>2 DEF StateOf, Entering
    <3>2. \A u \in Threads : Makes(u)' /\ j \in c'[u].job => u = t
      BY <1>2, <1>4, OthersSame
    <3> QED
      BY <1>2, <1>3, <1>4, <1>6, <3>1, <3>2 DEF MakesInv, Sole
  <2> QED
    BY <2>1, <2>2, <2>3 DEF CallInv
<1>16. RunInv'
  <2> SUFFICES ASSUME NEW k \in Jobs, NEW i \in 0..(job'[k].kind.n - 1), Enqueued(k, i)'
               PROVE  i \in job'[k].ran \/ Pending(k, i)'
    BY DEF RunInv
  <2>1. job'[k].kind = job[k].kind /\ job'[k].ran = job[k].ran /\ job'[k].st = job[k].st
    BY <1>5, <1>6
  <2>2. i \in Nat
    BY <2>1, TaskFields, KindTypes
  <2>3. Enqueued(k, i)
    <3>1. CASE job'[k].st = "live"
      BY <2>1, <3>1 DEF Enqueued
    <3>2. CASE job'[k].st # "live"
      <4>1. PICK u \in Threads : Passed(u, k, i)'
        BY <3>2 DEF Enqueued
      <4>2. u # t
        BY <1>2, <4>1 DEF Passed
      <4> QED
        BY <1>2, <2>2, <4>1, <4>2, OthersSame DEF Enqueued
    <3> QED
      BY <3>1, <3>2
  <2> QED
    BY <1>11, <2>1, <2>2, <2>3 DEF Core, RunInv
<1>17. ReadyInv'
  <2> SUFFICES ASSUME NEW k \in Jobs
               PROVE  /\ job'[k].st \in {"made", "live"} /\ job'[k].ready => Complete(k)'
                      /\ job'[k].st = "live" /\ Destroying(k)' => Complete(k)'
                      /\ Destroying(k)' => ~Held(k)'
    BY DEF ReadyInv
  <2>1. job'[k].st = job[k].st /\ job'[k].ready = job[k].ready
    BY <1>5, <1>6
  <2>2. Destroying(k) => ~Held(k) /\ k # j
    BY <1>5 DEF Core, ReadyInv, Alive
  <2> QED
    BY <1>7, <1>10, <2>1, <2>2 DEF Core, ReadyInv
\* The id the call has chosen is nobody else's, and its bit is clear.
<1>18. /\ c[t].id < idCount /\ c[t].id < MaxId /\ c[t].id \notin status
       /\ \A k \in Jobs : Alive(k) => job[k].id # c[t].id
       /\ \A u \in Threads : u # t /\ Chosen(u) => c[u].id # c[t].id
  BY <1>1, <1>3 DEF Core, IdInv, StatusInv
<1>19. \A u \in Threads : Chosen(u)' => u # t /\ Chosen(u) /\ c'[u] = c[u]
  BY <1>2, <1>3, OthersSame
<1>20. IdInv'
  <2>1. \A k \in Jobs : Alive(k)' => job'[k].id < idCount /\ job'[k].id < MaxId
    BY <1>6, <1>10, <1>18 DEF Core, IdInv
  <2>2. \A k, o \in Jobs : Alive(k)' /\ Alive(o)' /\ job'[k].id = job'[o].id => k = o
    BY <1>6, <1>10, <1>18 DEF Core, IdInv
  <2>3. ASSUME NEW u \in Threads, Chosen(u)'
        PROVE  /\ c'[u].id < idCount
               /\ \A k \in Jobs : Alive(k)' => job'[k].id # c'[u].id
               /\ \A v \in Threads : Chosen(v)' /\ c'[v].id = c'[u].id => v = u
               /\ c'[u].pc = "slot" => c'[u].id < MaxId
    BY <1>6, <1>10, <1>18, <1>19, <2>3 DEF Core, IdInv
  <2> QED
    BY <2>1, <2>2, <2>3 DEF IdInv
<1>21. StatusInv'
  <2>1. ResetByCall => ResetByCall'
    BY <1>1, <1>2 DEF ResetByCall, Others
  <2>2. \A k \in Jobs : Held(k)' => job'[k].id \notin status
    BY <1>6, <1>10, <1>18 DEF Core, StatusInv
  <2>3. \A u \in Threads : Chosen(u)' => c'[u].id \notin status
    BY <1>19 DEF Core, StatusInv
  <2> QED
    BY <2>1, <2>2, <2>3 DEF Core, StatusInv
<1>22. OrderInv'
  <2>1. ASSUME NEW k \in Jobs, job[k].st # "new", NEW o \in job[k].before
        PROVE  job'[k].before = job[k].before /\ o \in Jobs /\ job'[o].id = job[o].id
    BY <1>5, <1>6, <2>1, AliveIsOld, TaskFields
  <2>2. ASSUME NEW k \in Jobs, Alive(k)', NEW o \in job'[k].before
        PROVE  Complete(o)' \/ job'[o].id < job'[k].id
    <3>1. CASE k = j
      <4>1. o \in job[j].before /\ job'[o].id = job[o].id /\ o \in Jobs
        BY <1>4, <1>6, <2>1, <2>2, <3>1
      <4>2. Complete(o) \/ job[o].id < c[t].id
        BY <1>3, <4>1 DEF Core, OrderInv
      <4> QED
        BY <1>6, <1>7, <3>1, <4>1, <4>2
    <3>2. CASE k # j
      <4>1. Alive(k) /\ job[k].st # "new" /\ job'[k] = job[k]
        BY <1>6, <1>10, <2>2, <3>2, AliveIsOld
      <4> QED
        BY <1>7, <2>1, <2>2, <4>1 DEF Core, OrderInv
    <3> QED
      BY <3>1, <3>2
  <2>3. ASSUME NEW u \in Threads, Chosen(u)', NEW k \in c'[u].job, NEW o \in job'[k].before
        PROVE  Complete(o)' \/ job'[o].id < c'[u].id
    <3>1. Chosen(u) /\ c'[u] = c[u] /\ k \in c[u].job /\ k \in Jobs /\ Makes(u)
      BY <1>19, <2>3, FrameFields DEF Chosen, Makes, Preparing
    <3>2. job[k].st # "new"
      BY <3>1, AliveIsOld
    <3> QED
      BY <1>6, <1>7, <2>1, <2>3, <3>1, <3>2 DEF Core, OrderInv
  <2> QED
    BY <2>2, <2>3 DEF OrderInv
<1>23. PrecedenceRespected'
  BY <1>8, PrecedenceKeeps
<1>24. AwaitInv'
  <2>1. AwaitAt(t)'
    BY <1>2 DEF AwaitAt, QuietPcs, Clearing
  <2> QED
    BY <1>2, <2>1, AwaitMoves DEF Core
<1> QED
  BY <1>12, <1>13, <1>14, <1>15, <1>16, <1>17, <1>20, <1>21, <1>22, <1>23, <1>24 DEF Core

\* createSharedTask() keeps Core.
LEMMA CreateTaskCore ==
  ASSUME OneClient, Types, Core, ~Over, NEW t \in Threads, CreateTask(t)
  PROVE  Core'
<1>1. PICK j \in c[t].job :
        /\ At(t, "slot")
        /\ \/ job' = [job EXCEPT ![j].id = c[t].id] /\ Go(t, "add")
           \/ Put(t, [c[t] EXCEPT !.pc = "issue", !.attempt = @ + 1]) /\ UNCHANGED job
           \/ Put(t, NoCall) /\ job' = [job EXCEPT ![j].st = "refused"]
        /\ UNCHANGED <<idCount, num, active, queue, status, w>>
  BY DEF CreateTask
<1> QED
  BY <1>1, RetryCore, RefuseCore, MadeCore

\* A queue with one more element.
LEMMA AppendFacts ==
  ASSUME Types, NEW e \in Jobs \X Nat, queue' = Append(queue, e)
  PROVE  /\ DOMAIN queue' = DOMAIN queue \cup {Len(queue) + 1}
         /\ \A n \in DOMAIN queue : queue'[n] = queue[n]
         /\ queue'[Len(queue) + 1] = e
<1>1. queue \in Seq(Jobs \X Nat)
  BY DEF Types
<1> QED
  BY <1>1

\* A successful push keeps Core: the iteration is pending.
LEMMA PushCore ==
  ASSUME OneClient, Types, Core, ~Over, NEW t \in Threads, Push(t), Len(queue) # Capacity
  PROVE  Core'
<1>1. PICK j \in c[t].job : /\ c[t].pc = "push" /\ Go(t, "notify")
                            /\ queue' = Append(queue, <<j, c[t].i>>)
                            /\ UNCHANGED <<idCount, num, active, status, used, job, w>>
  BY DEF Push, At
<1>2. Others(t) /\ c'[t].pc = "notify" /\ c'[t].job = c[t].job /\ c'[t].i = c[t].i
      /\ c'[t].after = c[t].after
  BY <1>1, GoFacts DEF CallPcs, HasTask
<1>3. Makes(t) /\ ~Preparing(t) /\ Makes(t)' /\ ~Preparing(t)' /\ CallHolds(t, j)
  BY <1>1, <1>2 DEF Makes, Preparing, HasTask, Spinning, Clearing, CallHolds
<1>4. /\ j \in Jobs /\ job[j].st # "new" /\ c[t].job = {j} /\ Shape(t) /\ MakesInv(t)
      /\ \A u \in Threads : u # t => ~(Makes(u) /\ j \in c[u].job)
  BY <1>3, Owned
<1>5. <<j, c[t].i>> \in Jobs \X Nat /\ c[t].i \in Nat
  BY <1>4, FrameFields
<1>6. /\ DOMAIN queue' = DOMAIN queue \cup {Len(queue) + 1}
      /\ \A n \in DOMAIN queue : queue'[n] = queue[n]
      /\ queue'[Len(queue) + 1] = <<j, c[t].i>>
  BY <1>1, <1>5, AppendFacts
<1>7. c[t].after # "gone" /\ (t \in Workers => c[t] # NoCall /\ w[t].pc = "body")
  BY <1>1, InsideCall DEF Joining
<1>8. /\ \A u \in Threads, k \in Jobs : CallHolds(u, k)' <=> CallHolds(u, k)
      /\ \A k \in Jobs : Destroying(k)' <=> Destroying(k)
  <2>1. \A u \in Threads : c'[u].job = c[u].job /\ (c'[u].pc \in HasTask <=> c[u].pc \in HasTask)
                           /\ (c'[u].pc = "mark" <=> c[u].pc = "mark")
    BY <1>1, <1>2 DEF Others, HasTask
  <2> QED
    BY <1>1, <2>1 DEF CallHolds, Destroying
<1>9. \A k \in Jobs : Queued(k)' <=> Queued(k) \/ k = j
  BY <1>6 DEF Queued
<1>10. \A k \in Jobs : (Held(k)' <=> Held(k)) /\ (Alive(k)' <=> Alive(k))
  BY <1>1, <1>3, <1>8, <1>9 DEF Held, Alive, WorkerHolds
<1>11. \A k \in Jobs, i \in Nat : Pending(k, i)' <=> Pending(k, i) \/ <<k, i>> = <<j, c[t].i>>
  BY <1>1, <1>6 DEF Pending, WorkerHolds
<1>12. KeepsTasks
  BY <1>1 DEF KeepsTasks, Complete
<1>13. JobsInv'
  BY <1>1, <1>2, <1>3, <1>12, JobsKeep
<1>14. QueueInv'
  <2>1. c[t].i < job[j].kind.n
    BY <1>1, <1>3, <1>4 DEF MakesInv
  <2> QED
    BY <1>1, <1>4, <1>6, <2>1 DEF Core, QueueInv
<1>15. WorkerInv'
  <2>1. \A u \in Workers : Grip(u)'
    BY <1>1, <1>12, GripKeeps
  <2>2. t \in Workers => Nested(t)
    BY DEF Core, WorkerInv
  <2>3. \A u \in Workers : Nested(u)'
    BY <1>1, <1>2, <1>3, <1>7, <2>2, NestedKeeps DEF Clearing
  <2> QED
    BY <2>1, <2>3 DEF WorkerInv
<1>16. CallInv'
  <2>1. \A u \in Threads : u # t => Shape(u)' /\ MakesInv(u)'
    BY <1>1, <1>2, <1>3, <1>10, <1>12, CallsKeep
  <2>2. Shape(t)'
    BY <1>1, <1>2, <1>3, <1>4, <1>7 DEF Shape, Clearing, Joining
  <2>3. MakesInv(t)'
    <3>1. StateOf(t)' = {"made"} /\ StateOf(t) = {"made"}
      BY <1>1, <1>2 DEF StateOf, Entering
    <3>2. \A u \in Threads : Makes(u)' /\ j \in c'[u].job => u = t
      BY <1>2, <1>4, OthersSame
    <3> QED
      BY <1>1, <1>2, <1>3, <1>4, <3>1, <3>2 DEF MakesInv, Sole
  <2> QED
    BY <2>1, <2>2, <2>3 DEF CallInv
<1>17. RunInv'
  <2> SUFFICES ASSUME NEW k \in Jobs, NEW i \in 0..(job[k].kind.n - 1), Enqueued(k, i)'
               PROVE  i \in job[k].ran \/ Pending(k, i)'
    BY <1>1 DEF RunInv
  <2>1. i \in Nat
    BY TaskFields, KindTypes
  <2>2. Enqueued(k, i) \/ (k = j /\ i = c[t].i)
    <3>1. CASE job[k].st = "live"
      BY <3>1 DEF Enqueued
    <3>2. CASE job[k].st # "live"
      <4>1. PICK u \in Threads : Passed(u, k, i)'
        BY <1>1, <3>2 DEF Enqueued
      <4>2. CASE u = t
        <5>1. k = j /\ i <= c[t].i
          BY <1>2, <1>4, <4>1, <4>2 DEF Passed
        <5>2. i < c[t].i => Passed(t, j, i)
          BY <1>1 DEF Passed
        <5> QED
          BY <1>5, <2>1, <5>1, <5>2 DEF Enqueued
      <4>3. CASE u # t
        BY <1>2, <2>1, <4>1, <4>3, OthersSame DEF Enqueued
      <4> QED
        BY <4>2, <4>3
    <3> QED
      BY <3>1, <3>2
  <2> QED
    BY <1>11, <2>1, <2>2 DEF Core, RunInv
<1>18. ReadyInv'
  BY <1>1, <1>8, <1>10 DEF Core, ReadyInv, Complete
<1>19. IdInv' /\ StatusInv' /\ OrderInv'
  <2>1. \A u \in Threads : Chosen(u)' => Chosen(u) /\ c'[u] = c[u]
    BY <1>2, OthersSame DEF Chosen
  <2>2. ResetByCall => ResetByCall'
    BY <1>1, <1>2 DEF ResetByCall, Others
  <2> QED
    BY <1>1, <1>10, <1>12, <2>1, <2>2, IdsKeep DEF KeepsIds
<1>20. PrecedenceRespected'
  BY <1>1, <1>12, PrecedenceKeeps
\* Only the client looks at the queue, and not from inside of an enqueue: when t
\* is a worker, t itself is busy.
<1>21. AwaitInv'
  <2> SUFFICES ASSUME NEW u \in Clients PROVE AwaitAt(u)'
    BY DEF AwaitInv
  <2>1. CASE u = t
    BY <1>2, <2>1 DEF AwaitAt, QuietPcs, Clearing
  <2>2. CASE u # t
    <3>1. t \in Workers /\ w[t].pc = "body"
      BY <1>7, <2>2, Distinct DEF OneClient
    <3>2. ~Quiet /\ c'[u] = c[u]
      BY <1>2, <2>2, <3>1, Distinct DEF Quiet, Running, Others
    <3> QED
      BY <1>1, <3>1, <3>2 DEF Core, AwaitInv, AwaitAt, Running
  <2> QED
    BY <2>1, <2>2
<1> QED
  BY <1>13, <1>14, <1>15, <1>16, <1>17, <1>18, <1>19, <1>20, <1>21 DEF Core

\* What the begin of an enqueue does.
LEMMA EnqueueFacts ==
  ASSUME Types, NEW t \in Threads, Enqueue(t)
  PROVE  \E j \in Jobs :
    /\ c[t] = NoCall /\ Others(t)
    /\ c'[t].pc = "issue" /\ c'[t].job = {j} /\ c'[t].i = 0 /\ c'[t].after = "idle"
    /\ t \in Workers => w[t].pc = "body" /\ \E i \in w[t].job : job[i].kind.nests
    /\ job[j].st = "new" /\ \A o \in Jobs \ {j} : job'[o] = job[o]
    /\ job'[j].st = "made" /\ job'[j].kind \in Kinds /\ job'[j].ran = {} /\ ~job'[j].ready
    /\ job'[j].before = Accepted
    /\ UNCHANGED <<idCount, num, active, queue, status, used, w>>
<1>1. PICK j \in Jobs, k \in Kinds :
        /\ MayCall(t) /\ job[j].st = "new"
        /\ job' = [job EXCEPT ![j] = [NewJob EXCEPT !.st = "made", !.kind = k, !.before = Accepted]]
        /\ Put(t, [NoCall EXCEPT !.pc = "issue", !.job = {j}])
        /\ UNCHANGED <<idCount, num, active, queue, status, used, w>>
  BY DEF Enqueue
<1> DEFINE r == [NewJob EXCEPT !.st = "made", !.kind = k, !.before = Accepted]
<1>2. /\ r \in Tasks /\ r.st = "made" /\ r.kind = k /\ r.ran = {} /\ ~r.ready
      /\ r.before = Accepted
  BY DEF NewJob, Tasks, Accepted
<1>3. job' = [job EXCEPT ![j] = r]
  BY <1>1
<1> HIDE DEF r
<1>4. OtherTasks(j) /\ job'[j] = r
  BY <1>2, <1>3, TaskUpdate
<1>5. /\ Others(t) /\ c'[t].pc = "issue" /\ c'[t].job = {j} /\ c'[t].i = 0 /\ c'[t].after = "idle"
  <2> DEFINE g == [NoCall EXCEPT !.pc = "issue", !.job = {j}]
  <2>1. g \in Frames /\ g.pc = "issue" /\ g.job = {j} /\ g.i = 0 /\ g.after = "idle"
    BY NewEnqueue
  <2>2. Put(t, g)
    BY <1>1
  <2> HIDE DEF g
  <2> QED
    BY <2>1, <2>2, PutFacts
<1>6. /\ c[t] = NoCall
      /\ t \in Workers => w[t].pc = "body" /\ \E i \in w[t].job : job[i].kind.nests
  BY <1>1, Distinct DEF MayCall
<1> QED
  BY <1>1, <1>2, <1>4, <1>5, <1>6 DEF OtherTasks

\* An enqueue that begins keeps Core.
LEMMA EnqueueCore ==
  ASSUME OneClient, Types, Core, ~Over, NEW t \in Threads, Enqueue(t)
  PROVE  Core'
<1>1. PICK j \in Jobs :
    /\ c[t] = NoCall /\ Others(t)
    /\ c'[t].pc = "issue" /\ c'[t].job = {j} /\ c'[t].i = 0 /\ c'[t].after = "idle"
    /\ t \in Workers => w[t].pc = "body" /\ \E i \in w[t].job : job[i].kind.nests
    /\ job[j].st = "new" /\ \A o \in Jobs \ {j} : job'[o] = job[o]
    /\ job'[j].st = "made" /\ job'[j].kind \in Kinds /\ job'[j].ran = {} /\ ~job'[j].ready
    /\ job'[j].before = Accepted
    /\ UNCHANGED <<idCount, num, active, queue, status, used, w>>
  BY EnqueueFacts
<1>2. Preparing(t)' /\ Makes(t)' /\ c[t].pc = "idle" /\ ~Makes(t)
  BY <1>1, NoCallFields DEF Makes, Preparing, HasTask, Spinning, Clearing
<1>3. ~Alive(j) /\ \A u \in Threads : ~(Makes(u) /\ j \in c[u].job)
  BY <1>1, AliveIsOld
<1>4. \A k \in Jobs : k # j => job'[k] = job[k] /\ (Complete(k)' <=> Complete(k))
  BY <1>1 DEF Complete
<1>5. KeepsTasks
  BY <1>1, <1>4 DEF KeepsTasks
<1>6. /\ \A k \in Jobs : /\ Destroying(k)' <=> Destroying(k)
                         /\ Held(k)' <=> Held(k)
                         /\ Alive(k)' <=> Alive(k)
      /\ \A k \in Jobs, i \in Nat : Pending(k, i)' <=> Pending(k, i)
  <2>1. \A u \in Threads : c'[u] = c[u] \/ (u = t /\ c'[u].pc = "issue" /\ c[u].pc = "idle")
    BY <1>1, <1>2 DEF Others
  <2>2. \A k \in Jobs : (Destroying(k)' <=> Destroying(k)) /\ (Held(k)' <=> Held(k))
    BY <1>1, <2>1 DEF Destroying, Held, CallHolds, WorkerHolds, Queued, HasTask
  <2>3. \A k \in Jobs, i \in Nat : Pending(k, i)' <=> Pending(k, i)
    BY <1>1 DEF Pending, WorkerHolds
  <2> QED
    BY <2>2, <2>3 DEF Alive
<1>7. JobsInv'
  <2> SUFFICES ASSUME NEW k \in Jobs
               PROVE  /\ job'[k].st = "new" => job'[k] = NewJob
                      /\ job'[k].st # "new" => job'[k].kind \in Kinds
                      /\ job'[k].st = "made" => \E u \in Threads : Makes(u)' /\ k \in c'[u].job
                      /\ job'[k].ran \subseteq 0..(job'[k].kind.n - 1)
                      /\ \A o \in job'[k].before : job'[o].st = "live"
    BY DEF JobsInv
  <2>1. CASE k = j
    <3>1. \A o \in Accepted : job'[o].st = "live"
      BY <1>1 DEF Accepted
    <3> QED
      BY <1>1, <1>2, <2>1, <3>1
  <2>2. CASE k # j
    <3>1. /\ job[k].st = "new" => job[k] = NewJob
          /\ job[k].st # "new" => job[k].kind \in Kinds
          /\ job[k].st = "made" => \E u \in Threads : Makes(u) /\ k \in c[u].job
          /\ job[k].ran \subseteq 0..(job[k].kind.n - 1)
          /\ \A o \in job[k].before : o \in Jobs /\ job[o].st = "live"
      BY TaskFields DEF Core, JobsInv
    <3>2. \A o \in job[k].before : job'[o].st = "live"
      BY <1>1, <3>1
    <3>3. job[k].st = "made" => \E u \in Threads : Makes(u)' /\ k \in c'[u].job
      <4> SUFFICES ASSUME job[k].st = "made" PROVE \E u \in Threads : Makes(u)' /\ k \in c'[u].job
        OBVIOUS
      <4>1. PICK u \in Threads : Makes(u) /\ k \in c[u].job
        BY <3>1
      <4>2. u # t
        BY <1>2, <4>1
      <4> QED
        BY <1>1, <4>1, <4>2, OthersSame
    <3> QED
      BY <1>4, <2>2, <3>1, <3>2, <3>3
  <2> QED
    BY <2>1, <2>2
<1>8. QueueInv'
  BY <1>1, <1>5, QueueKeeps
<1>9. WorkerInv'
  <2> SUFFICES ASSUME NEW u \in Workers PROVE Grip(u)' /\ Nested(u)'
    BY DEF WorkerInv
  <2>1. Grip(u)'
    BY <1>1, <1>5, GripKeeps
  <2>2. Nested(u)'
    <3>1. CASE u = t
      <4>1. PICK i \in w[t].job : job[i].kind.nests /\ w[t].pc = "body"
        BY <1>1, <3>1
      <4>2. i \in Jobs /\ InHand(t, i) /\ Grip(t)
        BY <3>1, <4>1, WorkerFields DEF Core, WorkerInv, InHand, Running
      <4>3. job[i].kind \in Kinds
        BY <4>1, <4>2 DEF Grip, Core, JobsInv
      <4>4. Nests
        BY <4>1, <4>3 DEF Nests
      <4> QED
        BY <1>1, <1>2, <3>1, <4>1, <4>4 DEF Nested, Clearing
    <3>2. CASE u # t
      <4>1. Nested(u) /\ u \in Threads
        BY Distinct DEF Core, WorkerInv
      <4> QED
        BY <1>1, <3>2, <4>1, OthersSame DEF Nested
    <3> QED
      BY <3>1, <3>2
  <2> QED
    BY <2>1, <2>2
<1>10. CallInv'
  <2> SUFFICES ASSUME NEW u \in Threads PROVE Shape(u)' /\ MakesInv(u)'
    BY DEF CallInv
  <2>1. CASE u = t
    <3>1. Shape(t)'
      BY <1>1 DEF Shape, Preparing, Clearing, Joining
    <3>2. StateOf(t)' = {"made"}
      BY <1>2 DEF StateOf
    <3>3. \A v \in Threads : Makes(v)' /\ j \in c'[v].job => v = t
      BY <1>1, <1>3, OthersSame
    <3>4. MakesInv(t)'
      BY <1>1, <1>3, <1>6, <3>2, <3>3 DEF MakesInv, Sole
    <3> QED
      BY <2>1, <3>1, <3>4
  <2>2. CASE u # t
    <3>1. /\ c'[u] = c[u] /\ StateOf(u)' = StateOf(u)
          /\ Makes(u)' <=> Makes(u)
          /\ Preparing(u)' <=> Preparing(u)
          /\ Shape(u)'
      BY <1>1, <2>2, OthersSame DEF Core, CallInv
    <3>2. ASSUME Makes(u), NEW k \in c[u].job
          PROVE  /\ Sole(u, k)'
                 /\ \A v \in Threads : Makes(v)' /\ k \in c'[v].job => v = u
                 /\ job'[k].st \in StateOf(u)
                 /\ c[u].pc \in {"push", "notify", "sub", "notify_all"} =>
                      c[u].i < job'[k].kind.n
                 /\ Preparing(u) => ~Alive(k)'
      <4>1. k \in Jobs /\ k # j /\ MakesInv(u) /\ job'[k] = job[k]
        BY <1>3, <1>4, <3>2, FrameFields DEF Core, CallInv
      <4>2. \A v \in Threads : Makes(v)' /\ k \in c'[v].job => v = u
        <5> SUFFICES ASSUME NEW v \in Threads, Makes(v)', k \in c'[v].job PROVE v = u
          OBVIOUS
        <5>1. v # t
          BY <1>1, <4>1
        <5> QED
          BY <1>1, <3>2, <4>1, <5>1, OthersSame DEF MakesInv
      <4> QED
        BY <1>6, <3>1, <3>2, <4>1, <4>2 DEF MakesInv, Sole
    <3> QED
      BY <3>1, <3>2 DEF MakesInv
  <2> QED
    BY <2>1, <2>2
<1>11. RunInv'
  <2> SUFFICES ASSUME NEW k \in Jobs, NEW i \in 0..(job'[k].kind.n - 1), Enqueued(k, i)'
               PROVE  i \in job'[k].ran \/ Pending(k, i)'
    BY DEF RunInv
  <2>1. i \in Nat
    <3>1. job'[k].kind \in Kinds \cup {NoKind}
      BY <1>1, <1>4, TaskFields
    <3>2. job'[k].kind.n \in Nat
      BY <3>1, KindTypes
    <3> QED
      BY <3>2
  <2>2. ASSUME NEW u \in Threads, Passed(u, k, i)' PROVE Passed(u, k, i) /\ Makes(u) /\ k \in c[u].job
    <3>1. u # t
      BY <1>1, <2>2 DEF Passed
    <3> QED
      BY <1>1, <2>1, <2>2, <3>1, OthersSame DEF Passed, Makes, HasTask
  <2>3. k # j
    BY <1>1, <1>3, <2>2 DEF Enqueued
  <2>4. Enqueued(k, i)
    BY <1>4, <2>2, <2>3 DEF Enqueued
  <2> QED
    BY <1>4, <1>6, <2>1, <2>3, <2>4 DEF Core, RunInv
<1>12. ReadyInv'
  <2> SUFFICES ASSUME NEW k \in Jobs
               PROVE  /\ job'[k].st \in {"made", "live"} /\ job'[k].ready => Complete(k)'
                      /\ job'[k].st = "live" /\ Destroying(k)' => Complete(k)'
                      /\ Destroying(k)' => ~Held(k)'
    BY DEF ReadyInv
  <2>1. CASE k = j
    BY <1>1, <1>3, <1>6, <2>1 DEF Alive
  <2>2. CASE k # j
    BY <1>4, <1>6, <2>2 DEF Core, ReadyInv
  <2> QED
    BY <2>1, <2>2
<1>13. IdInv' /\ StatusInv' /\ OrderInv'
  <2>1. \A u \in Threads : Chosen(u)' => Chosen(u) /\ c'[u] = c[u]
    BY <1>1, OthersSame DEF Chosen
  <2>2. ResetByCall => ResetByCall'
    BY <1>1, <1>2 DEF ResetByCall, Others
  <2>3. KeepsIds
    BY <1>1 DEF KeepsIds
  <2> QED
    BY <1>1, <1>5, <1>6, <2>1, <2>2, <2>3, IdsKeep
<1>14. PrecedenceRespected'
  BY <1>1, <1>5, PrecedenceKeeps
<1>15. AwaitInv'
  <2>1. AwaitAt(t)'
    BY <1>1 DEF AwaitAt, QuietPcs, Clearing
  <2> QED
    BY <1>1, <2>1, AwaitMoves DEF Core
<1> QED
  BY <1>7, <1>8, <1>9, <1>10, <1>11, <1>12, <1>13, <1>14, <1>15 DEF Core
-----------------------------------------------------------------------------
(* The steps of a worker that move a task.                                  *)

\* What they have in common: no call moves, and worker t, which has something to
\* do, goes on to a place where it is not idle.
Serves(t) ==
  /\ c[t] = NoCall /\ UNCHANGED <<c, idCount>> /\ OtherWorkers(t)
  /\ ~Quiet /\ w'[t].pc \in {"took", "mark", "look"}
  /\ \A k \in Jobs : job'[k].st = job[k].st /\ job'[k].id = job[k].id
  /\ \A k \in Jobs : job'[k] = job[k] \/
       (job[k].st # "new" /\ job'[k].ran \subseteq 0..(job[k].kind.n - 1))
  /\ \A k \in Jobs : (Held(k)' => Held(k)) /\ (Alive(k)' => Alive(k))

\* Such a step keeps all but the conjuncts about runs and the queue.
LEMMA ServesKeeps ==
  ASSUME Types, Core, NEW t \in Workers, Serves(t), KeepsTasks, Grip(t)',
         \A s \in status' : s \in status \/
           /\ s < idCount
           /\ \A k \in Jobs : Held(k)' => job[k].id # s
           /\ \A u \in Threads : Chosen(u) => c[u].id # s
  PROVE  /\ JobsInv' /\ WorkerInv' /\ CallInv' /\ IdInv' /\ StatusInv' /\ OrderInv'
         /\ PrecedenceRespected' /\ AwaitInv'
<1>1. t \in Threads /\ c[t] = NoCall /\ UNCHANGED <<c, idCount>>
  BY Distinct DEF Serves
<1>2. Others(t) /\ ~Makes(t)
  BY <1>1, NoCallFields DEF Others, Makes, Preparing, HasTask, Spinning, Clearing
<1>3. \A u \in Workers : u # t => w'[u] = w[u]
  BY DEF Serves, OtherWorkers
<1>4. JobsInv'
  <2>1. \A k \in Jobs : job'[k] = job[k] \/
           /\ job[k].st # "new" /\ job'[k].ran \subseteq 0..(job[k].kind.n - 1)
           /\ job'[k].st = "made" => job[k].st = "made"
    BY DEF Serves
  <2> QED
    BY <1>1, <1>2, <2>1, JobsKeep
<1>5. WorkerInv'
  <2> SUFFICES ASSUME NEW u \in Workers PROVE Grip(u)' /\ Nested(u)'
    BY DEF WorkerInv
  <2>1. Grip(u)'
    BY <1>3, GripKeeps
  <2>2. Nested(u)'
    <3>1. Nested(u)
      BY DEF Core, WorkerInv
    <3> QED
      BY <1>1, <1>3, <3>1 DEF Nested, Makes, Preparing
  <2> QED
    BY <2>1, <2>2
<1>6. CallInv'
  BY <1>1, <1>2, CallsStay DEF Serves
<1>7. IdInv' /\ StatusInv' /\ OrderInv'
  <2>1. \A u \in Threads : Chosen(u)' => Chosen(u) /\ c'[u] = c[u]
    BY <1>1 DEF Chosen
  <2>2. ResetByCall => ResetByCall'
    BY <1>1 DEF ResetByCall
  <2>3. KeepsIds
    BY DEF KeepsIds, Serves
  <2> QED
    BY <1>1, <2>1, <2>2, <2>3, IdsKeep DEF Serves
<1>8. PrecedenceRespected'
  <2>1. \A u \in Workers : w'[u].pc = "body" => w'[u] = w[u]
    BY <1>3 DEF Serves
  <2> QED
    BY <2>1, PrecedenceKeeps
<1>9. AwaitInv'
  <2> SUFFICES ASSUME NEW u \in Clients PROVE AwaitAt(u)'
    BY DEF AwaitInv
  <2>1. AwaitAt(u) /\ ~Quiet /\ c'[u] = c[u]
    BY <1>1 DEF Core, AwaitInv, Serves
  <2>2. c[u].pc \notin QuietPcs
    BY <2>1 DEF AwaitAt
  <2>3. w'[t].pc \in Running \cup {"mark", "look", "fetch", "missed"}
    BY DEF Serves, Running
  <2> QED
    BY <2>1, <2>2, <2>3 DEF AwaitAt, QuietPcs, Clearing
<1> QED
  BY <1>4, <1>5, <1>6, <1>7, <1>8, <1>9

\* A queue without its first element.
LEMMA TailFacts ==
  ASSUME Types, queue # <<>>
  PROVE  /\ Head(queue) \in Jobs \X Nat /\ Head(queue) = queue[1] /\ 1 \in DOMAIN queue
         /\ Head(queue) = <<Head(queue)[1], Head(queue)[2]>>
         /\ \A n \in DOMAIN Tail(queue) : n + 1 \in DOMAIN queue /\ Tail(queue)[n] = queue[n + 1]
         /\ \A n \in DOMAIN queue : n # 1 =>
              n - 1 \in DOMAIN Tail(queue) /\ queue[n] = Tail(queue)[n - 1]
<1>1. queue \in Seq(Jobs \X Nat)
  BY DEF Types
<1> QED
  BY <1>1

\* A worker that takes an iteration keeps Core: it is still pending.
LEMMA FetchCore ==
  ASSUME OneClient, Types, Core, ~Over, NEW t \in Workers, Fetch(t), queue # <<>>
  PROVE  Core'
<1> DEFINE h == Head(queue)
           f == [pc |-> "took", job |-> {h[1]}, i |-> h[2]]
<1>1. /\ w[t].pc = "fetch" /\ WPut(t, f) /\ queue' = Tail(queue)
      /\ UNCHANGED <<idCount, num, active, status, used, job, c>>
  BY DEF Fetch, WAt
<1>2. h[1] \in Jobs /\ h[2] \in Nat
  BY TailFacts
<1>3. f \in WorkerFrames /\ f.pc = "took" /\ f.job = {h[1]} /\ f.i = h[2]
  BY <1>2 DEF WorkerFrames, WorkerPcs, Running
<1> HIDE DEF f
<1>4. OtherWorkers(t) /\ w'[t].pc = "took" /\ w'[t].job = {h[1]} /\ w'[t].i = h[2]
  BY <1>1, <1>3, WPutFacts
<1>5. \A u \in Workers : u # t => w'[u] = w[u]
  BY <1>4 DEF OtherWorkers
<1>6. h = queue[1] /\ 1 \in DOMAIN queue /\ queue[1] = <<h[1], h[2]>>
  BY <1>2, TailFacts
<1> HIDE DEF h
<1>7. \A n \in DOMAIN queue' : n + 1 \in DOMAIN queue /\ queue'[n] = queue[n + 1]
  BY <1>1, TailFacts
<1>8. \A n \in DOMAIN queue : n # 1 => n - 1 \in DOMAIN queue' /\ queue[n] = queue'[n - 1]
  BY <1>1, TailFacts
<1>9. \A k \in Jobs : Queued(k) <=> Queued(k)' \/ k = h[1]
  BY <1>6, <1>7, <1>8 DEF Queued
<1>10. \A u \in Workers, k \in Jobs : WorkerHolds(u, k)' <=> WorkerHolds(u, k) \/ (u = t /\ k = h[1])
  BY <1>1, <1>4, <1>5 DEF WorkerHolds, Running
<1>11. \A k \in Jobs : Held(k)' <=> Held(k)
  BY <1>1, <1>9, <1>10 DEF Held, CallHolds
<1>12. \A k \in Jobs : Destroying(k)' <=> Destroying(k)
  <2>1. \A u \in Workers, k \in Jobs :
          w'[u].pc = "mark" /\ k \in w'[u].job <=> w[u].pc = "mark" /\ k \in w[u].job
    BY <1>1, <1>4, <1>5
  <2> QED
    BY <1>1, <2>1 DEF Destroying
<1>13. \A k \in Jobs, i \in Nat : Pending(k, i)' <=> Pending(k, i)
  <2> SUFFICES ASSUME NEW k \in Jobs, NEW i \in Nat PROVE Pending(k, i)' <=> Pending(k, i)
    OBVIOUS
  <2>1. (\E n \in DOMAIN queue : queue[n] = <<k, i>>)
          <=> (\E n \in DOMAIN queue' : queue'[n] = <<k, i>>) \/ (k = h[1] /\ i = h[2])
    <3>1. ASSUME NEW n \in DOMAIN queue, queue[n] = <<k, i>>, ~(k = h[1] /\ i = h[2])
          PROVE  \E m \in DOMAIN queue' : queue'[m] = <<k, i>>
      <4>1. n # 1
        BY <1>6, <3>1
      <4> QED
        BY <1>8, <3>1, <4>1
    <3>2. ASSUME NEW n \in DOMAIN queue', queue'[n] = <<k, i>>
          PROVE  \E m \in DOMAIN queue : queue[m] = <<k, i>>
      BY <1>7, <3>2
    <3>3. k = h[1] /\ i = h[2] => \E m \in DOMAIN queue : queue[m] = <<k, i>>
      BY <1>6
    <3> QED
      BY <3>1, <3>2, <3>3
  <2>2. \A u \in Workers : (WorkerHolds(u, k)' /\ w'[u].i = i)
          <=> (WorkerHolds(u, k) /\ w[u].i = i) \/ (u = t /\ k = h[1] /\ i = h[2])
    BY <1>1, <1>4, <1>5 DEF WorkerHolds, Running
  <2> QED
    BY <2>1, <2>2 DEF Pending
<1>14. KeepsTasks
  BY <1>1 DEF KeepsTasks, Complete
<1>15. /\ job[h[1]].st # "new" /\ h[2] < job[h[1]].kind.n
  BY <1>6 DEF Core, QueueInv
<1>16. QueueInv'
  BY <1>1, <1>7 DEF Core, QueueInv
<1>17. Serves(t)
  <2>1. Nested(t)
    BY DEF Core, WorkerInv
  <2>2. c[t] = NoCall
    BY <1>1, <2>1 DEF Nested
  <2> QED
    BY <1>1, <1>4, <1>11, <1>12, <2>2 DEF Serves, Quiet, Alive
<1>18. Grip(t)'
  BY <1>1, <1>4, <1>15 DEF Grip, InHand
<1>19. RunInv'
  <2> SUFFICES ASSUME NEW k \in Jobs, NEW i \in 0..(job[k].kind.n - 1), Enqueued(k, i)
               PROVE  i \in job[k].ran \/ Pending(k, i)'
    BY <1>1 DEF RunInv, Enqueued, Passed
  <2>1. i \in Nat
    BY TaskFields, KindTypes
  <2> QED
    BY <1>13, <2>1 DEF Core, RunInv
<1>20. ReadyInv'
  BY <1>1, <1>11, <1>12 DEF Core, ReadyInv, Complete
<1> QED
  BY <1>1, <1>14, <1>16, <1>17, <1>18, <1>19, <1>20, ServesKeeps DEF Core

\* What Finish does to the task, whether or not the worker had the last shared_ptr.
LEMMA FinishFacts ==
  ASSUME Types, NEW t \in Workers, Finish(t)
  PROVE  \E j \in w[t].job :
    /\ j \in Jobs /\ w[t].pc = "body" /\ c[t] = NoCall /\ OtherWorkers(t)
    /\ \A o \in Jobs \ {j} : job'[o] = job[o]
    /\ job'[j].ran = job[j].ran \cup {w[t].i} /\ job'[j].st = job[j].st
    /\ job'[j].kind = job[j].kind /\ job'[j].id = job[j].id /\ job'[j].before = job[j].before
    /\ \/ /\ HeldBesidesWorker(t, j) /\ w'[t].pc = "look" /\ w'[t].job = {}
          /\ job'[j].ready = (job[j].ready \/ ~job[j].kind.loop)
       \/ /\ ~HeldBesidesWorker(t, j) /\ w'[t].pc = "mark" /\ w'[t].job = w[t].job
    /\ UNCHANGED <<idCount, num, active, queue, status, used, c>>
<1>1. PICK j \in w[t].job :
        /\ w[t].pc = "body" /\ c[t] = NoCall
        /\ IF HeldBesidesWorker(t, j)
             THEN job' = Ran(job, j, w[t].i) /\ WPut(t, Resting("look"))
             ELSE job' = Destroyed(Ran(job, j, w[t].i), j) /\ WGo(t, "mark")
        /\ UNCHANGED <<idCount, num, active, queue, status, used, c>>
  BY DEF Finish, WAt
<1>2. j \in Jobs /\ w[t].i \in Nat /\ job \in [Jobs -> Tasks]
  BY WorkerFields DEF Types
<1> DEFINE r == Ran(job, j, w[t].i)
<1>3. /\ r \in [Jobs -> Tasks] /\ \A o \in Jobs \ {j} : r[o] = job[o]
      /\ r[j].ran = job[j].ran \cup {w[t].i} /\ r[j].ready = (job[j].ready \/ ~job[j].kind.loop)
      /\ r[j].st = job[j].st /\ r[j].kind = job[j].kind /\ r[j].id = job[j].id
      /\ r[j].before = job[j].before
  BY <1>2, RanFacts
<1>4. CASE HeldBesidesWorker(t, j)
  <2>1. job' = r /\ WPut(t, Resting("look"))
    BY <1>1, <1>4
  <2> HIDE DEF r
  <2>2. OtherWorkers(t) /\ w'[t].pc = "look" /\ w'[t].job = {}
    <3>1. Resting("look") \in WorkerFrames /\ Resting("look").pc = "look" /\ Resting("look").job = {}
      BY RestingFrame DEF WorkerPcs
    <3> QED
      BY <2>1, <3>1, WPutFacts
  <2> QED
    BY <1>1, <1>2, <1>3, <1>4, <2>1, <2>2
<1>5. CASE ~HeldBesidesWorker(t, j)
  <2>1. job' = Destroyed(r, j) /\ WGo(t, "mark")
    BY <1>1, <1>5
  <2> HIDE DEF r
  <2>2. /\ \A o \in Jobs \ {j} : job'[o] = r[o]
        /\ job'[j].ran = r[j].ran /\ job'[j].st = r[j].st /\ job'[j].kind = r[j].kind
        /\ job'[j].id = r[j].id /\ job'[j].before = r[j].before
    BY <1>2, <1>3, <2>1, DestroyedFacts
  <2>3. OtherWorkers(t) /\ w'[t].pc = "mark" /\ w'[t].job = w[t].job
    BY <2>1, WGoFacts DEF WorkerPcs
  <2> QED
    BY <1>1, <1>2, <1>3, <1>5, <2>2, <2>3
<1> QED
  BY <1>4, <1>5

\* The end of an iteration keeps Core.
LEMMA FinishCore ==
  ASSUME OneClient, Types, Core, ~Over, NEW t \in Workers, Finish(t)
  PROVE  Core'
<1>1. PICK j \in w[t].job :
    /\ j \in Jobs /\ w[t].pc = "body" /\ c[t] = NoCall /\ OtherWorkers(t)
    /\ \A o \in Jobs \ {j} : job'[o] = job[o]
    /\ job'[j].ran = job[j].ran \cup {w[t].i} /\ job'[j].st = job[j].st
    /\ job'[j].kind = job[j].kind /\ job'[j].id = job[j].id /\ job'[j].before = job[j].before
    /\ \/ /\ HeldBesidesWorker(t, j) /\ w'[t].pc = "look" /\ w'[t].job = {}
          /\ job'[j].ready = (job[j].ready \/ ~job[j].kind.loop)
       \/ /\ ~HeldBesidesWorker(t, j) /\ w'[t].pc = "mark" /\ w'[t].job = w[t].job
    /\ UNCHANGED <<idCount, num, active, queue, status, used, c>>
  BY FinishFacts
<1>2. /\ w[t].job = {j} /\ job[j].st # "new" /\ w[t].i < job[j].kind.n /\ w[t].i \in Nat
      /\ job[j].kind \in Kinds /\ job[j].kind.n \in Nat /\ WorkerHolds(t, j)
  <2>1. InHand(t, j) /\ Grip(t) /\ w[t].pc \in Running
    BY <1>1 DEF InHand, Running, Core, WorkerInv
  <2>2. job[j].st # "new" /\ job[j].kind \in Kinds
    BY <1>1, <2>1 DEF Grip, Core, JobsInv
  <2> QED
    BY <1>1, <2>1, <2>2, KindTypes, WorkerFields DEF Grip, WorkerHolds
<1>3. \A u \in Workers : u # t => w'[u] = w[u]
  BY <1>1 DEF OtherWorkers
<1>4. job'[j].ran \subseteq 0..(job[j].kind.n - 1) /\ w[t].i \in 0..(job[j].kind.n - 1)
  BY <1>1, <1>2 DEF Core, JobsInv
<1>5. \A k \in Jobs : Complete(k) => Complete(k)'
  BY <1>1, <1>4 DEF Complete
<1>6. KeepsTasks
  BY <1>1, <1>5 DEF KeepsTasks
<1>7. \A u \in Workers, k \in Jobs : WorkerHolds(u, k)' <=> WorkerHolds(u, k) /\ ~(u = t /\ k = j)
  BY <1>1, <1>2, <1>3 DEF WorkerHolds, Running
<1>8. /\ HeldBesidesWorker(t, j) <=> Held(j)'
      /\ \A k \in Jobs : k # j => (Held(k)' <=> Held(k))
  BY <1>1, <1>7 DEF HeldBesidesWorker, Held, CallHolds, Queued
<1>9. Held(j) /\ ~Destroying(j)
  BY <1>1, <1>2 DEF Held, Core, ReadyInv
<1>10. \A k \in Jobs : /\ Destroying(k)' => Destroying(k) \/ (k = j /\ ~HeldBesidesWorker(t, j))
                       /\ k # j => (Destroying(k)' <=> Destroying(k))
  BY <1>1, <1>2, <1>3 DEF Destroying
<1>11. \A k \in Jobs : (Held(k)' => Held(k)) /\ (Alive(k)' => Alive(k))
  BY <1>8, <1>9, <1>10 DEF Alive
<1>12. \A k \in Jobs, i \in Nat : Pending(k, i) => Pending(k, i)' \/ (k = j /\ i = w[t].i)
  <2>1. ASSUME NEW u \in Workers, NEW k \in Jobs, NEW i \in Nat, WorkerHolds(u, k), w[u].i = i
        PROVE  (WorkerHolds(u, k)' /\ w'[u].i = i) \/ (k = j /\ i = w[t].i)
    <3>1. CASE u = t
      BY <1>2, <2>1, <3>1 DEF WorkerHolds
    <3>2. CASE u # t
      BY <1>3, <2>1, <3>2 DEF WorkerHolds
    <3> QED
      BY <3>1, <3>2
  <2>2. queue' = queue
    BY <1>1
  <2> QED
    BY <2>1, <2>2 DEF Pending
\* When no shared_ptr is left, every iteration of the task has run.
<1>13. ~HeldBesidesWorker(t, j) /\ job[j].st = "live" => Complete(j)'
  <2> SUFFICES ASSUME ~HeldBesidesWorker(t, j), job[j].st = "live" PROVE Complete(j)'
    OBVIOUS
  <2>1. ASSUME NEW i \in 0..(job[j].kind.n - 1) PROVE i \in job'[j].ran
    <3>1. i \in job[j].ran \/ Pending(j, i)
      BY <1>1, <2>1 DEF Core, RunInv, Enqueued
    <3>2. Pending(j, i) => i = w[t].i
      BY DEF Pending, HeldBesidesWorker, Queued
    <3> QED
      BY <1>1, <3>1, <3>2
  <2> QED
    BY <1>1, <1>4, <2>1 DEF Complete
<1>14. job[j].st = "made" => HeldBesidesWorker(t, j)
  <2> SUFFICES ASSUME job[j].st = "made" PROVE HeldBesidesWorker(t, j)
    OBVIOUS
  <2>1. PICK u \in Threads : Makes(u) /\ j \in c[u].job
    BY <1>1 DEF Core, JobsInv
  <2>2. MakesInv(u) /\ Alive(j)
    BY <1>9 DEF Core, CallInv, Alive
  <2>3. ~Preparing(u) /\ c[u].pc \in HasTask \cup {"mark"} /\ job[j].st \in StateOf(u)
    BY <2>1, <2>2 DEF MakesInv, Makes
  <2>4. c[u].pc # "mark"
    BY <2>3 DEF StateOf, Entering
  <2> QED
    BY <2>1, <2>3, <2>4 DEF HeldBesidesWorker, CallHolds
<1>15. Serves(t)
  <2>1. ~Quiet
    BY <1>1 DEF Quiet, Running
  <2>2. \A k \in Jobs : job'[k].st = job[k].st /\ job'[k].id = job[k].id
    BY <1>1
  <2> QED
    BY <1>1, <1>2, <1>4, <1>11, <2>1, <2>2 DEF Serves
<1>16. Grip(t)'
  <2>1. w'[t].pc \notin Running
    BY <1>1 DEF Running
  <2> QED
    BY <1>1, <1>2, <2>1 DEF Grip
<1>17. QueueInv'
  BY <1>1, <1>6, QueueKeeps
<1>18. RunInv'
  <2> SUFFICES ASSUME NEW k \in Jobs, NEW i \in 0..(job'[k].kind.n - 1), Enqueued(k, i)'
               PROVE  i \in job'[k].ran \/ Pending(k, i)'
    BY DEF RunInv
  <2>1. job'[k].kind = job[k].kind /\ job[k].ran \subseteq job'[k].ran /\ job'[k].st = job[k].st
    BY <1>1
  <2>2. i \in Nat
    BY <2>1, TaskFields, KindTypes
  <2>3. Enqueued(k, i)
    BY <1>1, <2>1 DEF Enqueued, Passed
  <2> QED
    BY <1>1, <1>12, <2>1, <2>2, <2>3 DEF Core, RunInv
<1>19. ReadyInv'
  <2> SUFFICES ASSUME NEW k \in Jobs
               PROVE  /\ job'[k].st \in {"made", "live"} /\ job'[k].ready => Complete(k)'
                      /\ job'[k].st = "live" /\ Destroying(k)' => Complete(k)'
                      /\ Destroying(k)' => ~Held(k)'
    BY DEF ReadyInv
  <2>1. CASE k = j
    <3>1. HeldBesidesWorker(t, j) /\ job[j].st \in {"made", "live"} /\ job'[j].ready => Complete(j)'
      <4>1. job[j].st \in {"made", "live"} /\ job[j].ready => Complete(j)'
        BY <1>1, <1>5 DEF Core, ReadyInv
      <4>2. ~job[j].kind.loop => Complete(j)'
        <5>1. ~job[j].kind.loop => job[j].kind.n = 1
          BY <1>2, ManagerAssumption
        <5> QED
          BY <1>1, <1>2, <1>4, <5>1 DEF Complete
      <4> QED
        BY <1>1, <4>1, <4>2
    <3> QED
      BY <1>1, <1>8, <1>9, <1>10, <1>13, <1>14, <2>1, <3>1
  <2>2. CASE k # j
    BY <1>1, <1>5, <1>8, <1>10, <2>2 DEF Core, ReadyInv
  <2> QED
    BY <2>1, <2>2
<1> QED
  BY <1>1, <1>6, <1>15, <1>16, <1>17, <1>18, <1>19, ServesKeeps DEF Core

\* A bit set by a worker is that of an id out of use.
LEMMA MarkByWorkerCore ==
  ASSUME OneClient, Types, Core, ~Over, NEW t \in Workers, MarkByWorker(t)
  PROVE  Core'
<1>1. PICK j \in w[t].job :
        /\ w[t].pc = "mark" /\ status' = status \cup {job[j].id} /\ WPut(t, Resting("look"))
        /\ UNCHANGED <<idCount, num, active, queue, used, job, c>>
  BY DEF MarkByWorker, WAt
<1>2. OtherWorkers(t) /\ w'[t].pc = "look" /\ w'[t].job = {}
  <2>1. Resting("look") \in WorkerFrames /\ Resting("look").pc = "look" /\ Resting("look").job = {}
    BY RestingFrame DEF WorkerPcs
  <2> QED
    BY <1>1, <2>1, WPutFacts
<1>3. \A u \in Workers : u # t => w'[u] = w[u]
  BY <1>2 DEF OtherWorkers
<1>4. j \in Jobs /\ Destroying(j) /\ ~Held(j) /\ Alive(j)
  <2>1. j \in Jobs /\ Destroying(j)
    BY <1>1, WorkerFields DEF Destroying
  <2> QED
    BY <2>1 DEF Core, ReadyInv, Alive
<1>5. \A k \in Jobs : /\ Held(k)' <=> Held(k)
                      /\ Destroying(k)' => Destroying(k)
                      /\ Alive(k)' => Alive(k)
  <2>1. \A u \in Workers, k \in Jobs : WorkerHolds(u, k)' <=> WorkerHolds(u, k)
    BY <1>1, <1>2, <1>3 DEF WorkerHolds, Running
  <2>2. \A k \in Jobs : Held(k)' <=> Held(k)
    BY <1>1, <2>1 DEF Held, CallHolds, Queued
  <2>3. \A k \in Jobs : Destroying(k)' => Destroying(k)
    BY <1>1, <1>2, <1>3 DEF Destroying
  <2> QED
    BY <2>2, <2>3 DEF Alive
<1>6. \A k \in Jobs, i \in Nat : Pending(k, i)' <=> Pending(k, i)
  BY <1>1, <1>2, <1>3 DEF Pending, WorkerHolds, Running
<1>7. KeepsTasks
  BY <1>1 DEF KeepsTasks, Complete
<1>8. Serves(t)
  <2>1. Nested(t)
    BY DEF Core, WorkerInv
  <2>2. c[t] = NoCall
    BY <1>1, <2>1 DEF Nested
  <2>3. ~Quiet
    BY <1>1 DEF Quiet
  <2> QED
    BY <1>1, <1>2, <1>5, <2>2, <2>3 DEF Serves
<1>9. Grip(t)'
  BY <1>2 DEF Grip
<1>10. /\ \A k \in Jobs : Held(k)' => job[k].id # job[j].id
       /\ \A u \in Threads : Chosen(u) => c[u].id # job[j].id
       /\ job[j].id < idCount
  BY <1>4, <1>5 DEF Core, IdInv, Alive
<1>11. QueueInv'
  BY <1>1, <1>7, QueueKeeps
<1>12. RunInv'
  <2> SUFFICES ASSUME NEW k \in Jobs, NEW i \in 0..(job[k].kind.n - 1), Enqueued(k, i)
               PROVE  i \in job[k].ran \/ Pending(k, i)'
    BY <1>1 DEF RunInv, Enqueued, Passed
  <2>1. i \in Nat
    BY TaskFields, KindTypes
  <2> QED
    BY <1>6, <2>1 DEF Core, RunInv
<1>13. ReadyInv'
  BY <1>1, <1>5 DEF Core, ReadyInv, Complete
<1> QED
  BY <1>1, <1>7, <1>8, <1>9, <1>10, <1>11, <1>12, <1>13, ServesKeeps DEF Core
-----------------------------------------------------------------------------
(* What one step does to the frames, whether or not the manager is closing. *)

Entry(t) == Enqueue(t) \/ CallWait(t) \/ CallStep(t)
\* The pcs a call of the destructor goes through.
GonePcs == Joining \cup Spinning \cup Clearing \cup {"gone"}
\* The pcs of a call whose iterations are announced.
Adding == {"push", "notify", "sub"}
Announces(t) == AddTasks(t) \/ Push(t) \/ Notify(t) \/ SubRest(t)

\* A step of an enqueue is not one of the destructor.
LEMMA EnqueueFrames ==
  ASSUME Types, NEW t \in Threads, EnqueueStep(t)
  PROVE  /\ Others(t) /\ c[t].pc \notin GonePcs
         /\ c'[t].after \in {c[t].after, "idle", "reissue"}
         /\ Announces(t) \/ (c[t].pc \notin Adding /\ c'[t].pc \notin Adding)
<1>1. c[t].pc \notin GonePcs
  BY DEF EnqueueStep, GonePcs, Joining, Spinning, Clearing, At, IssueId, CheckId, CreateTask, AddTasks,
         Push, Notify, ReturnFuture, SubRest, Throw, RunRest, DropError, MarkByCall
<1>2. CASE IssueId(t)
  BY <1>1, <1>2, IssueFacts DEF Adding
<1>3. CASE CheckId(t)
  <2>0. c[t].pc = "check"
    BY <1>3 DEF CheckId, At
  <2>1. CASE Go(t, "slot")
    BY <1>1, <2>0, <2>1, GoFacts DEF CallPcs, Adding
  <2>2. CASE Put(t, [c[t] EXCEPT !.pc = "enabled", !.after = "reissue"])
    <3> DEFINE g == [c[t] EXCEPT !.pc = "enabled", !.after = "reissue"]
    <3>1. g \in Frames /\ g.after = "reissue" /\ g.pc = "enabled"
      BY FrameEnable, FrameFields
    <3>2. Put(t, g)
      BY <2>2
    <3> HIDE DEF g
    <3> QED
      BY <1>1, <2>0, <3>1, <3>2, PutFacts DEF Adding
  <2> QED
    BY <1>3, <2>1, <2>2 DEF CheckId
<1>4. CASE CreateTask(t)
  <2>0. c[t].pc = "slot"
    BY <1>4 DEF CreateTask, At
  <2>1. CASE Go(t, "add")
    BY <1>1, <2>0, <2>1, GoFacts DEF CallPcs, HasTask, Adding
  <2>2. CASE Put(t, [c[t] EXCEPT !.pc = "issue", !.attempt = @ + 1])
    <3> DEFINE g == [c[t] EXCEPT !.pc = "issue", !.attempt = @ + 1]
    <3>1. g \in Frames /\ g.after = c[t].after /\ g.pc = "issue"
      BY FrameRetry, FrameFields
    <3>2. Put(t, g)
      BY <2>2
    <3> HIDE DEF g
    <3> QED
      BY <1>1, <2>0, <3>1, <3>2, PutFacts DEF Adding
  <2>3. CASE Put(t, NoCall)
    BY <1>1, <2>0, <2>3, PutFacts, NoCallFrame, NoCallFields DEF Adding
  <2> QED
    BY <1>4, <2>1, <2>2, <2>3 DEF CreateTask
<1>5. CASE AddTasks(t) \/ Push(t) \/ SubRest(t)
  <2>1. \E p \in CallPcs : Go(t, p)
    BY <1>5 DEF AddTasks, Push, SubRest, CallPcs, HasTask
  <2> QED
    BY <1>1, <1>5, <2>1, GoFacts DEF Announces
<1>6. CASE Notify(t)
  BY <1>1, <1>6, NextFacts DEF Announces
<1>10. CASE Throw(t)
  <2>1. c[t].pc = "notify_all" /\ Go(t, "caught")
    BY <1>10 DEF Throw, At
  <2> QED
    BY <1>1, <2>1, GoFacts DEF CallPcs, HasTask, Adding
<1>7. CASE ReturnFuture(t) \/ DropError(t)
  <2>1. PICK j \in c[t].job : \E jobs : DropByCall(t, j, jobs)
    BY <1>7 DEF ReturnFuture, DropError
  <2>0. c[t].pc \in {"return", "caught"}
    BY <1>7 DEF ReturnFuture, DropError, At
  <2>2. CASE Put(t, NoCall)
    BY <1>1, <2>0, <2>2, PutFacts, NoCallFrame, NoCallFields DEF Adding
  <2>3. CASE Go(t, "mark")
    BY <1>1, <2>0, <2>3, GoFacts DEF CallPcs, Adding
  <2> QED
    BY <2>1, <2>2, <2>3 DEF DropByCall
<1>8. CASE RunRest(t)
  <2> DEFINE g == [c[t] EXCEPT !.i = @ + 1]
  <2>1. g \in Frames /\ g.after = c[t].after /\ g.pc = c[t].pc
    BY FrameRan, FrameFields
  <2>2. Put(t, g) /\ c[t].pc = "caught"
    BY <1>8 DEF RunRest, At
  <2> HIDE DEF g
  <2> QED
    BY <1>1, <2>1, <2>2, PutFacts DEF Adding
<1>9. CASE MarkByCall(t)
  BY <1>1, <1>9, PutFacts, NoCallFrame, NoCallFields DEF MarkByCall, At, Adding
<1> QED
  BY <1>2, <1>3, <1>4, <1>5, <1>6, <1>7, <1>8, <1>9, <1>10 DEF EnqueueStep

\* A wait, a clear or the destructor announces nothing, and the destructor
\* goes on until it is gone.
LEMMA OtherFrames ==
  ASSUME Types, NEW t \in Threads, OtherStep(t), c[t].after = "gone" => c[t].pc \in GonePcs
  PROVE  /\ Others(t) /\ c[t].pc # "idle" /\ (c'[t].after = "gone" <=> c[t].after = "gone")
         /\ c[t].pc \notin Adding /\ c'[t].pc \notin Adding
         /\ c[t].after = "gone" =>
              /\ c'[t].pc \in GonePcs
              /\ c[t].pc \notin Joining => c'[t].pc \notin Joining
              /\ c[t].pc \in Joining => c'[t].pc \in Joining \/ Join(t)
<1>1. CASE \/ WorkersAreEnabled(t) \/ SeeEmpty(t) \/ SeeActive(t) \/ ClearIds(t) \/ ClearQueue(t)
  <2>1. PICK p \in {"empty", "active", "waited", "clear_ids", "clear_queue", "clear_status"} :
          Go(t, p) /\ (p = "waited" => c[t].after = "waited")
    BY <1>1 DEF WorkersAreEnabled, SeeEmpty, SeeActive, ClearIds, ClearQueue, AfterWait
  <2>2. p \in CallPcs
    BY DEF CallPcs
  <2>3. Others(t) /\ c'[t].pc = p /\ c'[t].after = c[t].after
    BY <2>1, <2>2, GoFacts
  <2>4. c[t].pc \notin Joining /\ c[t].pc # "idle" /\ c[t].pc \notin Adding
    BY <1>1 DEF WorkersAreEnabled, SeeEmpty, SeeActive, ClearIds, ClearQueue, At, Joining, Adding
  <2> QED
    BY <2>1, <2>3, <2>4 DEF GonePcs, Spinning, Clearing, Joining, Adding
<1>2. CASE Waited(t)
  <2>1. c[t].pc = "waited" /\ Others(t) /\ c'[t].after = "idle" /\ c'[t].pc = "idle"
    BY <1>2, PutFacts, NoCallFrame, NoCallFields DEF Waited, At
  <2> QED
    BY <2>1 DEF GonePcs, Spinning, Clearing, Joining, Adding
<1>3. CASE ClearStatus(t)
  <2>1. /\ c[t].pc = "clear_status" /\ Others(t)
        /\ c[t].after = "idle" => c'[t] = NoCall
        /\ c[t].after # "idle" => c'[t].pc = c[t].after /\ c'[t].after = c[t].after
    BY <1>3, ClearStatusFacts
  <2> QED
    BY <2>1, NoCallFields, FrameFields DEF GonePcs, Spinning, Clearing, Joining, Adding
<1>4. CASE ExitWorkers(t) \/ ExitNotify(t) \/ Join(t)
  <2>1. PICK p \in {"exit_notify", "join", "enabled"} : Go(t, p) /\ (p = "enabled" => Join(t))
    BY <1>4 DEF ExitWorkers, ExitNotify, Join
  <2>2. p \in CallPcs
    BY DEF CallPcs
  <2>3. Others(t) /\ c'[t].pc = p /\ c'[t].after = c[t].after
    BY <2>1, <2>2, GoFacts
  <2>4. c[t].pc \in Joining
    BY <1>4 DEF ExitWorkers, ExitNotify, Join, At, Joining
  <2> QED
    BY <2>1, <2>3, <2>4 DEF GonePcs, Spinning, Clearing, Joining, Adding
<1> QED
  BY <1>1, <1>2, <1>3, <1>4 DEF OtherStep

\* Both, for every step of a call.
LEMMA EntryFrames ==
  ASSUME Types, NEW t \in Threads, Entry(t), c[t].after = "gone" => c[t].pc \in GonePcs
  PROVE  /\ Others(t) /\ (c'[t].after = "gone" <=> c[t].after = "gone")
         /\ Announces(t) \/ (c[t].pc \notin Adding /\ c'[t].pc \notin Adding)
         /\ c[t].after = "gone" =>
              /\ c'[t].pc \in GonePcs
              /\ c[t].pc \notin Joining => c'[t].pc \notin Joining
              /\ c[t].pc \in Joining => c'[t].pc \in Joining \/ Join(t)
<1>1. CASE Enqueue(t)
  BY <1>1, EnqueueFacts, NoCallFields DEF Adding
<1>2. CASE CallWait(t)
  <2>1. PICK after \in {"waited", "idle"} :
          Put(t, [NoCall EXCEPT !.pc = "enabled", !.after = after, !.job = Accepted])
    BY <1>2 DEF CallWait
  <2> DEFINE g == [NoCall EXCEPT !.pc = "enabled", !.after = after, !.job = Accepted]
  <2>2. g \in Frames /\ g.after = after /\ g.pc = "enabled"
    <3>1. Accepted \in SUBSET Jobs
      BY DEF Accepted
    <3> QED
      BY <3>1 DEF NoCall, Frames, CallPcs, HasTask
  <2>3. Put(t, g)
    BY <2>1
  <2>4. c[t].after = "idle" /\ c[t].pc = "idle"
    BY <1>2, NoCallFields DEF CallWait, MayCall
  <2> HIDE DEF g
  <2> QED
    BY <2>2, <2>3, <2>4, PutFacts DEF Adding
<1>3. CASE EnqueueStep(t)
  BY <1>3, EnqueueFrames
<1>4. CASE OtherStep(t)
  BY <1>4, OtherFrames
<1> QED
  BY <1>1, <1>2, <1>3, <1>4 DEF Entry, CallStep

\* A call does nothing to a worker but wake it.
LEMMA EntryWakes ==
  ASSUME Types, NEW t \in Threads, Entry(t) \/ CallDestroy(t) \/ DropFuture(t)
  PROVE  Wakes
<1>1. CASE Notify(t)
  BY <1>1, NotifyFacts DEF Notify, Wakes
<1>2. CASE Throw(t) \/ ExitNotify(t)
  BY <1>2, WakeFacts DEF Throw, ExitNotify, Wakes
<1>3. CASE w' = w
  BY <1>3 DEF Wakes
<1> QED
  BY <1>1, <1>2, <1>3 DEF Entry, Enqueue, CallWait, CallStep, CallDestroy, DropFuture, EnqueueStep,
     OtherStep, IssueId, CheckId, CreateTask, AddTasks, Push, ReturnFuture, SubRest, RunRest,
     DropError, MarkByCall, WorkersAreEnabled, SeeEmpty, SeeActive, Waited, ClearIds, ClearQueue,
     ClearStatus, ExitWorkers, Join

\* A worker steps alone, until it has exited.
LEMMA WorkerStepFrames ==
  ASSUME Types, NEW t \in Workers, WorkerStep(t)
  PROVE  OtherWorkers(t) /\ w[t].pc # "exited" /\ c' = c
<1>1. w[t].pc # "exited" /\ c' = c
  BY DEF WorkerStep, WAt, Look, Fetch, Took, Precede, Finish, MarkByWorker, Missed, Rest, Wait, Woken
<1>2. (\E p \in WorkerPcs : WGo(t, p)) \/ \E f : WPut(t, f)
  BY DEF WorkerStep, Look, Fetch, Took, Precede, Finish, MarkByWorker, Missed, Rest, Wait, Woken,
     WorkerPcs, Running
<1>3. OtherWorkers(t)
  BY <1>2 DEF Types, OtherWorkers, WGo, WPut
<1> QED
  BY <1>1, <1>3

\* Who may take a step.
LEMMA StepCases ==
  ASSUME [Next]_vars
  PROVE  \/ \E t \in Threads : Entry(t) \/ CallDestroy(t)
         \/ \E t \in Clients : DropFuture(t)
         \/ \E t \in Workers : WorkerStep(t)
         \/ UNCHANGED vars
BY DEF Next, Entry

\* The destructor begins when no client is in a call.
LEMMA DestroyFrames ==
  ASSUME Types, NEW t \in Threads, CallDestroy(t)
  PROVE  /\ t \in Clients /\ ~Closing /\ \A u \in Clients : c[u] = NoCall
         /\ Others(t) /\ c'[t].pc = "exit" /\ c'[t].after = "gone" /\ c'[t].job = {}
         /\ UNCHANGED <<idCount, num, active, queue, status, used, job, w>>
<1> DEFINE g == [NoCall EXCEPT !.pc = "exit", !.after = "gone"]
<1>1. g \in Frames /\ g.pc = "exit" /\ g.after = "gone" /\ g.job = {}
  BY NewDestroy
<1>2. Put(t, g)
  BY DEF CallDestroy
<1> HIDE DEF g
<1>3. Others(t) /\ c'[t] = g
  BY <1>1, <1>2, PutFacts
<1> QED
  BY <1>1, <1>3 DEF CallDestroy

\* A worker that has exited is gone.
LEMMA ExitedStays ==
  ASSUME Types, [Next]_vars, NEW u \in Workers, w[u].pc = "exited"
  PROVE  w'[u].pc = "exited"
<1>1. CASE Wakes
  BY <1>1 DEF Wakes
<1>2. CASE \E t \in Workers : WorkerStep(t)
  <2>1. PICK t \in Workers : WorkerStep(t)
    BY <1>2
  <2> QED
    BY <2>1, WorkerStepFrames DEF OtherWorkers
<1>3. CASE UNCHANGED vars
  BY <1>3 DEF vars
<1> QED
  BY <1>1, <1>2, <1>3, StepCases, EntryWakes DEF Threads

\* The destructor goes one way.
LEMMA ClosingStep ==
  ASSUME Types, ClosingInv, [Next]_vars
  PROVE  ClosingInv' /\ (Over => Over') /\ (Closing => Closing')
<1> DEFINE Exited == \A u \in Workers : w[u].pc = "exited"
<1>1. Exited => Exited'
  BY ExitedStays
<1>2. \A t \in Threads : c[t].after = "gone" => t \in Clients /\ c[t].pc \in GonePcs
  BY DEF ClosingInv, GonePcs
<1>3. \A t \in Clients : c[t].after = "gone" /\ c[t].pc \notin Joining => Exited
  BY DEF ClosingInv
<1>4. SUFFICES /\ \A t \in Threads : c'[t].after = "gone" => t \in Clients /\ c'[t].pc \in GonePcs
               /\ \A t \in Clients : c'[t].after = "gone" /\ c'[t].pc \notin Joining => Exited'
               /\ \A t \in Clients : c[t].after = "gone" =>
                    c'[t].after = "gone" /\ (c[t].pc \notin Joining => c'[t].pc \notin Joining)
  BY DEF ClosingInv, GonePcs, Over, Closing
<1> HIDE DEF Exited
<1>5. CASE c' = c
  BY <1>1, <1>2, <1>3, <1>5
<1>6. ASSUME NEW t \in Threads, Entry(t)
      PROVE  /\ \A u \in Threads : c'[u].after = "gone" => u \in Clients /\ c'[u].pc \in GonePcs
             /\ \A u \in Clients : c'[u].after = "gone" /\ c'[u].pc \notin Joining => Exited'
             /\ \A u \in Clients : c[u].after = "gone" =>
                  c'[u].after = "gone" /\ (c[u].pc \notin Joining => c'[u].pc \notin Joining)
  <2>1. /\ \A u \in Threads : u # t => c'[u] = c[u]
        /\ c'[t].after = "gone" <=> c[t].after = "gone"
        /\ c[t].after = "gone" =>
              /\ c'[t].pc \in GonePcs
              /\ c[t].pc \notin Joining => c'[t].pc \notin Joining
              /\ c[t].pc \in Joining => c'[t].pc \in Joining \/ Join(t)
    BY <1>2, <1>6, EntryFrames DEF Others
  <2>2. Join(t) => Exited
    BY DEF Join, Exited
  <2> QED
    BY <1>1, <1>2, <1>3, <2>1, <2>2, Distinct
<1>7. ASSUME NEW t \in Threads, CallDestroy(t)
      PROVE  /\ \A u \in Threads : c'[u].after = "gone" => u \in Clients /\ c'[u].pc \in GonePcs
             /\ \A u \in Clients : c'[u].after = "gone" /\ c'[u].pc \notin Joining => Exited'
             /\ \A u \in Clients : c[u].after = "gone" =>
                  c'[u].after = "gone" /\ (c[u].pc \notin Joining => c'[u].pc \notin Joining)
  <2>1. /\ t \in Clients /\ \A u \in Clients : c[u].after # "gone"
        /\ \A u \in Threads : u # t => c'[u] = c[u]
        /\ c'[t].pc = "exit"
    BY <1>7, DestroyFrames DEF Closing, Others
  <2> QED
    BY <1>2, <2>1, Distinct DEF Joining, GonePcs
<1>8. CASE \E t \in Workers : WorkerStep(t)
  BY <1>5, <1>8, WorkerStepFrames
<1> QED
  BY <1>5, <1>6, <1>7, <1>8, StepCases DEF DropFuture, vars
-----------------------------------------------------------------------------
(* Core is kept as long as something is left of it.                         *)

\* Every step keeps Core.
LEMMA CoreStep ==
  ASSUME OneClient, Types, ClosingInv, Counts, Core, ~Over', [Next]_vars
  PROVE  Core'
<1>1. ~Over
  BY ClosingStep
<1>2. ASSUME NEW t \in Threads, EnqueueStep(t) PROVE Core'
  <2>1. CASE Push(t)
    BY <1>1, <2>1, PushCore, AddTasksCore
  <2> QED
    BY <1>1, <1>2, <2>1, IssueIdCore, CheckIdCore, CreateTaskCore, AddTasksCore, NotifyCore,
       ReturnFutureCore, ThrowCore, RunRestCore, DropErrorCore, MarkByCallCore DEF EnqueueStep
<1>3. ASSUME NEW t \in Threads, OtherStep(t), ~Join(t) PROVE Core'
  BY <1>1, <1>3, WorkersAreEnabledCore, SeeEmptyCore, SeeActiveCore, WaitedCore, ClearIdsCore,
     ClearQueueCore, ClearStatusCore, ExitCore, ExitNotifyCore DEF OtherStep
<1>4. ASSUME NEW t \in Threads, Join(t) PROVE FALSE
  <2>1. c[t].pc = "join" /\ c'[t].pc = "enabled" /\ c'[t].after = c[t].after
    BY <1>4, GoFacts DEF Join, At, CallPcs
  <2>2. c[t].after = "gone"
    BY <2>1 DEF Core, CallInv, Shape, Joining
  <2>3. t \in Clients
    BY <2>2 DEF ClosingInv
  <2> QED
    BY <2>1, <2>2, <2>3 DEF Over, Joining
<1>5. ASSUME NEW t \in Workers, WorkerStep(t) PROVE Core'
  <2>1. CASE Fetch(t)
    BY <1>1, <2>1, FetchCore, LookCore
  <2> QED
    BY <1>1, <1>5, <2>1, LookCore, TookCore, FinishCore, MarkByWorkerCore DEF WorkerStep
<1>6. CASE UNCHANGED vars
  <2>1. UNCHANGED <<idCount, num, active, queue, status, used, job, w, c>>
    BY <1>6 DEF vars
  <2>2. JobsInv' /\ QueueInv' /\ WorkerInv' /\ CallInv'
    BY <2>1 DEF Core, JobsInv, QueueInv, WorkerInv, CallInv, Grip, Nested, Shape, MakesInv, InHand, Makes,
       Preparing, Sole, StateOf, Alive, Held, Queued, CallHolds, WorkerHolds, Destroying
  <2>3. RunInv' /\ ReadyInv' /\ IdInv' /\ StatusInv'
    BY <2>1 DEF Core, RunInv, ReadyInv, IdInv, StatusInv, Enqueued, Passed, Pending, Complete, Chosen,
       ResetByCall, Alive, Held, Queued, CallHolds, WorkerHolds, Destroying
  <2>4. OrderInv' /\ PrecedenceRespected' /\ AwaitInv'
    BY <2>1 DEF Core, OrderInv, PrecedenceRespected, AwaitInv, AwaitAt, Quiet, Complete, Chosen, WAt,
       Alive, Held, Queued, CallHolds, WorkerHolds, Destroying
  <2> QED
    BY <2>2, <2>3, <2>4 DEF Core
<1>7. ASSUME NEW t \in Threads, Entry(t) PROVE Core'
  BY <1>1, <1>2, <1>3, <1>4, <1>7, EnqueueCore, CallWaitCore DEF Entry, CallStep
<1>8. \A t \in Clients : t \in Threads
  BY Distinct
<1> QED
  BY <1>1, <1>5, <1>6, <1>7, <1>8, StepCases, ExitCore, DropFutureCore
-----------------------------------------------------------------------------
(* The counters.                                                            *)

\* One element joins or leaves a set.
LEMMA CountMove ==
  ASSUME NEW S, IsFiniteSet(S), NEW F, F \subseteq S, NEW G, G \subseteq S, NEW t \in S,
         \A u \in S \ {t} : u \in F <=> u \in G
  PROVE  /\ Cardinality(F) \in Nat /\ Cardinality(G) \in Nat
         /\ t \in F /\ t \notin G => Cardinality(G) = Cardinality(F) - 1
         /\ t \notin F /\ t \in G => Cardinality(G) = Cardinality(F) + 1
         /\ (t \in F <=> t \in G) => G = F
<1>1. IsFiniteSet(F) /\ IsFiniteSet(G)
  BY FS_Subset
<1>2. Cardinality(F) \in Nat /\ Cardinality(G) \in Nat
  BY <1>1, FS_CardinalityType
<1>3. t \in F /\ t \notin G => G = F \ {t}
  OBVIOUS
<1>4. t \notin F /\ t \in G => G = F \cup {t}
  OBVIOUS
<1>5. /\ t \in F => Cardinality(F \ {t}) = Cardinality(F) - 1
      /\ t \notin F => Cardinality(F \cup {t}) = Cardinality(F) + 1
  BY <1>1, FS_RemoveElement, FS_AddElement
<1> QED
  BY <1>2, <1>3, <1>4, <1>5

Span(j, lo, n) == {j} \X (lo..(n - 1))

\* The size of a set with n - lo iterations of task j more.
LEMMA UnionSize ==
  ASSUME NEW S, IsFiniteSet(S), NEW j, NEW lo \in Nat, NEW n \in Nat, lo <= n,
         S \cap Span(j, lo, n) = {}
  PROVE  /\ IsFiniteSet(S \cup Span(j, lo, n))
         /\ Cardinality(S \cup Span(j, lo, n)) = Cardinality(S) + (n - lo)
<1> DEFINE I == lo..(n - 1)
           J == {j}
           M == Span(j, lo, n)
<1>1. IsFiniteSet(I) /\ Cardinality(I) = n - lo
  <2>1. IsFiniteSet(I) /\ Cardinality(I) = IF lo > n - 1 THEN 0 ELSE n - 1 - lo + 1
    BY FS_Interval
  <2> QED
    BY <2>1
<1>2. IsFiniteSet(J) /\ Cardinality(J) = 1
  BY FS_Singleton
<1>3. M = J \X I
  BY DEF Span
<1> HIDE DEF I, J, M
<1>4. IsFiniteSet(J \X I) /\ Cardinality(J \X I) = Cardinality(J) * Cardinality(I)
  BY <1>1, <1>2, FS_Product
<1>5. IsFiniteSet(M) /\ Cardinality(M) = n - lo
  BY <1>1, <1>2, <1>3, <1>4
<1>6. IsFiniteSet(S \cup M) /\ Cardinality(S \cup M) = Cardinality(S) + Cardinality(M) - Cardinality(S \cap M)
  BY <1>5, FS_Union
<1>7. Cardinality(S) \in Nat
  BY FS_CardinalityType
<1>8. Cardinality(S \cap M) = 0
  BY FS_EmptySet DEF M
<1>9. IsFiniteSet(S \cup M) /\ Cardinality(S \cup M) = Cardinality(S) + (n - lo)
  BY <1>5, <1>6, <1>7, <1>8
<1> QED
  BY <1>9 DEF M

KindsKeep == \A k \in Jobs : job[k].st # "new" => job'[k].kind = job[k].kind
\* The iterations that the calls of other threads, and that t's own, announce.
Elsewhere(t) == UNION {UNION {Unqueued(u, j) : j \in c[u].job} : u \in Enqueuing \ {t}}
From(t, n) == IF c[t].pc = "notify" THEN c[t].i + 1 ELSE IF c[t].pc \in Adding THEN c[t].i ELSE n

\* What the other calls announce does not change.
LEMMA ElsewhereStays ==
  ASSUME Types, Core, KindsKeep, NEW t \in Threads, Others(t)
  PROVE  Elsewhere(t)' = Elsewhere(t)
<1>1. Enqueuing' \ {t} = Enqueuing \ {t}
  BY DEF Others, Enqueuing
<1>2. ASSUME NEW u \in Enqueuing \ {t}
      PROVE  c'[u].job = c[u].job /\ \A j \in c[u].job : Unqueued(u, j)' = Unqueued(u, j)
  <2>1. u \in Threads /\ c'[u] = c[u] /\ Makes(u)
    BY <1>2 DEF Others, Enqueuing, Makes, HasTask
  <2>2. ASSUME NEW j \in c[u].job PROVE job'[j].kind = job[j].kind
    BY <2>1, FrameFields, AliveIsOld DEF KindsKeep
  <2> QED
    BY <2>1, <2>2 DEF Unqueued, At
<1>3. \A u \in Enqueuing \ {t} : {Unqueued(u, j)' : j \in c'[u].job} = {Unqueued(u, j) : j \in c[u].job}
  BY <1>2
<1> QED
  BY <1>1, <1>3 DEF Elsewhere

\* Nor does what all calls announce, when t announces nothing.
LEMMA AnnouncedSame ==
  ASSUME Types, Core, KindsKeep, NEW t \in Threads, Others(t), c[t].pc \notin Adding, c'[t].pc \notin Adding
  PROVE  Announced' = Announced
<1>1. Elsewhere(t)' = Elsewhere(t)
  BY ElsewhereStays
<1>2. t \notin Enqueuing /\ t \notin Enqueuing'
  BY DEF Enqueuing, Adding
<1>3. Announced = Elsewhere(t) /\ Announced' = Elsewhere(t)'
  <2>1. Enqueuing \ {t} = Enqueuing /\ Enqueuing' \ {t} = Enqueuing'
    BY <1>2
  <2> QED
    BY <2>1 DEF Announced, Elsewhere
<1> QED
  BY <1>1, <1>3

\* What is announced is what others announce and the iterations t has left.
LEMMA AnnouncedSplits ==
  ASSUME NEW t \in Threads, NEW j, c[t].job = {j}, NEW n \in Nat, job[j].kind.n = n
  PROVE  Announced = Elsewhere(t) \cup ({j} \X (From(t, n)..(n - 1)))
<1>1. CASE t \in Enqueuing
  <2>1. Enqueuing = (Enqueuing \ {t}) \cup {t}
    BY <1>1
  <2>2. UNION {Unqueued(t, k) : k \in c[t].job} = {j} \X (From(t, n)..(n - 1))
    BY <1>1 DEF Unqueued, From, At, Enqueuing, Adding
  <2>3. Announced = Elsewhere(t) \cup UNION {Unqueued(t, k) : k \in c[t].job}
    BY <2>1 DEF Announced, Elsewhere
  <2> QED
    BY <2>2, <2>3
<1>2. CASE t \notin Enqueuing
  <2>1. Enqueuing = Enqueuing \ {t}
    BY <1>2
  <2>2. From(t, n) = n
    BY <1>2 DEF Enqueuing, From, Adding
  <2>3. {j} \X (n..(n - 1)) = {}
    <3>1. n..(n - 1) = {}
      OBVIOUS
    <3> QED
      BY <3>1
  <2> QED
    BY <2>1, <2>2, <2>3 DEF Announced, Elsewhere
<1> QED
  BY <1>1, <1>2

In(A) == {u \in Workers : w[u].pc \in A}
Telling == {u \in Threads : c[u].pc \in {"notify"}}
Awake == WorkerPcs \ {"wait", "asleep", "woken"}
OnTheWay == {"wait", "woken", "look", "fetch", "missed", "rest"}

\* The counters in terms of the sets above.
LEMMA CountsMean ==
  ASSUME Types, ~Closing, Counts
  PROVE  /\ IsFiniteSet(Announced) /\ Cardinality(Announced) \in Nat
         /\ num = Cardinality(Announced) + Len(queue) + Cardinality(In({"took"}))
         /\ active = Cardinality(In(Awake))
         /\ In({"asleep"}) # {} => Len(queue) <= Cardinality(In(OnTheWay)) + Cardinality(Telling)
         /\ Len(queue) \in Nat /\ num >= Len(queue)
<1>1. IsFiniteSet(Announced) /\ Cardinality(Announced) \in Nat
  BY FS_CardinalityType DEF Counts
<1>2. /\ num = Cardinality(Announced) + Len(queue) + Cardinality({t \in Workers : WAt(t, "took")})
      /\ active = Cardinality({t \in Workers : w[t].pc \notin {"wait", "asleep", "woken"}})
      /\ Asleep # {} => Len(queue) <=
           Cardinality({t \in Workers : w[t].pc \in {"wait", "woken", "look", "fetch", "missed", "rest"}})
             + Cardinality({t \in Threads : At(t, "notify")})
  BY DEF Counts, WorkIsAnnounced, CountersAgree, SleepersAreCalled
<1>3. {t \in Workers : WAt(t, "took")} = In({"took"})
  BY DEF WAt, In
<1>4. {t \in Workers : w[t].pc \notin {"wait", "asleep", "woken"}} = In(Awake)
  BY WorkerFields DEF In, Awake
<1>5. Asleep = In({"asleep"}) /\ {t \in Threads : At(t, "notify")} = Telling
  BY DEF Asleep, In, At, Telling
<1>6. Len(queue) \in Nat /\ num >= Len(queue)
  BY Counted, LenProperties DEF Types
<1> QED
  BY <1>1, <1>2, <1>3, <1>4, <1>5, <1>6 DEF In, OnTheWay

\* And back, for the next state.
LEMMA CountsNext ==
  ASSUME Types', IsFiniteSet(Announced'),
         num' = Cardinality(Announced') + Len(queue') + Cardinality(In({"took"})'),
         active' = Cardinality(In(Awake)'),
         In({"asleep"})' # {} => Len(queue') <= Cardinality(In(OnTheWay)') + Cardinality(Telling')
  PROVE  Counts'
<1>1. {t \in Workers : WAt(t, "took")'} = In({"took"})'
  BY DEF WAt, In
<1>2. {t \in Workers : w'[t].pc \notin {"wait", "asleep", "woken"}} = In(Awake)'
  <2>1. \A t \in Workers : w'[t].pc \in WorkerPcs
    BY DEF Types, WorkerFrames
  <2> QED
    BY <2>1 DEF In, Awake
<1>3. Asleep' = In({"asleep"})' /\ {t \in Threads : At(t, "notify")'} = Telling'
  BY DEF Asleep, In, At, Telling
<1>4. CountersAgree'
  BY <1>1, <1>2 DEF CountersAgree
<1>5. SleepersAreCalled'
  BY <1>3 DEF SleepersAreCalled, In, OnTheWay
<1> QED
  BY <1>4, <1>5 DEF Counts, WorkIsAnnounced

IdsStay == \A j \in Jobs : job'[j].id = job[j].id \/ job'[j].id \in Ids
TasksStay == KindsKeep /\ IdsStay

\* The first id.
LEMMA ZeroIsId == 0 \in Ids
BY ManagerAssumption DEF Ids

\* The id a task is created with is in range.
LEMMA SlotIsId ==
  ASSUME Types, Core, NEW t \in Threads, c[t].pc = "slot"
  PROVE  c[t].id \in Ids
<1>1. c[t].id \in Nat /\ c[t].id < MaxId
  BY FrameFields DEF Core, IdInv, Chosen
<1> QED
  BY <1>1, ManagerAssumption DEF Ids

\* No step changes the kind of a task, or gives it an id out of range.
LEMMA TasksStep ==
  ASSUME Types, Core, [Next]_vars
  PROVE  TasksStay
<1>1. CASE job' = job
  BY <1>1 DEF TasksStay, KindsKeep, IdsStay
<1>2. ASSUME NEW t \in Threads, Enqueue(t) PROVE TasksStay
  <2>1. PICK j \in Jobs, k \in Kinds :
          job[j].st = "new"
          /\ job' = [job EXCEPT ![j] = [NewJob EXCEPT !.st = "made", !.kind = k, !.before = Accepted]]
    BY <1>2 DEF Enqueue
  <2>2. [NewJob EXCEPT !.st = "made", !.kind = k, !.before = Accepted].id = 0
    BY DEF NewJob
  <2> QED
    BY <2>1, <2>2, ZeroIsId DEF TasksStay, KindsKeep, IdsStay, Types
<1>3. ASSUME NEW t \in Threads, CreateTask(t) PROVE TasksStay
  <2>1. PICK j \in c[t].job :
          /\ c[t].pc = "slot"
          /\ job' = [job EXCEPT ![j].id = c[t].id] \/ UNCHANGED job \/ job' = [job EXCEPT ![j].st = "refused"]
    BY <1>3 DEF CreateTask, At
  <2>2. c[t].id \in Ids
    BY <2>1, SlotIsId
  <2>3. j \in Jobs /\ job \in [Jobs -> Tasks]
    BY FrameFields DEF Types
  <2>4. CASE job' = [job EXCEPT ![j].id = c[t].id]
    <3>1. job'[j].id = c[t].id /\ job'[j].kind = job[j].kind /\ \A o \in Jobs \ {j} : job'[o] = job[o]
      BY <2>3, <2>4 DEF Tasks
    <3> QED
      BY <2>2, <3>1 DEF TasksStay, KindsKeep, IdsStay
  <2>5. CASE job' = [job EXCEPT ![j].st = "refused"]
    BY <2>3, <2>5 DEF Tasks, TasksStay, KindsKeep, IdsStay
  <2> QED
    BY <1>1, <2>1, <2>4, <2>5
<1>4. ASSUME NEW t \in Threads, ReturnFuture(t) PROVE TasksStay
  <2> DEFINE jobs(j) == [job EXCEPT ![j].st = "live", ![j].future = TRUE]
  <2>1. PICK j \in c[t].job : DropByCall(t, j, jobs(j))
    BY <1>4 DEF ReturnFuture
  <2>2. j \in Jobs
    BY FrameFields
  <2>3. jobs(j) \in [Jobs -> Tasks] /\ (\A o \in Jobs \ {j} : jobs(j)[o] = job[o])
        /\ jobs(j)[j].id = job[j].id /\ jobs(j)[j].kind = job[j].kind
    BY <2>2, ReturnFacts
  <2> HIDE DEF jobs
  <2> QED
    BY <2>1, <2>2, <2>3, DropFacts DEF TasksStay, KindsKeep, IdsStay
<1>5. ASSUME NEW t \in Threads, DropError(t) PROVE TasksStay
  <2>1. PICK j \in c[t].job : DropByCall(t, j, job)
    BY <1>5 DEF DropError
  <2>2. j \in Jobs /\ job \in [Jobs -> Tasks]
    BY FrameFields DEF Types
  <2> QED
    BY <2>1, <2>2, DropFacts DEF TasksStay, KindsKeep, IdsStay
<1>6. ASSUME NEW t \in Threads, Throw(t) PROVE TasksStay
  BY <1>6 DEF Throw, TasksStay, KindsKeep, IdsStay, Types, Tasks
<1>7. ASSUME NEW t \in Threads, RunRest(t) PROVE TasksStay
  <2>1. PICK j \in c[t].job : job' = Ran(job, j, c[t].i)
    BY <1>7 DEF RunRest
  <2>2. j \in Jobs /\ c[t].i \in Nat /\ job \in [Jobs -> Tasks]
    BY FrameFields DEF Types
  <2>3. /\ \A o \in Jobs \ {j} : job'[o] = job[o]
        /\ job'[j].kind = job[j].kind /\ job'[j].id = job[j].id
    BY <2>1, <2>2, RanFacts
  <2> QED
    BY <2>3 DEF TasksStay, KindsKeep, IdsStay
<1>8. ASSUME NEW t \in Threads, DropFuture(t) PROVE TasksStay
  BY <1>8 DEF DropFuture, TasksStay, KindsKeep, IdsStay, Types, Tasks
<1>9. ASSUME NEW t \in Threads, ClearQueue(t) PROVE TasksStay
  <2> SUFFICES ASSUME NEW k \in Jobs PROVE job'[k].id = job[k].id /\ job'[k].kind = job[k].kind
    BY DEF TasksStay, KindsKeep, IdsStay
  <2>1. job'[k] = Destroyed(job, k)[k] \/ job'[k] = job[k]
    <3>1. job' = [j \in Jobs |-> IF j \in Orphans THEN Destroyed(job, j)[j] ELSE job[j]]
      BY <1>9 DEF ClearQueue
    <3> QED
      BY <3>1
  <2> QED
    BY <2>1, DestroyedFacts DEF Types
<1>10. ASSUME NEW t \in Workers, Finish(t) PROVE TasksStay
  BY <1>10, FinishFacts DEF TasksStay, KindsKeep, IdsStay
<1>11. ASSUME NEW t \in Threads, Entry(t) \/ CallDestroy(t) PROVE TasksStay
  BY <1>1, <1>2, <1>3, <1>4, <1>5, <1>6, <1>7, <1>9, <1>11
     DEF Entry, CallWait, CallStep, CallDestroy, EnqueueStep,
     OtherStep, IssueId, CheckId, AddTasks, Push, Notify, SubRest,
     MarkByCall, WorkersAreEnabled, SeeEmpty, SeeActive, Waited, ClearIds,
     ClearStatus, ExitWorkers, ExitNotify, Join
<1>12. ASSUME NEW t \in Workers, WorkerStep(t) PROVE TasksStay
  BY <1>1, <1>10, <1>12 DEF WorkerStep, Look, Fetch, Took, Precede, MarkByWorker, Missed, Rest, Wait,
     Woken
<1>13. \A t \in Clients : t \in Threads
  BY Distinct
<1> QED
  BY <1>1, <1>8, <1>11, <1>12, <1>13, StepCases DEF vars

\* AnnouncedSplits for the next state.
LEMMA AnnouncedSplitsNext ==
  ASSUME NEW t \in Threads, NEW j, c'[t].job = {j}, NEW n \in Nat, job'[j].kind.n = n
  PROVE  Announced' = Elsewhere(t)' \cup ({j} \X (From(t, n)'..(n - 1)))
<1>1. CASE t \in Enqueuing'
  <2>1. Enqueuing' = (Enqueuing' \ {t}) \cup {t}
    BY <1>1
  <2>2. UNION {Unqueued(t, k)' : k \in c'[t].job} = {j} \X (From(t, n)'..(n - 1))
    BY <1>1 DEF Unqueued, From, At, Enqueuing, Adding
  <2>3. Announced' = Elsewhere(t)' \cup UNION {Unqueued(t, k)' : k \in c'[t].job}
    BY <2>1 DEF Announced, Elsewhere
  <2> QED
    BY <2>2, <2>3
<1>2. CASE t \notin Enqueuing'
  <2>1. Enqueuing' = Enqueuing' \ {t}
    BY <1>2
  <2>2. From(t, n)' = n
    BY <1>2 DEF Enqueuing, From, Adding
  <2>3. {j} \X (n..(n - 1)) = {}
    <3>1. n..(n - 1) = {}
      OBVIOUS
    <3> QED
      BY <3>1
  <2> QED
    BY <2>1, <2>2, <2>3 DEF Announced, Elsewhere
<1> QED
  BY <1>1, <1>2

\* How the number of announced iterations changes with the iterations t has left.
LEMMA AnnouncedMoves ==
  ASSUME Types, Core, KindsKeep, IsFiniteSet(Announced), NEW t \in Threads, NEW j \in c[t].job,
         Makes(t), Others(t), c'[t].job = c[t].job, NEW n, n = job[j].kind.n,
         From(t, n)' \in Nat, From(t, n)' <= n
  PROVE  /\ IsFiniteSet(Announced') /\ From(t, n) \in Nat
         /\ Cardinality(Announced') = Cardinality(Announced) + From(t, n) - From(t, n)'
<1> DEFINE E == Elsewhere(t)
           now == From(t, n)
           next == From(t, n)'
<1>1. /\ j \in Jobs /\ job[j].st # "new" /\ n \in Nat /\ c[t].job = {j} /\ MakesInv(t)
      /\ \A u \in Threads : u # t => ~(Makes(u) /\ j \in c[u].job)
  BY Owned
<1>2. now \in Nat /\ now <= n
  <2>1. c[t].i \in Nat /\ (c[t].pc \in Adding => c[t].i < n)
    BY <1>1, FrameFields DEF MakesInv, Adding
  <2> QED
    BY <1>1, <2>1 DEF From, Adding
<1>3. Elsewhere(t)' = E
  BY ElsewhereStays
<1>4. Announced = E \cup ({j} \X (now..(n - 1)))
  BY <1>1, AnnouncedSplits
<1>5. Announced' = E \cup ({j} \X (next..(n - 1)))
  <2>1. job'[j].kind.n = n /\ c'[t].job = {j}
    BY <1>1 DEF KindsKeep
  <2>2. Announced' = Elsewhere(t)' \cup ({j} \X (From(t, n)'..(n - 1)))
    BY <1>1, <2>1, AnnouncedSplitsNext
  <2> QED
    BY <1>3, <2>2
<1>6. \A e \in E : e[1] # j
  <2>1. ASSUME NEW u \in Enqueuing \ {t}, NEW k \in c[u].job, NEW e \in Unqueued(u, k) PROVE e[1] # j
    <3>1. u \in Threads /\ Makes(u)
      BY <2>1 DEF Enqueuing, Makes, HasTask
    <3> QED
      BY <1>1, <2>1, <3>1 DEF Unqueued
  <2> QED
    BY <2>1 DEF Elsewhere
<1> DEFINE M == Span(j, now, n)
           N == Span(j, next, n)
<1>7. E \cap M = {} /\ E \cap N = {}
  BY <1>6 DEF Span
<1>8. IsFiniteSet(E) /\ Cardinality(E) \in Nat
  BY <1>4, FS_Subset, FS_CardinalityType
<1>9. next \in Nat /\ next <= n /\ n \in Nat /\ now \in Nat /\ now <= n
  BY <1>1, <1>2
<1>12. Announced = E \cup M /\ Announced' = E \cup N
  BY <1>4, <1>5 DEF Span
<1> HIDE DEF E, now, next
<1>10. ASSUME NEW lo \in Nat, lo <= n, E \cap Span(j, lo, n) = {}
       PROVE  /\ IsFiniteSet(E \cup Span(j, lo, n))
              /\ Cardinality(E \cup Span(j, lo, n)) = Cardinality(E) + (n - lo)
  BY <1>8, <1>9, <1>10, UnionSize
<1>11. /\ Cardinality(E \cup M) = Cardinality(E) + (n - now)
       /\ IsFiniteSet(E \cup N) /\ Cardinality(E \cup N) = Cardinality(E) + (n - next)
  BY <1>7, <1>9, <1>10
<1> HIDE DEF M, N
<1>13. Cardinality(Announced') = Cardinality(Announced) + now - next
  BY <1>1, <1>2, <1>8, <1>9, <1>11, <1>12
<1> QED
  BY <1>2, <1>11, <1>12, <1>13 DEF now, next

\* There are finitely many threads.
LEMMA ThreadsFinite == ASSUME OneClient PROVE IsFiniteSet(Threads)
<1>1. IsFiniteSet(Clients)
  <2>1. CASE Clients = {}
    BY <2>1, FS_EmptySet
  <2>2. CASE Clients # {}
    <3>1. PICK x : x \in Clients
      BY <2>2
    <3>2. Clients = {x}
      BY <3>1 DEF OneClient
    <3> QED
      BY <3>2, FS_Singleton
  <2> QED
    BY <2>1, <2>2
<1> QED
  BY <1>1, ManagerAssumption, FS_Union DEF Threads

\* How a step of t changes the number of calls about to notify.
LEMMA TellingMoves ==
  ASSUME OneClient, NEW t \in Threads, Others(t)
  PROVE  /\ Cardinality(Telling) \in Nat /\ Cardinality(Telling') \in Nat
         /\ c[t].pc = "notify" /\ c'[t].pc # "notify" => Cardinality(Telling') = Cardinality(Telling) - 1
         /\ c[t].pc # "notify" /\ c'[t].pc = "notify" => Cardinality(Telling') = Cardinality(Telling) + 1
         /\ (c[t].pc = "notify" <=> c'[t].pc = "notify") => Telling' = Telling
<1> DEFINE G == Telling'
<1>1. /\ Telling \subseteq Threads /\ G \subseteq Threads
      /\ \A u \in Threads \ {t} : u \in Telling <=> u \in G
      /\ t \in Telling <=> c[t].pc = "notify"
      /\ t \in G <=> c'[t].pc = "notify"
  BY DEF Telling, Others
<1> HIDE DEF G
<1>2. /\ Cardinality(Telling) \in Nat /\ Cardinality(G) \in Nat
      /\ t \in Telling /\ t \notin G => Cardinality(G) = Cardinality(Telling) - 1
      /\ t \notin Telling /\ t \in G => Cardinality(G) = Cardinality(Telling) + 1
      /\ (t \in Telling <=> t \in G) => G = Telling
  BY <1>1, ThreadsFinite, CountMove
<1> QED
  BY <1>1, <1>2 DEF G

\* How a step of worker t changes the number of workers at some places.
LEMMA InMoves ==
  ASSUME NEW t \in Workers, OtherWorkers(t), NEW A
  PROVE  /\ Cardinality(In(A)) \in Nat /\ Cardinality(In(A)') \in Nat
         /\ w[t].pc \in A /\ w'[t].pc \notin A => Cardinality(In(A)') = Cardinality(In(A)) - 1
         /\ w[t].pc \notin A /\ w'[t].pc \in A => Cardinality(In(A)') = Cardinality(In(A)) + 1
         /\ (w[t].pc \in A <=> w'[t].pc \in A) => In(A)' = In(A)
<1> DEFINE F == In(A)
           G == In(A)'
<1>1. /\ F \subseteq Workers /\ G \subseteq Workers
      /\ \A u \in Workers \ {t} : u \in F <=> u \in G
      /\ t \in F <=> w[t].pc \in A
      /\ t \in G <=> w'[t].pc \in A
  BY DEF In, OtherWorkers
<1>2. IsFiniteSet(Workers)
  BY ManagerAssumption
<1> HIDE DEF F, G
<1>3. /\ Cardinality(F) \in Nat /\ Cardinality(G) \in Nat
      /\ t \in F /\ t \notin G => Cardinality(G) = Cardinality(F) - 1
      /\ t \notin F /\ t \in G => Cardinality(G) = Cardinality(F) + 1
      /\ (t \in F <=> t \in G) => G = F
  BY <1>1, <1>2, CountMove
<1> QED
  BY <1>1, <1>3 DEF F, G

\* A call that leaves the counters, the queue and the workers alone keeps them exact.
LEMMA CountsCalm ==
  ASSUME OneClient, Types, Types', Core, Counts, ~Closing, KindsKeep,
         NEW t \in Threads, Others(t), c[t].pc \notin Adding, c'[t].pc \notin Adding,
         UNCHANGED <<num, active, queue, w>>
  PROVE  Counts'
<1>1. Announced' = Announced
  BY AnnouncedSame
<1>2. Telling' = Telling
  BY TellingMoves DEF Adding
<1>3. In({"took"})' = In({"took"}) /\ In(Awake)' = In(Awake) /\ In({"asleep"})' = In({"asleep"})
      /\ In(OnTheWay)' = In(OnTheWay)
  BY DEF In
<1>4. num' = num /\ active' = active /\ queue' = queue
  OBVIOUS
<1> QED
  BY <1>1, <1>2, <1>3, <1>4, CountsMean, CountsNext

\* After notify_all() nobody sleeps.
LEMMA CountsThrow ==
  ASSUME OneClient, Types, Types', Core, Counts, ~Closing, KindsKeep,
         NEW t \in Threads, Throw(t)
  PROVE  Counts'
<1>1. c[t].pc = "notify_all" /\ Wake(Asleep) /\ UNCHANGED <<num, active, queue>> /\ Go(t, "caught")
  BY DEF Throw, At
<1>2. Others(t) /\ c'[t].pc = "caught"
  BY <1>1, GoFacts DEF CallPcs, HasTask
<1>3. Announced' = Announced
  BY <1>1, <1>2, AnnouncedSame DEF Adding
<1>4. \A u \in Workers : \/ w'[u] = w[u] /\ w[u].pc # "asleep"
                         \/ w[u].pc = "asleep" /\ w'[u].pc = "wait"
  BY <1>1, WakeFacts, RestingFrame DEF Asleep, WorkerPcs
<1>5. In({"took"})' = In({"took"}) /\ In(Awake)' = In(Awake) /\ In({"asleep"})' = {}
  BY <1>4 DEF In, Awake
<1> QED
  BY <1>1, <1>3, <1>5, CountsMean, CountsNext

\* What a call that announces iterations makes of the counters.
LEMMA CountsAdd ==
  ASSUME OneClient, Types, Types', Core, Counts, ~Closing, KindsKeep,
         NEW t \in Threads, AddTasks(t)
  PROVE  Counts'
<1>1. PICK j \in c[t].job : c[t].pc = "add" /\ num' = num + job[j].kind.n /\ Go(t, "push")
                            /\ UNCHANGED <<active, queue, w>>
  BY DEF AddTasks, At
<1>0. PICK n : n = job[j].kind.n
  OBVIOUS
<1>2. Others(t) /\ c'[t].pc = "push" /\ c'[t].job = c[t].job /\ c'[t].i = c[t].i
  BY <1>1, GoFacts DEF CallPcs, HasTask
<1>3. Makes(t)
  BY <1>1 DEF Makes, HasTask
<1>4. n \in Nat /\ Shape(t)
  BY <1>0, <1>3, Owned
<1>5. From(t, n) = n /\ From(t, n)' = 0
  BY <1>1, <1>2, <1>4 DEF From, Adding, Shape
<1>6. IsFiniteSet(Announced') /\ Cardinality(Announced') = Cardinality(Announced) + n
  <2>1. From(t, n)' \in Nat /\ From(t, n)' <= n
    BY <1>4, <1>5
  <2>2. IsFiniteSet(Announced)
    BY DEF Counts
  <2>4. /\ IsFiniteSet(Announced')
        /\ Cardinality(Announced') = Cardinality(Announced) + From(t, n) - From(t, n)'
    BY <1>0, <1>2, <1>3, <2>1, <2>2, AnnouncedMoves
  <2>5. Cardinality(Announced) \in Nat
    BY <2>2, FS_CardinalityType
  <2> QED
    BY <1>4, <1>5, <2>4, <2>5
<1>7. Telling' = Telling
  BY <1>1, <1>2, TellingMoves
<1>8. In({"took"})' = In({"took"}) /\ In(Awake)' = In(Awake) /\ In({"asleep"})' = In({"asleep"})
      /\ In(OnTheWay)' = In(OnTheWay)
  BY <1>1 DEF In
<1>9. num' = num + n /\ active' = active /\ queue' = queue
  BY <1>0, <1>1
<1>10. Cardinality(In({"took"})) \in Nat
  BY ManagerAssumption, FS_Subset, FS_CardinalityType DEF In
<1> QED
  BY <1>4, <1>6, <1>7, <1>8, <1>9, <1>10, CountsMean, CountsNext

\* AnnouncedMoves, for known numbers of iterations left.
LEMMA AnnouncedTo ==
  ASSUME Types, Core, Counts, ~Closing, KindsKeep,
         NEW t \in Threads, NEW j \in c[t].job, Makes(t), Others(t), c'[t].job = c[t].job,
         NEW n, n = job[j].kind.n, NEW a, NEW b \in Nat, From(t, n) = a, From(t, n)' = b, b <= n
  PROVE  /\ IsFiniteSet(Announced') /\ a \in Nat
         /\ Cardinality(Announced') = Cardinality(Announced) + a - b
<1>1. IsFiniteSet(Announced)
  BY DEF Counts
<1>2. From(t, n)' \in Nat /\ From(t, n)' <= n
  OBVIOUS
<1>3. /\ IsFiniteSet(Announced') /\ From(t, n) \in Nat
      /\ Cardinality(Announced') = Cardinality(Announced) + From(t, n) - From(t, n)'
  BY <1>1, <1>2, AnnouncedMoves
<1> QED
  BY <1>3

\* No worker moves.
LEMMA SameWorkers ==
  ASSUME w' = w
  PROVE  /\ In({"took"})' = In({"took"}) /\ In(Awake)' = In(Awake)
         /\ In({"asleep"})' = In({"asleep"}) /\ In(OnTheWay)' = In(OnTheWay)
BY DEF In

\* The number of workers at some places.
LEMMA SizesOfIn == ASSUME NEW A PROVE Cardinality(In(A)) \in Nat
BY ManagerAssumption, FS_Subset, FS_CardinalityType DEF In

\* A push moves an iteration from the announced to the queued, and the call is
\* about to notify.
LEMMA CountsPush ==
  ASSUME OneClient, Types, Types', Core, Counts, ~Closing, KindsKeep,
         NEW t \in Threads, Push(t)
  PROVE  Counts'
<1>1. PICK j \in c[t].job :
        /\ c[t].pc = "push" /\ UNCHANGED <<num, active, w>>
        /\ \/ queue' = Append(queue, <<j, c[t].i>>) /\ Go(t, "notify")
           \/ queue' = queue /\ Go(t, "sub")
  BY DEF Push, At
<1>2. PICK n : n = job[j].kind.n
  OBVIOUS
<1>3. Makes(t)
  BY <1>1 DEF Makes, HasTask
<1>4. n \in Nat /\ c[t].i \in Nat /\ c[t].i < n /\ j \in Jobs
  BY <1>1, <1>2, <1>3, Owned, FrameFields DEF MakesInv
<1>5. From(t, n) = c[t].i
  BY <1>1 DEF From, Adding
<1>6. CASE queue' = Append(queue, <<j, c[t].i>>) /\ Go(t, "notify")
  <2>1. Others(t) /\ c'[t].pc = "notify" /\ c'[t].job = c[t].job /\ c'[t].i = c[t].i
    BY <1>6, GoFacts DEF CallPcs, HasTask
  <2>2. From(t, n)' = c[t].i + 1
    BY <2>1 DEF From
  <2>3. c[t].i + 1 \in Nat /\ c[t].i + 1 <= n
    BY <1>4
  <2>4. /\ IsFiniteSet(Announced')
        /\ Cardinality(Announced') = Cardinality(Announced) + c[t].i - (c[t].i + 1)
    BY <1>2, <1>3, <1>5, <2>1, <2>2, <2>3, AnnouncedTo
  <2>5. Len(queue') = Len(queue) + 1
    BY <1>4, <1>6, AppendProperties DEF Types
  <2>6. Cardinality(Telling) \in Nat /\ Cardinality(Telling') = Cardinality(Telling) + 1
    BY <1>1, <2>1, TellingMoves
  <2>7. Cardinality(Announced) \in Nat /\ Cardinality(Announced') = Cardinality(Announced) - 1
    BY <1>4, <2>4, CountsMean
  <2>8. num' = Cardinality(Announced') + Len(queue') + Cardinality(In({"took"})')
    BY <1>1, <2>5, <2>7, CountsMean, SameWorkers, SizesOfIn
  <2>9. In({"asleep"})' # {} => Len(queue') <= Cardinality(In(OnTheWay)') + Cardinality(Telling')
    BY <1>1, <2>5, <2>6, CountsMean, SameWorkers, SizesOfIn
  <2> QED
    BY <1>1, <2>4, <2>8, <2>9, CountsMean, SameWorkers, CountsNext
<1>7. CASE queue' = queue /\ Go(t, "sub")
  <2>1. Others(t) /\ c'[t].pc = "sub" /\ c'[t].job = c[t].job /\ c'[t].i = c[t].i
    BY <1>7, GoFacts DEF CallPcs, HasTask
  <2>2. From(t, n)' = c[t].i /\ c[t].i <= n
    BY <1>4, <2>1 DEF From, Adding
  <2>4. /\ IsFiniteSet(Announced')
        /\ Cardinality(Announced') = Cardinality(Announced) + c[t].i - c[t].i
    BY <1>2, <1>3, <1>4, <1>5, <2>1, <2>2, AnnouncedTo
  <2>5. Cardinality(Announced') = Cardinality(Announced)
    BY <1>4, <2>4, CountsMean
  <2>6. Telling' = Telling
    BY <1>1, <2>1, TellingMoves
  <2> QED
    BY <1>1, <1>7, <2>4, <2>5, <2>6, CountsMean, SameWorkers, CountsNext
<1> QED
  BY <1>1, <1>6, <1>7

\* After an overflow the counter loses the iterations left.
LEMMA CountsSub ==
  ASSUME OneClient, Types, Types', Core, Counts, ~Closing, KindsKeep,
         NEW t \in Threads, SubRest(t)
  PROVE  Counts'
<1>1. PICK j \in c[t].job :
        /\ c[t].pc = "sub" /\ UNCHANGED <<queue, active, w>>
        /\ num' = num - (job[j].kind.n - c[t].i) /\ Go(t, "notify_all")
  BY DEF SubRest, At
<1>2. PICK n : n = job[j].kind.n
  OBVIOUS
<1>3. Makes(t)
  BY <1>1 DEF Makes, HasTask
<1>4. n \in Nat /\ c[t].i \in Nat /\ c[t].i < n
  BY <1>1, <1>2, <1>3, Owned, FrameFields DEF MakesInv
<1>5. Others(t) /\ c'[t].pc = "notify_all" /\ c'[t].job = c[t].job
  BY <1>1, GoFacts DEF CallPcs, HasTask
<1>6. From(t, n) = c[t].i /\ From(t, n)' = n /\ n <= n
  BY <1>1, <1>4, <1>5 DEF From, Adding
<1>7. /\ IsFiniteSet(Announced')
      /\ Cardinality(Announced') = Cardinality(Announced) + c[t].i - n
  BY <1>2, <1>3, <1>4, <1>5, <1>6, AnnouncedTo
<1>8. Telling' = Telling
  BY <1>1, <1>5, TellingMoves
<1>9. num' = num - (n - c[t].i)
  BY <1>1, <1>2
<1>10. num' = Cardinality(Announced') + Len(queue) + Cardinality(In({"took"}))
  <2>1. PICK a, b, q, i, d : /\ a = Cardinality(Announced) /\ b = Cardinality(In({"took"}))
                             /\ q = Len(queue) /\ i = c[t].i /\ d = Cardinality(Announced')
    OBVIOUS
  <2>2. /\ a \in Nat /\ b \in Nat /\ q \in Nat /\ i \in Nat /\ n \in Nat
        /\ num = a + q + b /\ d = a + i - n /\ num' = num - (n - i)
    BY <2>1, <1>4, <1>7, <1>9, CountsMean, SizesOfIn
  <2>3. num' = d + q + b
    BY <2>2
  <2> QED
    BY <2>1, <2>3
<1> QED
  BY <1>1, <1>7, <1>8, <1>10, CountsMean, SameWorkers, CountsNext

\* A notification sends a sleeper on its way, unless nobody sleeps.
LEMMA CountsNotify ==
  ASSUME OneClient, Types, Types', Core, Counts, ~Closing, KindsKeep,
         NEW t \in Threads, Notify(t)
  PROVE  Counts'
<1>1. PICK j \in c[t].job :
        /\ c[t].pc = "notify" /\ Others(t) /\ c'[t].job = c[t].job
        /\ \/ c[t].i + 1 < job[j].kind.n /\ c'[t].pc = "push" /\ c'[t].i = c[t].i + 1
           \/ ~(c[t].i + 1 < job[j].kind.n) /\ c'[t].pc = "return" /\ c'[t].i = c[t].i
        /\ UNCHANGED <<num, active, queue>>
  BY NextFacts
<1>2. PICK n : n = job[j].kind.n
  OBVIOUS
<1>3. Makes(t)
  BY <1>1 DEF Makes, HasTask
<1>4. n \in Nat /\ c[t].i \in Nat /\ c[t].i < n
  BY <1>1, <1>2, <1>3, Owned, FrameFields DEF MakesInv
<1>5. From(t, n) = c[t].i + 1
  BY <1>1 DEF From
<1>6. From(t, n)' = c[t].i + 1
  BY <1>1, <1>2, <1>4 DEF From, Adding
<1>7. c[t].i + 1 \in Nat /\ c[t].i + 1 <= n
  BY <1>4
<1>8. /\ IsFiniteSet(Announced')
      /\ Cardinality(Announced') = Cardinality(Announced) + (c[t].i + 1) - (c[t].i + 1)
  BY <1>1, <1>2, <1>3, <1>5, <1>6, <1>7, AnnouncedTo
<1>9. Cardinality(Announced') = Cardinality(Announced)
  BY <1>7, <1>8, CountsMean
<1>10. Cardinality(Telling) \in Nat /\ Cardinality(Telling') = Cardinality(Telling) - 1
  BY <1>1, TellingMoves
<1>11. CASE Asleep = {} /\ UNCHANGED w
  <2>1. In({"asleep"})' = {}
    BY <1>11 DEF In, Asleep
  <2> QED
    BY <1>1, <1>8, <1>9, <1>11, <2>1, CountsMean, SameWorkers, CountsNext
<1>12. CASE \E u \in Asleep : Wake({u})
  <2>1. PICK u \in Asleep : Wake({u})
    BY <1>12
  <2>2. u \in Workers /\ OtherWorkers(u) /\ w[u].pc = "asleep" /\ w'[u].pc = "wait"
    BY <2>1, WakeFacts, RestingFrame DEF Asleep, WorkerPcs, OtherWorkers
  <2>3. In({"took"})' = In({"took"}) /\ In(Awake)' = In(Awake)
    BY <2>2, InMoves DEF Awake
  <2>4. Cardinality(In(OnTheWay)') = Cardinality(In(OnTheWay)) + 1
    BY <2>2, InMoves DEF OnTheWay
  <2>5. In({"asleep"}) # {}
    BY <2>2 DEF In
  <2>6. Len(queue') <= Cardinality(In(OnTheWay)') + Cardinality(Telling')
    BY <1>1, <1>10, <2>4, <2>5, CountsMean, SizesOfIn
  <2> QED
    BY <1>1, <1>8, <1>9, <2>3, <2>6, CountsMean, CountsNext
<1> QED
  BY <1>11, <1>12 DEF Notify, NotifyOne

\* A step of a worker announces nothing.
LEMMA AnnouncedStays ==
  ASSUME Types, Core, KindsKeep, c' = c
  PROVE  Announced' = Announced /\ Telling' = Telling
<1>1. Enqueuing' = Enqueuing /\ Telling' = Telling
  BY DEF Enqueuing, Telling
<1>2. ASSUME NEW u \in Enqueuing, NEW j \in c[u].job PROVE Unqueued(u, j)' = Unqueued(u, j)
  <2>1. u \in Threads /\ Makes(u)
    BY DEF Enqueuing, Makes, HasTask
  <2>2. job'[j].kind = job[j].kind
    BY <2>1, FrameFields, AliveIsOld DEF KindsKeep
  <2> QED
    BY <2>1, <2>2 DEF Unqueued, At
<1>3. \A u \in Enqueuing : {Unqueued(u, j)' : j \in c'[u].job} = {Unqueued(u, j) : j \in c[u].job}
  BY <1>2
<1> QED
  BY <1>1, <1>3 DEF Announced

\* A worker that moves on, busy or on its way to the queue as before.
LEMMA CountsRoam ==
  ASSUME OneClient, Types, Types', Core, Counts, ~Closing, KindsKeep, c' = c,
         UNCHANGED <<num, active, queue>>,
         NEW t \in Workers, OtherWorkers(t),
         w[t].pc # "took", w'[t].pc # "took",
         w[t].pc \in {"wait", "asleep", "woken"} <=> w'[t].pc \in {"wait", "asleep", "woken"},
         w[t].pc # "asleep", w'[t].pc # "asleep",
         w[t].pc \in OnTheWay => w'[t].pc \in OnTheWay
  PROVE  Counts'
<1>1. Announced' = Announced /\ Telling' = Telling
  BY AnnouncedStays
<1>2. In({"took"})' = In({"took"}) /\ In({"asleep"})' = In({"asleep"})
  BY InMoves
<1>3. In(Awake)' = In(Awake)
  <2>1. w[t].pc \in WorkerPcs /\ w'[t].pc \in WorkerPcs
    BY WorkerFields DEF Types, WorkerFrames
  <2>2. w[t].pc \in Awake <=> w'[t].pc \in Awake
    BY <2>1 DEF Awake
  <2> QED
    BY <2>2, InMoves
<1>4. Cardinality(In(OnTheWay)') \in Nat /\ Cardinality(In(OnTheWay)') >= Cardinality(In(OnTheWay))
  <2>1. CASE w[t].pc \in OnTheWay
    BY <2>1, InMoves
  <2>2. CASE w[t].pc \notin OnTheWay /\ w'[t].pc \in OnTheWay
    BY <2>2, InMoves
  <2>3. CASE w[t].pc \notin OnTheWay /\ w'[t].pc \notin OnTheWay
    BY <2>3, InMoves
  <2> QED
    BY <2>1, <2>2, <2>3
<1>5. Cardinality(Telling) \in Nat
  BY ThreadsFinite, FS_Subset, FS_CardinalityType DEF Telling
<1>6. In({"asleep"})' # {} => Len(queue') <= Cardinality(In(OnTheWay)') + Cardinality(Telling')
  BY <1>1, <1>2, <1>4, <1>5, CountsMean, SizesOfIn
<1> QED
  BY <1>1, <1>2, <1>3, <1>6, CountsMean, CountsNext

\* A fetch shortens the queue and takes a worker off its way.
LEMMA CountsFetch ==
  ASSUME OneClient, Types, Types', Core, Counts, ~Closing, KindsKeep,
         NEW t \in Workers, Fetch(t), queue # <<>>
  PROVE  Counts'
<1>1. /\ w[t].pc = "fetch" /\ OtherWorkers(t) /\ w'[t].pc = "took"
      /\ queue' = Tail(queue) /\ UNCHANGED <<num, active, c>>
  <2>1. /\ w[t].pc = "fetch" /\ queue' = Tail(queue) /\ UNCHANGED <<num, active, c>>
        /\ WPut(t, [pc |-> "took", job |-> {Head(queue)[1]}, i |-> Head(queue)[2]])
    BY DEF Fetch, WAt
  <2> QED
    BY <2>1 DEF WPut, Types, OtherWorkers
<1>2. Announced' = Announced /\ Telling' = Telling
  BY <1>1, AnnouncedStays
<1>3. /\ Cardinality(In({"took"})') = Cardinality(In({"took"})) + 1
      /\ In({"asleep"})' = In({"asleep"})
  BY <1>1, InMoves
<1>4. In(Awake)' = In(Awake)
  BY <1>1, InMoves DEF Awake, WorkerPcs, Running
<1>5. Cardinality(In(OnTheWay)') = Cardinality(In(OnTheWay)) - 1
  BY <1>1, InMoves DEF OnTheWay
<1>6. Len(queue') = Len(queue) - 1 /\ Len(queue) \in Nat
  BY <1>1, HeadTailProperties, LenProperties DEF Types
<1>7. Cardinality(Telling) \in Nat
  BY ThreadsFinite, FS_Subset, FS_CardinalityType DEF Telling
<1>8. num' = Cardinality(Announced') + Len(queue') + Cardinality(In({"took"})')
  BY <1>1, <1>2, <1>3, <1>6, CountsMean, SizesOfIn
<1>9. In({"asleep"})' # {} => Len(queue') <= Cardinality(In(OnTheWay)') + Cardinality(Telling')
  BY <1>2, <1>3, <1>5, <1>6, <1>7, CountsMean, SizesOfIn
<1> QED
  BY <1>1, <1>2, <1>4, <1>8, <1>9, CountsMean, CountsNext

\* The worker counts the iteration it took.
LEMMA CountsTook ==
  ASSUME OneClient, Types, Types', Core, Counts, ~Closing, KindsKeep, NEW t \in Workers, Took(t)
  PROVE  Counts'
<1>1. /\ w[t].pc = "took" /\ num' = num - 1 /\ UNCHANGED <<active, queue, c>>
      /\ OtherWorkers(t) /\ w'[t].pc = "precede"
  <2>1. w[t].pc = "took" /\ WGo(t, "precede") /\ num' = num - 1 /\ UNCHANGED <<active, queue, c>>
    BY DEF Took, WAt
  <2> QED
    BY <2>1, WGoFacts DEF WorkerPcs, Running
<1>2. Announced' = Announced /\ Telling' = Telling
  BY <1>1, AnnouncedStays
<1>3. /\ Cardinality(In({"took"})') = Cardinality(In({"took"})) - 1
      /\ In({"asleep"})' = In({"asleep"})
  BY <1>1, InMoves
<1>4. In(Awake)' = In(Awake)
  BY <1>1, InMoves DEF Awake, WorkerPcs, Running
<1>5. In(OnTheWay)' = In(OnTheWay)
  BY <1>1, InMoves DEF OnTheWay
<1>6. num' = Cardinality(Announced') + Len(queue') + Cardinality(In({"took"})')
  BY <1>1, <1>2, <1>3, CountsMean, SizesOfIn
<1> QED
  BY <1>1, <1>2, <1>3, <1>4, <1>5, <1>6, CountsMean, CountsNext

\* The two updates of num_of_active_workers_.
LEMMA CountsRest ==
  ASSUME OneClient, Types, Types', Core, Counts, ~Closing, KindsKeep,
         NEW t \in Workers, Rest(t) \/ Woken(t)
  PROVE  Counts'
<1>1. /\ UNCHANGED <<num, queue, c>> /\ OtherWorkers(t)
      /\ \/ w[t].pc = "rest" /\ w'[t].pc = "wait" /\ active' = active - 1
         \/ w[t].pc = "woken" /\ w'[t].pc = "look" /\ active' = active + 1
  <2>1. /\ UNCHANGED <<num, queue, c>>
        /\ \/ w[t].pc = "rest" /\ WGo(t, "wait") /\ active' = active - 1
           \/ w[t].pc = "woken" /\ WGo(t, "look") /\ active' = active + 1
    BY DEF Rest, Woken, WAt
  <2> QED
    BY <2>1, WGoFacts DEF WorkerPcs
<1>2. Announced' = Announced /\ Telling' = Telling
  BY <1>1, AnnouncedStays
<1>3. In({"took"})' = In({"took"}) /\ In({"asleep"})' = In({"asleep"})
  BY <1>1, InMoves
<1>4. In(OnTheWay)' = In(OnTheWay)
  BY <1>1, InMoves DEF OnTheWay
<1>5. active' = Cardinality(In(Awake)')
  <2>1. \/ /\ w[t].pc \in Awake /\ w'[t].pc \notin Awake /\ active' = active - 1
        \/ /\ w[t].pc \notin Awake /\ w'[t].pc \in Awake /\ active' = active + 1
    BY <1>1 DEF Awake, WorkerPcs
  <2> QED
    BY <1>1, <2>1, InMoves, CountsMean
<1> QED
  BY <1>1, <1>2, <1>3, <1>4, <1>5, CountsMean, CountsNext

\* A worker falls asleep only when the counter, hence the queue, is empty.
LEMMA CountsWait ==
  ASSUME OneClient, Types, Types', Core, Counts, ~Closing, KindsKeep, NEW t \in Workers, Wait(t)
  PROVE  Counts'
<1>1. /\ UNCHANGED <<num, active, queue, c>> /\ OtherWorkers(t) /\ w[t].pc = "wait"
      /\ w'[t].pc = (IF num = 0 THEN "asleep" ELSE "woken")
  <2>1. /\ UNCHANGED <<num, active, queue, c>> /\ w[t].pc = "wait"
        /\ WGo(t, IF num = 0 THEN "asleep" ELSE "woken")
    BY DEF Wait, WAt
  <2> QED
    BY <2>1, WGoFacts DEF WorkerPcs
<1>2. Announced' = Announced /\ Telling' = Telling
  BY <1>1, AnnouncedStays
<1>3. In({"took"})' = In({"took"})
  BY <1>1, InMoves
<1>4. In(Awake)' = In(Awake)
  BY <1>1, InMoves DEF Awake
<1>5. Cardinality(Telling) \in Nat /\ Cardinality(In(OnTheWay)') \in Nat
  BY <1>1, InMoves, ThreadsFinite, FS_Subset, FS_CardinalityType DEF Telling
<1>6. In({"asleep"})' # {} => Len(queue') <= Cardinality(In(OnTheWay)') + Cardinality(Telling')
  <2>1. CASE num = 0
    BY <1>1, <1>2, <1>5, <2>1, CountsMean
  <2>2. CASE num # 0
    <3>1. In({"asleep"})' = In({"asleep"})
      BY <1>1, <2>2, InMoves
    <3>2. In(OnTheWay)' = In(OnTheWay)
      BY <1>1, <2>2, InMoves DEF OnTheWay
    <3> QED
      BY <1>1, <1>2, <3>1, <3>2, CountsMean
  <2> QED
    BY <2>1, <2>2
<1> QED
  BY <1>1, <1>2, <1>3, <1>4, <1>6, CountsMean, CountsNext

\* Every step of a worker keeps the counters exact and no sleeper forgotten.
LEMMA CountsWorker ==
  ASSUME OneClient, Types, Types', Core, Counts, ~Closing, KindsKeep,
         NEW t \in Workers, WorkerStep(t)
  PROVE  Counts'
<1>1. CASE Look(t)
  <2>1. /\ w[t].pc = "look" /\ UNCHANGED <<num, active, queue, c>>
        /\ WGo(t, IF 0 <= num THEN "fetch" ELSE "exited")
    BY <1>1 DEF Look, WAt
  <2>2. 0 <= num
    BY Counted
  <2>3. OtherWorkers(t) /\ w'[t].pc = "fetch"
    BY <2>1, <2>2, WGoFacts DEF WorkerPcs
  <2> QED
    BY <2>1, <2>3, CountsRoam DEF OnTheWay
<1>2. CASE Fetch(t) /\ queue = <<>>
  <2>1. w[t].pc = "fetch" /\ UNCHANGED <<num, active, queue, c>> /\ WGo(t, "missed")
    BY <1>2 DEF Fetch, WAt
  <2>2. OtherWorkers(t) /\ w'[t].pc = "missed"
    BY <2>1, WGoFacts DEF WorkerPcs
  <2> QED
    BY <2>1, <2>2, CountsRoam DEF OnTheWay
<1>3. CASE Precede(t)
  <2>1. w[t].pc = "precede" /\ UNCHANGED <<num, active, queue, c>> /\ WGo(t, "body")
    BY <1>3 DEF Precede, WAt
  <2>2. OtherWorkers(t) /\ w'[t].pc = "body"
    BY <2>1, WGoFacts DEF WorkerPcs, Running
  <2> QED
    BY <2>1, <2>2, CountsRoam DEF OnTheWay
<1>4. CASE Finish(t)
  BY <1>4, FinishFacts, CountsRoam DEF OnTheWay
<1>5. CASE MarkByWorker(t)
  <2>1. w[t].pc = "mark" /\ UNCHANGED <<num, active, queue, c>> /\ WPut(t, Resting("look"))
    BY <1>5 DEF MarkByWorker, WAt
  <2>2. OtherWorkers(t) /\ w'[t].pc = "look"
    BY <2>1, WPutFacts, RestingFrame DEF WorkerPcs
  <2> QED
    BY <2>1, <2>2, CountsRoam DEF OnTheWay
<1>6. CASE Missed(t)
  <2>1. /\ w[t].pc = "missed" /\ UNCHANGED <<num, active, queue, c>>
        /\ WGo(t, IF 0 < num THEN "look" ELSE "rest")
    BY <1>6 DEF Missed, WAt
  <2>2. OtherWorkers(t) /\ w'[t].pc \in {"look", "rest"}
    BY <2>1, WGoFacts DEF WorkerPcs
  <2> QED
    BY <2>1, <2>2, CountsRoam DEF OnTheWay
<1> QED
  BY <1>1, <1>2, <1>3, <1>4, <1>5, <1>6, CountsFetch, CountsTook, CountsRest, CountsWait DEF WorkerStep

\* So does every step of a call on a manager that nobody destroys.
LEMMA CountsEntry ==
  ASSUME OneClient, Types, Types', ClosingInv, Core, Counts, ~Closing, KindsKeep,
         NEW t \in Threads, Entry(t)
  PROVE  Counts'
<1>1. c[t].after # "gone" /\ c[t].pc \notin Joining /\ ~Over
  <2>1. c[t].after # "gone" /\ ~Over
    BY DEF Closing, ClosingInv, Over
  <2> QED
    BY <2>1 DEF Core, CallInv, Shape
<1>2. ~(ExitWorkers(t) \/ ExitNotify(t) \/ Join(t))
  BY <1>1 DEF ExitWorkers, ExitNotify, Join, At, Joining
<1>3. Others(t) /\ (Announces(t) \/ (c[t].pc \notin Adding /\ c'[t].pc \notin Adding))
  BY <1>1, EntryFrames
<1>4. CASE Announces(t)
  BY <1>4, CountsAdd, CountsPush, CountsNotify, CountsSub DEF Announces
<1>5. CASE Throw(t)
  BY <1>5, CountsThrow
<1>6. CASE ~Announces(t) /\ ~Throw(t)
  <2>1. UNCHANGED <<num, active, queue, w>>
    <3>1. CASE ClearQueue(t)
      <4>1. queue = <<>>
        <5>1. c[t].pc = "clear_queue"
          BY <3>1 DEF ClearQueue, At
        <5>2. t \in Clients /\ c[t].pc \in QuietPcs
          BY <1>1, <5>1, ClearerIsClient DEF Clearing
        <5> QED
          BY <5>2, QuietMeans DEF Quiet
      <4> QED
        BY <3>1, <4>1 DEF ClearQueue
    <3> QED
      BY <1>2, <1>6, <3>1 DEF Entry, Enqueue, CallWait, CallStep, EnqueueStep, OtherStep, Announces,
         IssueId, CheckId, CreateTask, ReturnFuture, RunRest, DropError, MarkByCall,
         WorkersAreEnabled, SeeEmpty, SeeActive, Waited, ClearIds, ClearStatus
  <2> QED
    BY <1>3, <1>6, <2>1, CountsCalm
<1> QED
  BY <1>4, <1>5, <1>6

\* Every step keeps the counters exact.
LEMMA CountsStep ==
  ASSUME OneClient, Types, Types', ClosingInv, Core, Counts, [Next]_vars
  PROVE  Counts'
<1>1. CASE Closing'
  BY <1>1 DEF Counts, WorkIsAnnounced, CountersAgree, SleepersAreCalled
<1>2. CASE ~Closing'
  <2>1. ~Closing
    BY <1>2, ClosingStep
  <2>2. KindsKeep
    BY TasksStep DEF TasksStay
  <2>3. ASSUME NEW t \in Threads, CallDestroy(t) PROVE FALSE
    BY <1>2, <2>3, DestroyFrames DEF Closing
  <2>4. ASSUME UNCHANGED <<num, active, queue, w, c>> PROVE Counts'
    <3>1. Announced' = Announced /\ Telling' = Telling
      BY <2>2, <2>4, AnnouncedStays
    <3>2. num' = num /\ active' = active /\ queue' = queue /\ w' = w
      BY <2>4
    <3> QED
      BY <2>1, <3>1, <3>2, SameWorkers, CountsMean, CountsNext
  <2>5. ASSUME NEW t \in Clients, DropFuture(t) PROVE Counts'
    BY <2>4, <2>5 DEF DropFuture
  <2> QED
    BY <2>1, <2>2, <2>3, <2>4, <2>5, CountsEntry, CountsWorker, StepCases DEF vars
<1> QED
  BY <1>1, <1>2
-----------------------------------------------------------------------------
(* What TypeOK says beyond Types.                                           *)

Ranges ==
  /\ Len(queue) <= Capacity /\ status \subseteq Ids /\ used \in [Ids -> 0..SlotRoom]
  /\ \A j \in Jobs : job[j].id \in Ids

\* Every step keeps the ranges.
LEMMA RangesStep ==
  ASSUME Types, Core, Ranges, [Next]_vars
  PROVE  Ranges'
<1>1. \A j \in Jobs : job'[j].id \in Ids
  BY TasksStep DEF TasksStay, IdsStay, Ranges
<1>2. Len(queue') <= Capacity
  <2>1. CASE queue' = queue
    BY <2>1 DEF Ranges
  <2>2. ASSUME NEW t \in Threads, Push(t) PROVE Len(queue') <= Capacity
    <3>1. PICK j \in c[t].job : \/ Len(queue) < Capacity /\ queue' = Append(queue, <<j, c[t].i>>)
                                \/ queue' = queue
      BY <2>2 DEF Push
    <3>2. j \in Jobs /\ c[t].i \in Nat
      BY FrameFields
    <3>3. CASE Len(queue) < Capacity /\ queue' = Append(queue, <<j, c[t].i>>)
      <4>1. Len(queue') = Len(queue) + 1 /\ Len(queue) \in Nat
        BY <3>2, <3>3, AppendProperties, LenProperties DEF Types
      <4> QED
        BY <3>3, <4>1, ManagerAssumption
    <3> QED
      BY <2>1, <3>1, <3>3
  <2>3. ASSUME NEW t \in Workers, Fetch(t) PROVE Len(queue') <= Capacity
    <3>1. CASE queue # <<>> /\ queue' = Tail(queue)
      <4>1. Len(queue') = Len(queue) - 1 /\ Len(queue) \in Nat
        BY <3>1, HeadTailProperties, LenProperties DEF Types
      <4> QED
        BY <4>1, ManagerAssumption DEF Ranges
    <3> QED
      BY <2>1, <2>3, <3>1 DEF Fetch
  <2>4. ASSUME NEW t \in Threads, ClearQueue(t) PROVE Len(queue') <= Capacity
    <3>1. Len(queue') = 0
      BY <2>4, EmptySeq DEF ClearQueue
    <3> QED
      BY <3>1, ManagerAssumption
  <2>5. ASSUME NEW t \in Threads, Entry(t) \/ CallDestroy(t) PROVE Len(queue') <= Capacity
    BY <2>1, <2>2, <2>4, <2>5 DEF Entry, Enqueue, CallWait, CallStep, CallDestroy, EnqueueStep,
       OtherStep, IssueId, CheckId, CreateTask, AddTasks, Notify, ReturnFuture, SubRest, Throw, RunRest,
       DropError, MarkByCall, WorkersAreEnabled, SeeEmpty, SeeActive, Waited, ClearIds,
       ClearStatus, ExitWorkers, ExitNotify, Join
  <2>6. ASSUME NEW t \in Workers, WorkerStep(t) PROVE Len(queue') <= Capacity
    BY <2>1, <2>3, <2>6 DEF WorkerStep, Look, Took, Precede, Finish, MarkByWorker, Missed, Rest, Wait,
       Woken
  <2> QED
    BY <2>1, <2>5, <2>6, StepCases DEF vars, DropFuture
<1>3. status' \subseteq Ids
  <2>1. CASE status' = status
    BY <2>1 DEF Ranges
  <2>2. ASSUME NEW j \in Jobs, status' = status \cup {job[j].id} PROVE status' \subseteq Ids
    BY <2>2 DEF Ranges
  <2>3. ASSUME NEW t \in Threads, MarkByCall(t) PROVE status' \subseteq Ids
    BY <2>2, <2>3, FrameFields DEF MarkByCall
  <2>4. ASSUME NEW t \in Workers, MarkByWorker(t) PROVE status' \subseteq Ids
    BY <2>2, <2>4, WorkerFields DEF MarkByWorker
  <2>5. ASSUME NEW t \in Threads, ClearQueue(t) PROVE status' \subseteq Ids
    BY <2>5 DEF ClearQueue, Orphans, Ranges
  <2>6. ASSUME NEW t \in Threads, Entry(t) \/ CallDestroy(t) PROVE status' \subseteq Ids
    BY <2>1, <2>3, <2>5, <2>6 DEF Entry, Enqueue, CallWait, CallStep, CallDestroy, EnqueueStep,
       OtherStep, IssueId, CheckId, CreateTask, AddTasks, Push, Notify, ReturnFuture, SubRest, Throw,
       RunRest, DropError, WorkersAreEnabled, SeeEmpty, SeeActive, Waited, ClearIds,
       ClearStatus, ExitWorkers, ExitNotify, Join
  <2>7. ASSUME NEW t \in Workers, WorkerStep(t) PROVE status' \subseteq Ids
    BY <2>1, <2>4, <2>7 DEF WorkerStep, Look, Fetch, Took, Precede, Finish, Missed, Rest, Wait, Woken
  <2> QED
    BY <2>1, <2>6, <2>7, StepCases DEF vars, DropFuture
<1>4. used' \in [Ids -> 0..SlotRoom]
  <2>1. CASE used' = used
    BY <2>1 DEF Ranges
  <2>2. ASSUME NEW t \in Threads, CreateTask(t) PROVE used' \in [Ids -> 0..SlotRoom]
    <3>1. PICK n : /\ n \in {0, used[c[t].id]} /\ c[t].pc = "slot"
                   /\ used' = used \/ (n < SlotRoom /\ used' = [used EXCEPT ![c[t].id] = n + 1])
      BY <2>2 DEF CreateTask, At
    <3>2. c[t].id \in Ids
      BY <3>1, SlotIsId
    <3>3. n \in 0..SlotRoom
      BY <3>1, <3>2, ManagerAssumption DEF Ranges
    <3>4. n < SlotRoom => n + 1 \in 0..SlotRoom
      BY <3>3, ManagerAssumption
    <3> QED
      BY <3>1, <3>2, <3>4 DEF Ranges
  <2>3. ASSUME NEW t \in Threads, Entry(t) \/ CallDestroy(t) PROVE used' \in [Ids -> 0..SlotRoom]
    BY <2>1, <2>2, <2>3 DEF Entry, Enqueue, CallWait, CallStep, CallDestroy, EnqueueStep,
       OtherStep, IssueId, CheckId, AddTasks, Push, Notify, ReturnFuture, SubRest, Throw,
       RunRest, DropError, MarkByCall, WorkersAreEnabled, SeeEmpty, SeeActive, Waited, ClearIds,
       ClearQueue, ClearStatus, ExitWorkers, ExitNotify, Join
  <2>4. ASSUME NEW t \in Workers, WorkerStep(t) PROVE used' \in [Ids -> 0..SlotRoom]
    BY <2>1, <2>4 DEF WorkerStep, Look, Fetch, Took, Precede, Finish, MarkByWorker, Missed, Rest, Wait,
       Woken
  <2> QED
    BY <2>1, <2>3, <2>4, StepCases DEF vars, DropFuture
<1> QED
  BY <1>1, <1>2, <1>3, <1>4 DEF Ranges

\* The constructor establishes the ranges.
LEMMA RangesInit == ASSUME Init PROVE Ranges
<1>1. Len(queue) = 0 /\ status = {} /\ used = [k \in Ids |-> 0] /\ \A j \in Jobs : job[j].id = 0
  BY EmptySeq DEF Init, NewJob
<1> QED
  BY <1>1, ZeroIsId, ManagerAssumption DEF Ranges
-----------------------------------------------------------------------------
(* The invariant and what follows from it.                                  *)

\* The constructor establishes Core.
LEMMA CoreInit == ASSUME Init PROVE Core
<1>1. /\ \A t \in Threads : c[t] = NoCall
      /\ \A t \in Workers : w[t].pc = "wait" /\ w[t].job = {}
      /\ \A j \in Jobs : job[j] = NewJob
      /\ queue = <<>> /\ status = {} /\ DOMAIN queue = {}
  BY DEF Init, Resting
<1>2. NewJob.st = "new" /\ NewJob.ran = {} /\ NewJob.before = {} /\ ~NewJob.ready
  BY DEF NewJob
<1>3. \A j \in Jobs : ~Alive(j) /\ ~Held(j) /\ ~Destroying(j)
  BY <1>1, NoCallFields DEF Alive, Held, Destroying, Queued, CallHolds, WorkerHolds, Running, HasTask
<1>4. \A t \in Threads : ~Makes(t) /\ ~Preparing(t) /\ ~Chosen(t)
  BY <1>1, NoCallFields DEF Makes, Preparing, Chosen, Spinning, Clearing, HasTask
<1>5. JobsInv /\ QueueInv
  BY <1>1, <1>2 DEF JobsInv, QueueInv
<1>6. WorkerInv /\ CallInv
  <2>1. \A t \in Workers : Grip(t) /\ Nested(t)
    BY <1>1, Distinct DEF Grip, InHand, Running, Nested
  <2>2. \A t \in Threads : Shape(t) /\ MakesInv(t)
    BY <1>1, <1>4, NoCallFields DEF Shape, MakesInv, Clearing, Joining
  <2> QED
    BY <2>1, <2>2 DEF WorkerInv, CallInv
<1>7. RunInv /\ ReadyInv
  <2>1. \A t \in Threads : c[t].pc = "idle"
    BY <1>1, NoCallFields
  <2> QED
    BY <1>1, <1>2, <1>3, <2>1 DEF RunInv, ReadyInv, Enqueued, Passed
<1>8. IdInv /\ StatusInv /\ OrderInv
  BY <1>1, <1>3, <1>4 DEF IdInv, StatusInv, OrderInv
<1>9. PrecedenceRespected /\ AwaitInv
  <2>1. \A t \in Clients : c[t].pc = "idle"
    BY <1>1, NoCallFields, Distinct
  <2> QED
    BY <1>1, <2>1 DEF PrecedenceRespected, WAt, AwaitInv, AwaitAt, QuietPcs, Clearing
<1> QED
  BY <1>5, <1>6, <1>7, <1>8, <1>9 DEF Core

\* The constructor establishes the counters.
LEMMA CountsInit == ASSUME Init PROVE Counts /\ ClosingInv
<1>1. /\ \A t \in Threads : c[t].pc = "idle" /\ c[t].after = "idle"
      /\ \A t \in Workers : w[t].pc = "wait"
      /\ queue = <<>> /\ num = 0 /\ active = 0
  BY NoCallFields DEF Init, Resting
<1>2. Enqueuing = {} /\ Asleep = {}
  BY <1>1 DEF Enqueuing, Asleep
<1>3. Announced = {}
  BY <1>2 DEF Announced
<1>4. /\ {t \in Workers : WAt(t, "took")} = {}
      /\ {t \in Workers : w[t].pc \notin {"wait", "asleep", "woken"}} = {}
  BY <1>1 DEF WAt
<1>5. Len(queue) = 0 /\ Cardinality({}) = 0 /\ IsFiniteSet({})
  BY <1>1, FS_EmptySet
<1>6. Cardinality(Announced) = 0 /\ IsFiniteSet(Announced)
  BY <1>3, <1>5
<1>8. num = 0 + 0 + 0 /\ active = 0
  BY <1>1
<1>9. Counts
  BY <1>2, <1>4, <1>5, <1>6, <1>8 DEF Counts, WorkIsAnnounced, CountersAgree, SleepersAreCalled
<1>7. ClosingInv
  BY <1>1, Distinct DEF ClosingInv
<1> QED
  BY <1>7, <1>9

IInv == Types /\ ClosingInv /\ Counts /\ (~Over => Core /\ Ranges)

\* The constructor establishes the invariant.
LEMMA IInvInit == ASSUME Init PROVE IInv
BY TypesInit, CoreInit, CountsInit, RangesInit DEF IInv

\* Nothing is over before the destructor begins.
LEMMA OverIsClosing == Over => Closing
BY DEF Over, Closing

\* Every step keeps the invariant.
LEMMA IInvStep ==
  ASSUME OneClient, IInv, [Next]_vars
  PROVE  IInv'
<1>1. Types' /\ ClosingInv' /\ (Over => Over') /\ (Closing => Closing')
  BY TypesStep, ClosingStep DEF IInv
<1>2. ~Over' => Core' /\ Ranges'
  BY <1>1, CoreStep, RangesStep DEF IInv
<1>3. Counts'
  <2>1. CASE Over
    <3>1. Closing'
      BY <1>1, <2>1, OverIsClosing
    <3> QED
      BY <3>1 DEF Counts, WorkIsAnnounced, CountersAgree, SleepersAreCalled
  <2>2. CASE ~Over
    BY <1>1, <2>2, CountsStep DEF IInv
  <2> QED
    BY <2>1, <2>2
<1> QED
  BY <1>1, <1>2, <1>3 DEF IInv

\* The invariant holds in every state.
LEMMA Always == ASSUME OneClient PROVE Spec => []IInv
<1>1. IInv /\ [Next]_vars => IInv'
  BY IInvStep
<1> QED
  BY <1>1, IInvInit, PTL DEF Spec

\* The invariant implies TypeOK.
LEMMA TypesHold ==
  ASSUME IInv, ~Closing
  PROVE  TypeOK
<1>1. Types /\ Core /\ Ranges /\ Counts
  BY OverIsClosing DEF IInv
<1>2. active \in 0..Cardinality(Workers)
  <2>1. In(Awake) \subseteq Workers
    BY DEF In
  <2>2. Cardinality(In(Awake)) <= Cardinality(Workers) /\ Cardinality(Workers) \in Nat
    BY <2>1, ManagerAssumption, FS_Subset, FS_CardinalityType
  <2> QED
    BY <1>1, <2>2, CountsMean, SizesOfIn
<1>3. \A n \in DOMAIN queue : queue[n] \in Jobs \X Nat
  BY <1>1 DEF Types
<1>4. job \in [Jobs -> [st : {"new", "made", "live", "thrown", "refused"},
                       kind : Kinds \cup {NoKind}, id : Ids, ran : SUBSET Nat,
                       ready : BOOLEAN, future : BOOLEAN, before : SUBSET Jobs]]
  BY <1>1 DEF Types, Tasks, Ranges
<1>5. w \in [Workers -> [pc : WorkerPcs, job : SUBSET Jobs, i : Nat]]
      /\ c \in [Threads -> [pc : CallPcs, job : SUBSET Jobs, id : Nat, i : Nat,
                            attempt : Nat, after : {"idle", "waited", "reissue", "gone"}]]
  BY <1>1 DEF Types, Frames, WorkerFrames
<1> QED
  BY <1>1, <1>2, <1>3, <1>4, <1>5 DEF TypeOK, Types, Ranges

\* The invariant implies WaitIsHonest: a quiet manager has no task alive.
LEMMA WaitHolds ==
  ASSUME OneClient, IInv
  PROVE  WaitIsHonest
<1> SUFFICES ASSUME NEW t \in Threads, ~Closing, c[t].pc \in {"waited", "clear_ids"},
                    NEW j \in c[t].job, NEW o \in {j} \cup job[j].before, job[o].st = "live"
             PROVE  Complete(o)
  BY DEF WaitIsHonest
<1>1. Types /\ Core /\ ~Over
  BY OverIsClosing DEF IInv
<1>2. t \in Clients
  <2>1. c[t].pc # "idle" /\ c[t].pc \notin Joining
    BY DEF Joining
  <2>2. t \in Workers => Makes(t) /\ c[t].pc \notin Clearing
    BY <1>1, <2>1, InsideCall
  <2>3. Makes(t) => c[t].pc \in Clearing
    BY DEF Makes, Preparing, Clearing, Spinning, HasTask
  <2> QED
    BY <2>2, <2>3, Distinct
<1>3. \A k \in Jobs : ~Alive(k)
  BY <1>1, <1>2, QuietMeans DEF QuietPcs, Clearing
<1>4. o \in Jobs
  BY <1>1, FrameFields, TaskFields
<1> QED
  BY <1>1, <1>3, <1>4, IncompleteIsHeld DEF Alive

\* The invariant implies ReadyIsComplete.
LEMMA ReadyHolds ==
  ASSUME IInv
  PROVE  ReadyIsComplete
BY OverIsClosing DEF IInv, Core, ReadyInv, ReadyIsComplete

\* The invariant implies EnqueueDropsNothing.
LEMMA EnqueueHolds ==
  ASSUME OneClient, IInv
  PROVE  EnqueueDropsNothing
<1> SUFFICES ASSUME NEW t \in Threads, ~Closing, c[t].pc = "clear_queue"
             PROVE  queue = <<>>
  BY DEF EnqueueDropsNothing, At
<1>1. Types /\ Core /\ ~Over
  BY OverIsClosing DEF IInv
<1>2. t \in Clients /\ c[t].pc \in QuietPcs
  BY <1>1, ClearerIsClient DEF Clearing
<1> QED
  BY <1>1, <1>2, QuietMeans DEF Quiet

\* The invariant implies PrecedenceRespected, in the end because no worker is left.
LEMMA PrecedenceHolds ==
  ASSUME IInv
  PROVE  (Nests => ~Closing) => PrecedenceRespected
<1>1. CASE ~Over
  BY <1>1 DEF IInv, Core
<1>2. CASE Over /\ ~Nests
  <2>1. \A u \in Workers : w[u].pc = "exited"
    BY <1>2 DEF Over, IInv, ClosingInv
  <2> QED
    BY <2>1 DEF PrecedenceRespected, WAt
<1> QED
  BY <1>1, <1>2, OverIsClosing

\* TypeOK: until the destructor begins every variable stays in its range: ids
\* below taskStatusSize(), the queue within its capacity.
THEOREM TypeCorrect == ASSUME OneClient PROVE Spec => [](~Closing => TypeOK)
<1>1. IInv => (~Closing => TypeOK)
  BY TypesHold
<1> QED
  BY <1>1, Always, PTL

\* WaitIsHonest: when waitForCompletion() returns, or clear() begins to reset
\* the ids, every task accepted before is complete, for any number of workers,
\* tasks, ids and slots, with tasks that enqueue tasks at the same time.
THEOREM WaitsAreHonest == ASSUME OneClient PROVE Spec => []WaitIsHonest
<1>1. IInv => WaitIsHonest
  BY WaitHolds
<1> QED
  BY <1>1, Always, PTL

\* ReadyIsComplete: no future of an accepted task is ready before every
\* iteration of the task ran.
THEOREM ReadyTasksAreComplete == ASSUME OneClient PROVE Spec => []ReadyIsComplete
<1>1. IInv => ReadyIsComplete
  BY ReadyHolds
<1> QED
  BY <1>1, Always, PTL

\* EnqueueDropsNothing: an enqueue that starts the ids again finds the queue
\* empty.  With two clients it does not: see the run manager_two_clients.
THEOREM NothingIsDropped == ASSUME OneClient PROVE Spec => []EnqueueDropsNothing
<1>1. IInv => EnqueueDropsNothing
  BY EnqueueHolds
<1> QED
  BY <1>1, Always, PTL

\* WorkIsAnnounced: num_of_tasks_ and num_of_active_workers_ are exact in every
\* state, and no wake-up is lost.
THEOREM WorkStaysAnnounced == ASSUME OneClient PROVE Spec => []WorkIsAnnounced
<1>1. IInv => WorkIsAnnounced
  BY DEF IInv, Counts
<1> QED
  BY <1>1, Always, PTL

\* PrecedenceRespected: a task with wait_for_precedence runs after every task
\* accepted before it is complete, although ids are used again.  Tasks that
\* enqueue tasks may break it once the destructor has begun, never before.
THEOREM PrecedenceKept ==
  ASSUME OneClient
  PROVE  /\ ~Nests => (Spec => []PrecedenceRespected)
         /\ Spec => [](~Closing => PrecedenceRespected)
<1>1. IInv => (~Closing => PrecedenceRespected)
  BY PrecedenceHolds
<1>2. ASSUME ~Nests PROVE Spec => []PrecedenceRespected
  <2>1. IInv => PrecedenceRespected
    BY <1>2, PrecedenceHolds
  <2> QED
    BY <2>1, Always, PTL
<1>3. Spec => [](~Closing => PrecedenceRespected)
  BY <1>1, Always, PTL
<1> QED
  BY <1>2, <1>3
=============================================================================
