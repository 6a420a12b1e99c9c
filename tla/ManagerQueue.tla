----------------------------- MODULE ManagerQueue -----------------------------
(***************************************************************************)
(* The thread manager over the task queue as the queue's calls really are: *)
(* an enqueue looks at the list of free indexes and takes one in a later   *)
(* step, a dequeue takes the element before its index is free again.       *)
(* LockFreeQueue::enqueue() answers std::nullopt and stores nothing when   *)
(* the index it saw is not there yet, or no longer, and enqueueImpl()      *)
(* ignores the answer.  ThreadManager has each call as one step.           *)
(***************************************************************************)
EXTENDS ThreadManager

VARIABLES
  drawing,  \* the calls that saw a free index and have not drawn a ticket
  giving    \* the workers that drew the tail ticket for the index of the
            \* element they have, and have not written it into the cell

queueVars == <<vars, drawing, giving>>

QueueInit == Init /\ drawing = {} /\ giving = {}

\* PortableRingBuffer::dequeue(nonempty): the distance of head and tail counts
\* the indexes that are being given back; 0 is the overflow.
SeeRoom(t) ==
  /\ At(t, "push") /\ t \notin drawing /\ Len(queue) < Capacity
  /\ drawing' = drawing \cup {t}
  /\ UNCHANGED <<vars, giving>>

SeeOverflow(t) ==
  /\ t \notin drawing /\ Len(queue) = Capacity /\ Push(t)
  /\ UNCHANGED <<drawing, giving>>

\* Free indexes that are in their cells.
Available == Capacity - Len(queue) - Cardinality(giving)

\* Without an index the ticket's cell is poisoned and the call answers nullopt;
\* enqueueImpl() goes on as if the iteration was queued.
Draw(t) ==
  /\ t \in drawing
  /\ IF 0 < Available THEN Push(t)
     ELSE /\ Go(t, "notify")
          /\ UNCHANGED <<idCount, num, active, queue, status, used, job, w>>
  /\ drawing' = drawing \ {t}
  /\ UNCHANGED giving

Take(t) ==
  /\ Fetch(t)
  /\ giving' = IF queue = <<>> THEN giving ELSE giving \cup {t}
  /\ UNCHANGED drawing

GiveBack(t) ==
  /\ t \in giving
  /\ giving' = giving \ {t}
  /\ UNCHANGED <<vars, drawing>>

\* A step that is none of the queue's: the calls above take the place of Push
\* and of Fetch, and a worker goes on when its index is given back.
ElsewhereStep ==
  /\ Next
  /\ \A t \in Threads : At(t, "push") => c'[t] = c[t]
  /\ \A t \in Workers : WAt(t, "fetch") \/ t \in giving => w'[t] = w[t]
  /\ UNCHANGED <<drawing, giving>>

QueueNext ==
  \/ ElsewhereStep
  \/ \E t \in Threads : SeeRoom(t) \/ SeeOverflow(t) \/ Draw(t)
  \/ \E t \in Workers : Take(t) \/ GiveBack(t)

QueueSpec == QueueInit /\ [][QueueNext]_queueVars
=============================================================================
