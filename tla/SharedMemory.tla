--------------------------- MODULE SharedMemory ---------------------------
(***************************************************************************)
(* What the SharedMemory interface promises to the threads that call it:   *)
(* a bounded first-in first-out queue of tasks.  An operation of a thread  *)
(* is pending from its call until it takes effect, in one step, between    *)
(* the call and the return; an operation that throws has no effect.        *)
(* PosixSharedMemory implements it over semaphores and a ring of slots.    *)
(***************************************************************************)
EXTENDS Naturals, Sequences

CONSTANTS
  Threads,   \* the threads that share one attached segment
  Tasks,     \* the SharedTask records they exchange
  NoTask,    \* no record: the thread carries no argument or result
  Capacity   \* the number of tasks the segment can hold

VARIABLES
  queue,     \* the tasks in the segment, the oldest first
  op,        \* what each thread's current call is doing
  val        \* the argument or the result of that call

vars == <<queue, op, val>>

OpStates == {"idle", "enqueue", "dequeue", "done"}

Init ==
  /\ queue = <<>>
  /\ op = [th \in Threads |-> "idle"]
  /\ val = [th \in Threads |-> NoTask]

CallEnqueue(th, task) ==
  /\ op[th] = "idle"
  /\ op' = [op EXCEPT ![th] = "enqueue"]
  /\ val' = [val EXCEPT ![th] = task]
  /\ UNCHANGED queue

CallDequeue(th) ==
  /\ op[th] = "idle"
  /\ op' = [op EXCEPT ![th] = "dequeue"]
  /\ UNCHANGED <<queue, val>>

\* The calling thread is held back while the queue is full.
Enqueue(th) ==
  /\ op[th] = "enqueue"
  /\ Len(queue) < Capacity
  /\ queue' = Append(queue, val[th])
  /\ op' = [op EXCEPT ![th] = "done"]
  /\ UNCHANGED val

\* The calling thread is held back while the queue is empty.
Dequeue(th) ==
  /\ op[th] = "dequeue"
  /\ queue # <<>>
  /\ queue' = Tail(queue)
  /\ val' = [val EXCEPT ![th] = Head(queue)]
  /\ op' = [op EXCEPT ![th] = "done"]

Throw(th) ==
  /\ op[th] \in {"enqueue", "dequeue"}
  /\ op' = [op EXCEPT ![th] = "idle"]
  /\ val' = [val EXCEPT ![th] = NoTask]
  /\ UNCHANGED queue

Return(th) ==
  /\ op[th] = "done"
  /\ op' = [op EXCEPT ![th] = "idle"]
  /\ val' = [val EXCEPT ![th] = NoTask]
  /\ UNCHANGED queue

Next ==
  \E th \in Threads :
    \/ \E task \in Tasks : CallEnqueue(th, task)
    \/ CallDequeue(th)
    \/ Enqueue(th)
    \/ Dequeue(th)
    \/ Throw(th)
    \/ Return(th)

Spec == Init /\ [][Next]_vars
=============================================================================
