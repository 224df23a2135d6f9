------------------------- MODULE PosixSharedMemory -------------------------
(***************************************************************************)
(* enqueue, dequeue and print of PosixSharedMemory on one segment that is  *)
(* created and attached, called by any number of threads.  The segment is  *)
(* a ring of slots with the indices front and rear and a counter; two      *)
(* counting semaphores hold the free and the filled slots, a binary one    *)
(* guards the ring.  A step is one semaphore operation or one access to    *)
(* the segment, so that the threads interleave everywhere they can.        *)
(***************************************************************************)
EXTENDS Integers, FiniteSets

CONSTANTS
  Threads,        \* the threads that share the segment
  Tasks,          \* the SharedTask records they exchange
  NoTask,         \* no task's record: an unwritten or a spoiled slot, empty hands
  Capacity,       \* capacity_
  COUNT_TASKS,    \* the declared length of tasks_ in SharedMemoryLayout
  SizeModulus     \* 2^64 in the code: the values of a size_t

ASSUME ThreadsAssumption == IsFiniteSet(Threads) /\ Threads # {}
ASSUME TasksAssumption == NoTask \notin Tasks
\* The constructor does not compare the capacity with COUNT_TASKS.
ASSUME CapacityAssumption ==
  /\ COUNT_TASKS \in Nat
  /\ Capacity \in Nat \ {0}
ASSUME SizeAssumption == SizeModulus \in Nat /\ SizeModulus > Capacity

VARIABLES
  enqueue_sem,     \* value of enqueue_sem_: the free slots
  dequeue_sem,     \* value of dequeue_sem_: the filled slots
  mutex_sem,       \* value of mutex_sem_
  front,           \* front_
  rear,            \* rear_
  count,           \* count_
  tasks,           \* tasks_, one record in each slot
  total_enqueued,  \* total_enqueued_
  total_dequeued,  \* total_dequeued_
  pc,              \* where each thread is in its call
  task             \* the record each thread passes in or takes out

semaphores == <<enqueue_sem, dequeue_sem, mutex_sem>>
ring == <<front, rear, count, tasks, total_enqueued, total_dequeued>>
vars == <<enqueue_sem, dequeue_sem, mutex_sem, front, rear, count, tasks,
          total_enqueued, total_dequeued, pc, task>>

Slots == 0..(Capacity - 1)

\* Mutant of NextSlot: the index is not wrapped.
NextSlotUnwrapped(i) == i + 1

NextSlot(i) == (i + 1) % Capacity

\* The segment is long enough for every slot, but the slot COUNT_TASKS lies on
\* the two totals: its record and the totals overwrite each other.
OnTotals(i) == i = COUNT_TASKS

Totals(i, total) == IF OnTotals(i) THEN 0..(SizeModulus - 1) ELSE {total}

TasksUnderTotals == [i \in Slots |-> IF OnTotals(i) THEN NoTask ELSE tasks[i]]

Goto(th, from, to) ==
  /\ pc[th] = from
  /\ pc' = [pc EXCEPT ![th] = to]

-----------------------------------------------------------------------------
(* The segment as create() leaves it. *)

Init ==
  /\ enqueue_sem = Capacity
  /\ dequeue_sem = 0
  /\ mutex_sem = 1
  /\ front = 0
  /\ rear = 0
  /\ count = 0
  /\ tasks = [i \in Slots |-> NoTask]
  /\ total_enqueued = 0
  /\ total_dequeued = 0
  /\ pc = [th \in Threads |-> "idle"]
  /\ task = [th \in Threads |-> NoTask]

-----------------------------------------------------------------------------
(* sem_wait and sem_post. *)

WaitMutex(th, from, to) ==
  /\ mutex_sem > 0
  /\ mutex_sem' = mutex_sem - 1
  /\ Goto(th, from, to)
  /\ UNCHANGED <<enqueue_sem, dequeue_sem, task>>
  /\ UNCHANGED ring

PostMutex(th, from, to) ==
  /\ mutex_sem' = mutex_sem + 1
  /\ Goto(th, from, to)
  /\ UNCHANGED <<enqueue_sem, dequeue_sem, task>>
  /\ UNCHANGED ring

-----------------------------------------------------------------------------
(* Mutants: slips that would be easy to make in the code below.  They are  *)
(* no part of the specification; each one breaks a property of a run.      *)

\* enqueue does not wait for a free slot.
EnqueueWaitNoSlot(th) ==
  /\ Goto(th, "enq_slot", "enq_lock")
  /\ UNCHANGED <<semaphores, task>>
  /\ UNCHANGED ring

\* A lock without sem_wait(mutex_sem_): in enqueue, in print.
EnqueueNoLock(th) ==
  Goto(th, "enq_lock", "enq_store") /\ UNCHANGED <<semaphores, task, ring>>
PrintNoLock(th) ==
  Goto(th, "print_lock", "print_walk") /\ UNCHANGED <<semaphores, task, ring>>

\* The enqueue does not announce its task.
EnqueueNoSignal(th) ==
  /\ Goto(th, "enq_signal", "idle")
  /\ task' = [task EXCEPT ![th] = NoTask]
  /\ UNCHANGED <<semaphores, ring>>

\* The dequeue does not give its slot back, or posts the other semaphore.
DequeueNoSignal(th) ==
  /\ Goto(th, "deq_signal", "idle")
  /\ task' = [task EXCEPT ![th] = NoTask]
  /\ UNCHANGED <<semaphores, ring>>
DequeueSignalWrongSem(th) ==
  /\ Goto(th, "deq_signal", "idle")
  /\ dequeue_sem' = dequeue_sem + 1
  /\ task' = [task EXCEPT ![th] = NoTask]
  /\ UNCHANGED <<enqueue_sem, mutex_sem, ring>>

\* The error path of a failed wait for the mutex keeps the slot or the token,
\* or posts the mutex it does not hold.
InterruptKeepsSlot(th) ==
  /\ Goto(th, "enq_lock", "idle")
  /\ task' = [task EXCEPT ![th] = NoTask]
  /\ UNCHANGED <<semaphores, ring>>
InterruptKeepsToken(th) ==
  Goto(th, "deq_lock", "idle") /\ UNCHANGED <<semaphores, task, ring>>
InterruptPostsMutex(th) ==
  /\ Goto(th, "deq_lock", "idle")
  /\ mutex_sem' = mutex_sem + 1
  /\ UNCHANGED <<enqueue_sem, dequeue_sem, task, ring>>

-----------------------------------------------------------------------------
(* enqueue(task) *)

CallEnqueue(th, t) ==
  /\ Goto(th, "idle", "enq_slot")
  /\ task' = [task EXCEPT ![th] = t]
  /\ UNCHANGED semaphores
  /\ UNCHANGED ring

EnqueueWaitSlot(th) ==
  /\ enqueue_sem > 0
  /\ enqueue_sem' = enqueue_sem - 1
  /\ Goto(th, "enq_slot", "enq_lock")
  /\ UNCHANGED <<dequeue_sem, mutex_sem, task>>
  /\ UNCHANGED ring

EnqueueLock(th) == WaitMutex(th, "enq_lock", "enq_store")

EnqueueStore(th) ==
  /\ Goto(th, "enq_store", "enq_advance")
  /\ tasks' = [tasks EXCEPT ![rear] = task[th]]
  /\ total_enqueued' \in Totals(rear, total_enqueued)
  /\ total_dequeued' \in Totals(rear, total_dequeued)
  /\ UNCHANGED semaphores
  /\ UNCHANGED <<front, rear, count, task>>

EnqueueAdvance(th) ==
  /\ Goto(th, "enq_advance", "enq_count")
  /\ rear' = NextSlot(rear)
  /\ UNCHANGED semaphores
  /\ UNCHANGED <<front, count, tasks, total_enqueued, total_dequeued, task>>

EnqueueCount(th) ==
  /\ Goto(th, "enq_count", "enq_unlock")
  /\ count' = count + 1
  /\ total_enqueued' = (total_enqueued + 1) % SizeModulus
  /\ tasks' = TasksUnderTotals
  /\ UNCHANGED semaphores
  /\ UNCHANGED <<front, rear, total_dequeued, task>>

EnqueueUnlock(th) == PostMutex(th, "enq_unlock", "enq_signal")

EnqueueSignal(th) ==
  /\ Goto(th, "enq_signal", "idle")
  /\ dequeue_sem' = dequeue_sem + 1
  /\ task' = [task EXCEPT ![th] = NoTask]
  /\ UNCHANGED <<enqueue_sem, mutex_sem>>
  /\ UNCHANGED ring

-----------------------------------------------------------------------------
(* dequeue() *)

CallDequeue(th) ==
  /\ Goto(th, "idle", "deq_token")
  /\ UNCHANGED <<semaphores, task>>
  /\ UNCHANGED ring

DequeueWaitToken(th) ==
  /\ dequeue_sem > 0
  /\ dequeue_sem' = dequeue_sem - 1
  /\ Goto(th, "deq_token", "deq_lock")
  /\ UNCHANGED <<enqueue_sem, mutex_sem, task>>
  /\ UNCHANGED ring

DequeueLock(th) == WaitMutex(th, "deq_lock", "deq_test")

\* On "Queue is empty" the mutex and then the token go back and the call
\* throws; both posts are one step here (EmptyBranchDead: it is never taken).
DequeueTest(th) ==
  /\ IF count = 0
     THEN /\ Goto(th, "deq_test", "idle")
          /\ mutex_sem' = mutex_sem + 1
          /\ dequeue_sem' = dequeue_sem + 1
     ELSE /\ Goto(th, "deq_test", "deq_copy")
          /\ UNCHANGED <<mutex_sem, dequeue_sem>>
  /\ UNCHANGED <<enqueue_sem, task>>
  /\ UNCHANGED ring

DequeueCopy(th) ==
  /\ Goto(th, "deq_copy", "deq_advance")
  /\ task' = [task EXCEPT ![th] = tasks[front]]
  /\ UNCHANGED semaphores
  /\ UNCHANGED ring

DequeueAdvance(th) ==
  /\ Goto(th, "deq_advance", "deq_count")
  /\ front' = NextSlot(front)
  /\ UNCHANGED semaphores
  /\ UNCHANGED <<rear, count, tasks, total_enqueued, total_dequeued, task>>

DequeueCount(th) ==
  /\ Goto(th, "deq_count", "deq_unlock")
  /\ count' = count - 1
  /\ total_dequeued' = (total_dequeued + 1) % SizeModulus
  /\ tasks' = TasksUnderTotals
  /\ UNCHANGED semaphores
  /\ UNCHANGED <<front, rear, total_enqueued, task>>

DequeueUnlock(th) == PostMutex(th, "deq_unlock", "deq_signal")

\* The caller receives task[th].
DequeueSignal(th) ==
  /\ Goto(th, "deq_signal", "idle")
  /\ enqueue_sem' = enqueue_sem + 1
  /\ task' = [task EXCEPT ![th] = NoTask]
  /\ UNCHANGED <<dequeue_sem, mutex_sem>>
  /\ UNCHANGED ring

-----------------------------------------------------------------------------
(* print(): the walk over the ring happens under the mutex. *)

CallPrint(th) ==
  /\ Goto(th, "idle", "print_lock")
  /\ UNCHANGED <<semaphores, task>>
  /\ UNCHANGED ring

PrintLock(th) == WaitMutex(th, "print_lock", "print_walk")

PrintUnlock(th) == PostMutex(th, "print_walk", "idle")

-----------------------------------------------------------------------------
(* sem_wait may return -1: the call gives back what it holds and throws. *)

InterruptFirstWait(th) ==
  /\ \/ Goto(th, "enq_slot", "idle")
     \/ Goto(th, "deq_token", "idle")
     \/ Goto(th, "print_lock", "idle")
  /\ task' = [task EXCEPT ![th] = NoTask]
  /\ UNCHANGED semaphores
  /\ UNCHANGED ring

InterruptEnqueueLock(th) ==
  /\ Goto(th, "enq_lock", "idle")
  /\ enqueue_sem' = enqueue_sem + 1
  /\ task' = [task EXCEPT ![th] = NoTask]
  /\ UNCHANGED <<dequeue_sem, mutex_sem>>
  /\ UNCHANGED ring

InterruptDequeueLock(th) ==
  /\ Goto(th, "deq_lock", "idle")
  /\ dequeue_sem' = dequeue_sem + 1
  /\ UNCHANGED <<enqueue_sem, mutex_sem, task>>
  /\ UNCHANGED ring

-----------------------------------------------------------------------------

Call(th) ==
  \/ \E t \in Tasks : CallEnqueue(th, t)
  \/ CallDequeue(th)
  \/ CallPrint(th)

\* The next step of the call the thread is in.
Step(th) ==
  \/ EnqueueWaitSlot(th)
  \/ EnqueueLock(th)
  \/ EnqueueStore(th)
  \/ EnqueueAdvance(th)
  \/ EnqueueCount(th)
  \/ EnqueueUnlock(th)
  \/ EnqueueSignal(th)
  \/ DequeueWaitToken(th)
  \/ DequeueLock(th)
  \/ DequeueTest(th)
  \/ DequeueCopy(th)
  \/ DequeueAdvance(th)
  \/ DequeueCount(th)
  \/ DequeueUnlock(th)
  \/ DequeueSignal(th)
  \/ PrintLock(th)
  \/ PrintUnlock(th)

Interrupt(th) ==
  \/ InterruptFirstWait(th)
  \/ InterruptEnqueueLock(th)
  \/ InterruptDequeueLock(th)

Next == \E th \in Threads : Call(th) \/ Step(th) \/ Interrupt(th)

Spec == Init /\ [][Next]_vars

\* The operating system runs every thread that is able to run.  Nothing says
\* that a thread makes a next call, and glibc's semaphores are not queues: a
\* thread that waits may be overtaken for ever, so waits are weakly fair only.
FairSpec == Spec /\ \A th \in Threads : WF_vars(Step(th))

-----------------------------------------------------------------------------
(* Where the threads are. *)

At(pcs) == {th \in Threads : pc[th] \in pcs}

EnqueuePending == {"enq_slot", "enq_lock", "enq_store", "enq_advance", "enq_count"}
DequeuePending == {"deq_token", "deq_lock", "deq_test", "deq_copy",
                   "deq_advance", "deq_count"}
EnqueueDone == {"enq_unlock", "enq_signal"}
DequeueDone == {"deq_unlock", "deq_signal"}
Printing == {"print_lock", "print_walk"}
Places == {"idle"} \cup EnqueuePending \cup EnqueueDone \cup
          DequeuePending \cup DequeueDone \cup Printing

\* Between sem_wait(mutex_sem_) and sem_post(mutex_sem_).
Critical == {"enq_store", "enq_advance", "enq_count", "enq_unlock",
             "deq_test", "deq_copy", "deq_advance", "deq_count", "deq_unlock",
             "print_walk"}

\* A free slot that was taken from enqueue_sem_ and is not counted yet.
SlotClaimed == EnqueuePending \ {"enq_slot"}

\* A filled slot that was taken from dequeue_sem_ and is still counted.
TokenClaimed == DequeuePending \ {"deq_token"}

-----------------------------------------------------------------------------
(* Properties *)

TypeOK ==
  /\ enqueue_sem \in Nat
  /\ dequeue_sem \in Nat
  /\ mutex_sem \in Nat
  /\ front \in Slots
  /\ rear \in Slots
  /\ count \in Int
  /\ tasks \in [Slots -> Tasks \cup {NoTask}]
  /\ total_enqueued \in 0..(SizeModulus - 1)
  /\ total_dequeued \in 0..(SizeModulus - 1)
  /\ pc \in [Threads -> Places]
  /\ task \in [Threads -> Tasks \cup {NoTask}]

\* mutex_sem_ admits one thread at a time between its wait and its post, and
\* is free when nobody is there: in every mix of enqueue, dequeue and print,
\* on the error paths as well, it is neither posted twice nor kept.
MutualExclusion == mutex_sem + Cardinality(At(Critical)) = 1

\* Every slot is accounted for exactly once: free in enqueue_sem_, claimed by
\* a thread that is enqueueing, counted, or on its way back to enqueue_sem_.
SlotsAccounted ==
  enqueue_sem + Cardinality(At(SlotClaimed)) + count
    + Cardinality(At(DequeueDone)) = Capacity

\* Every counted task is accounted for exactly once: announced in
\* dequeue_sem_, claimed by a dequeue, or about to be announced.
TokensAccounted ==
  dequeue_sem + Cardinality(At(TokenClaimed)) + Cardinality(At(EnqueueDone))
    = count

\* An enqueue never writes into a full ring and the counter never leaves its
\* range, although neither is tested by the code.
NoOverflow ==
  /\ count \in 0..Capacity
  /\ \A th \in At({"enq_store", "enq_advance", "enq_count"}) : count < Capacity

\* The "Queue is empty" exception of dequeue is dead code: a thread that holds
\* a token and the mutex always finds a counted task.  The header documents the
\* exception (PosixSharedMemory.hpp:120) for what in the code is a wait.
EmptyBranchDead == \A th \in At({"deq_test"}) : count > 0

\* A thread inside sem_wait on a semaphore whose value is zero.
Blocked(th) ==
  \/ pc[th] = "enq_slot" /\ enqueue_sem = 0
  \/ pc[th] = "deq_token" /\ dequeue_sem = 0
  \/ pc[th] \in {"enq_lock", "deq_lock", "print_lock"} /\ mutex_sem = 0

\* The three semaphores never hold each other's waiters back in a circle: all
\* threads are blocked only when all of them dequeue from an empty queue or all
\* of them enqueue into a full one.  This is why the code takes the counting
\* semaphore before the mutex and never the other way round.
BlockedOnlyOnEmptyOrFull ==
  (\A th \in Threads : Blocked(th)) =>
    \/ At({"deq_token"}) = Threads /\ count = 0
    \/ At({"enq_slot"}) = Threads /\ count = Capacity

-----------------------------------------------------------------------------
(* The queue of the SharedMemory interface, seen through the ring. *)

\* front runs ahead of count while a dequeue is between the two updates.
Oldest == IF At({"deq_count"}) = {} THEN front ELSE (front + Capacity - 1) % Capacity

queueBar == [i \in 1..count |-> tasks[(Oldest + i - 1) % Capacity]]

opBar == [th \in Threads |->
            CASE pc[th] \in EnqueuePending -> "enqueue"
              [] pc[th] \in DequeuePending -> "dequeue"
              [] pc[th] \in EnqueueDone \cup DequeueDone -> "done"
              [] OTHER -> "idle"]

valBar == [th \in Threads |->
             IF pc[th] \in DequeuePending THEN NoTask ELSE task[th]]

Interface == INSTANCE SharedMemory
               WITH queue <- queueBar, op <- opBar, val <- valBar

\* Every run of the semaphores and the ring is a run of the bounded queue: a
\* task is enqueued and dequeued at one instant within the call, in first-in
\* first-out order, and a call that throws leaves the queue as it was, up to
\* a capacity of COUNT_TASKS.
ImplementsInterface == Interface!Spec

\* The walk of print() sees one state of the queue from start to end.
PrintSeesOneState == [][At({"print_walk"}) # {} => UNCHANGED ring]_vars

\* Every slot up to the capacity holds a task: what a dequeue takes out is the
\* record of a task, none that something else has overwritten meanwhile.
EverySlotHoldsATask ==
  \A th \in At({"deq_advance", "deq_count"} \cup DequeueDone) : task[th] \in Tasks

\* No lost wakeup: once the threads make no further call, every call returns,
\* save dequeues from a queue that stays empty and enqueues into one that stays
\* full.  (While calls go on, the semaphores let a waiter be overtaken for ever.)
CallsReturn ==
  \/ []<><<\E th \in Threads : Call(th)>>_vars
  \/ <>[]\A th \in Threads :
          \/ pc[th] = "idle"
          \/ pc[th] = "deq_token" /\ count = 0
          \/ pc[th] = "enq_slot" /\ count = Capacity
=============================================================================
