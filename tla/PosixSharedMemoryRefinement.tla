-------------------- MODULE PosixSharedMemoryRefinement --------------------
(***************************************************************************)
(* PosixSharedMemory implements SharedMemory for every set of threads and  *)
(* tasks, up to a capacity of COUNT_TASKS.  To the accounts of             *)
(* PosixSharedMemoryProofs the invariant adds what the ring looks like     *)
(* while a thread is in the middle of updating it.                         *)
(***************************************************************************)
EXTENDS PosixSharedMemoryProofs, Sequences

\* tasks_ is as long as the ring.
Fits == Capacity <= COUNT_TASKS

\* An index that has run at most once past the end of the ring.
Wrap(x) == IF x < Capacity THEN x ELSE x - Capacity

\* The slot before another.
SlotBefore(s) == IF s = 0 THEN Capacity - 1 ELSE s - 1

\* The slot behind the newest counted task.
Behind == Wrap(Oldest + count)

\* Where a thread has stored but not counted, or copied but not counted.
Halfway == {"enq_advance", "enq_count", "deq_advance", "deq_count"}

\* Where a thread has a task in its hands.
Carrying == EnqueuePending \cup EnqueueDone \cup DequeueDone
              \cup {"deq_advance", "deq_count"}

\* rear runs ahead of count while an enqueue is between the two updates.
RearIsBehind == rear = IF At({"enq_count"}) = {} THEN Behind ELSE Wrap(Behind + 1)

\* The task of a half-way enqueue is in the slot that it will be counted at.
StoredBehind ==
  \A th \in At({"enq_advance", "enq_count"}) : tasks[Behind] = task[th]

\* The task of a half-way dequeue is still the oldest.
CopiedOldest ==
  \A th \in At({"deq_advance", "deq_count"}) : tasks[Oldest] = task[th]

HandsMatch ==
  \A th \in Threads : task[th] \in IF pc[th] \in Carrying THEN Tasks ELSE {NoTask}

QueueOfTasks == \A i \in 1..count : queueBar[i] \in Tasks

View ==
  /\ RearIsBehind
  /\ StoredBehind
  /\ CopiedOldest
  /\ HandsMatch
  /\ QueueOfTasks

-----------------------------------------------------------------------------
(* Indices and sequences. *)

\* Every index that the ring computes runs past its end at most once.
LEMMA ModIsWrap ==
  ASSUME NEW x \in 0..(2 * Capacity - 1)
  PROVE  x % Capacity = Wrap(x)
  BY CapacityAssumption DEF Wrap

\* A function on 1..n is a sequence of length n.
LEMMA FunctionIsSequence ==
  ASSUME NEW S, NEW n \in Nat, NEW f \in [1..n -> S]
  PROVE  f \in Seq(S) /\ Len(f) = n
  OBVIOUS

\* One element more is an Append.
LEMMA LongerIsAppend ==
  ASSUME NEW S, NEW n \in Nat, NEW f \in [1..n -> S], NEW g \in [1..(n + 1) -> S],
         \A i \in 1..n : g[i] = f[i]
  PROVE  g = Append(f, g[n + 1])
  BY FunctionIsSequence

\* One element less, the others moved up, is a Tail.
LEMMA ShorterIsTail ==
  ASSUME NEW S, NEW n \in Nat, NEW f \in [1..(n + 1) -> S], NEW g \in [1..n -> S],
         \A i \in 1..n : g[i] = f[i + 1]
  PROVE  g = Tail(f) /\ f # <<>> /\ Head(f) = f[1]
  BY FunctionIsSequence

\* What the accounts say of the counter and of the threads that change it.
LEMMA CountBounds ==
  IInv => /\ count \in 0..Capacity
          /\ \A th \in At({"enq_store", "enq_advance", "enq_count"}) : count < Capacity
          /\ \A th \in At(TokenClaimed) : count > 0
  <1> SUFFICES ASSUME IInv
               PROVE  /\ count \in 0..Capacity
                      /\ \A th \in At({"enq_store", "enq_advance", "enq_count"}) :
                           count < Capacity
                      /\ \A th \in At(TokenClaimed) : count > 0
    OBVIOUS
  <1> USE CountsType, CapacityAssumption
      DEF IInv, TypeOK, SlotsAccounted, TokensAccounted
  <1>1. count \in 0..Capacity
    OBVIOUS
  <1>2. ASSUME NEW th \in At({"enq_store", "enq_advance", "enq_count"})
        PROVE  count < Capacity
    <2>1. th \in Threads /\ pc[th] \in SlotClaimed
      BY DEF At, SlotClaimed, EnqueuePending
    <2>2. Cardinality(At(SlotClaimed)) > 0
      BY <2>1, AtCounted
    <2> QED
      BY <2>2
  <1>3. ASSUME NEW th \in At(TokenClaimed) PROVE count > 0
    <2>1. Cardinality(At(TokenClaimed)) > 0
      BY AtCounted DEF At
    <2> QED
      BY <2>1
  <1> QED
    BY <1>1, <1>2, <1>3

-----------------------------------------------------------------------------
(* The queue in the ring, before and after a step. *)

\* The indices of the queue are slots, and need one subtraction.
LEMMA Indices ==
  ASSUME NEW s \in Slots, NEW n \in 0..Capacity
  PROVE  /\ (s + Capacity - 1) % Capacity = SlotBefore(s)
         /\ SlotBefore(s) \in Slots
         /\ \A i \in 1..n : /\ (s + i - 1) % Capacity = Wrap(s + i - 1)
                            /\ Wrap(s + i - 1) \in Slots
  <1> USE CapacityAssumption DEF Slots
  <1>1. /\ (s + Capacity - 1) % Capacity = SlotBefore(s)
        /\ SlotBefore(s) \in Slots
    <2>1. s + Capacity - 1 \in 0..(2 * Capacity - 1)
      OBVIOUS
    <2> QED
      BY <2>1, ModIsWrap DEF Wrap, SlotBefore
  <1>2. ASSUME NEW i \in 1..n
        PROVE  /\ (s + i - 1) % Capacity = Wrap(s + i - 1)
               /\ Wrap(s + i - 1) \in Slots
    <2>1. s + i - 1 \in 0..(2 * Capacity - 1)
      OBVIOUS
    <2> QED
      BY <2>1, ModIsWrap DEF Wrap
  <1> QED
    BY <1>1, <1>2

\* The queue as it stands in the ring.
LEMMA QueueFacts ==
  ASSUME TypeOK, count \in 0..Capacity
  PROVE  /\ Oldest = IF At({"deq_count"}) = {} THEN front ELSE SlotBefore(front)
         /\ Oldest \in Slots
         /\ queueBar \in [1..count -> Tasks \cup {NoTask}]
         /\ \A i \in 1..count : queueBar[i] = tasks[Wrap(Oldest + i - 1)]
  <1>1. front \in Slots /\ tasks \in [Slots -> Tasks \cup {NoTask}]
    BY DEF TypeOK
  <1>2. /\ Oldest = IF At({"deq_count"}) = {} THEN front ELSE SlotBefore(front)
        /\ Oldest \in Slots
    BY <1>1, Indices DEF Oldest
  <1>3. queueBar = [i \in 1..count |-> tasks[(Oldest + i - 1) % Capacity]]
    BY DEF queueBar
  <1>4. \A i \in 1..count : /\ (Oldest + i - 1) % Capacity = Wrap(Oldest + i - 1)
                            /\ Wrap(Oldest + i - 1) \in Slots
    BY <1>2, Indices
  <1> QED
    BY <1>1, <1>2, <1>3, <1>4

\* The same of the next state.
LEMMA QueueFactsNext ==
  ASSUME TypeOK', count' \in 0..Capacity
  PROVE  /\ Oldest' = IF At({"deq_count"})' = {} THEN front' ELSE SlotBefore(front')
         /\ Oldest' \in Slots
         /\ queueBar' \in [1..count' -> Tasks \cup {NoTask}]
         /\ \A i \in 1..count' : queueBar'[i] = tasks'[Wrap(Oldest' + i - 1)]
  <1>1. front' \in Slots /\ tasks' \in [Slots -> Tasks \cup {NoTask}]
    BY DEF TypeOK
  <1>2. /\ Oldest' = IF At({"deq_count"})' = {} THEN front' ELSE SlotBefore(front')
        /\ Oldest' \in Slots
    BY <1>1, Indices DEF Oldest
  <1>3. queueBar' = [i \in 1..count' |-> tasks'[(Oldest' + i - 1) % Capacity]]
    BY DEF queueBar
  <1>4. \A i \in 1..count' : /\ (Oldest' + i - 1) % Capacity = Wrap(Oldest' + i - 1)
                            /\ Wrap(Oldest' + i - 1) \in Slots
    BY <1>2, Indices
  <1> QED
    BY <1>1, <1>2, <1>3, <1>4

\* Who is at some places after a step.
LEMMA AtNext ==
  ASSUME NEW S, NEW th \in Threads, NEW from, NEW to, TypeOK, Goto(th, from, to)
  PROVE  At(S)' = IF to \in S THEN At(S) \cup {th} ELSE At(S) \ {th}
  BY DEF At, Goto, TypeOK

\* A thread inside is there alone.
LEMMA AloneInside ==
  ASSUME IInv, NEW th \in Threads, pc[th] \in Critical, NEW S, S \subseteq Critical
  PROVE  At(S) = IF pc[th] \in S THEN {th} ELSE {}
  BY OneInside DEF At

-----------------------------------------------------------------------------
(* The operations seen through the places of the threads. *)

OpAt(place) ==
  CASE place \in EnqueuePending -> "enqueue"
    [] place \in DequeuePending -> "dequeue"
    [] place \in EnqueueDone \cup DequeueDone -> "done"
    [] OTHER -> "idle"

ValAt(place, t) == IF place \in DequeuePending THEN NoTask ELSE t

\* Only the hands of one thread change.
OnlyHandsOf(th) == \A other \in Threads \ {th} : task'[other] = task[other]

\* A thread that moves changes its own operation and value only.
LEMMA BarsOfMove ==
  ASSUME NEW th \in Threads, NEW from, NEW to, TypeOK, TypeOK', Goto(th, from, to),
         OnlyHandsOf(th)
  PROVE  /\ opBar[th] = OpAt(from)
         /\ valBar[th] = ValAt(from, task[th])
         /\ opBar' = [opBar EXCEPT ![th] = OpAt(to)]
         /\ valBar' = [valBar EXCEPT ![th] = ValAt(to, task'[th])]
  <1>1. /\ pc[th] = from
        /\ pc' = [pc EXCEPT ![th] = to]
        /\ pc \in [Threads -> Places]
    BY DEF Goto, TypeOK
  <1>2. /\ opBar = [o \in Threads |-> OpAt(pc[o])]
        /\ opBar' = [o \in Threads |-> OpAt(pc'[o])]
    BY DEF opBar, OpAt
  <1>3. /\ valBar = [o \in Threads |-> ValAt(pc[o], task[o])]
        /\ valBar' = [o \in Threads |-> ValAt(pc'[o], task'[o])]
    BY DEF valBar, ValAt
  <1> QED
    BY <1>1, <1>2, <1>3 DEF OnlyHandsOf

\* A move within one operation that shows no other value is not seen.
LEMMA BarsStay ==
  ASSUME NEW th \in Threads, NEW from, NEW to, TypeOK, TypeOK', Goto(th, from, to),
         OnlyHandsOf(th), OpAt(from) = OpAt(to),
         ValAt(from, task[th]) = ValAt(to, task'[th])
  PROVE  UNCHANGED <<opBar, valBar>>
  <1>1. /\ opBar[th] = OpAt(to)
        /\ valBar[th] = ValAt(to, task'[th])
        /\ opBar' = [opBar EXCEPT ![th] = OpAt(to)]
        /\ valBar' = [valBar EXCEPT ![th] = ValAt(to, task'[th])]
    BY BarsOfMove
  <1>2. /\ opBar = [o \in Threads |-> opBar[o]]
        /\ valBar = [o \in Threads |-> valBar[o]]
    BY DEF opBar, valBar
  <1> QED
    BY <1>1, <1>2

-----------------------------------------------------------------------------
(* What each step does to the queue. *)

\* A step that neither begins nor ends an update of the ring.
LEMMA QuietKeepsView ==
  ASSUME NEW th \in Threads, NEW from, NEW to, IInv, IInv', View, Goto(th, from, to),
         from \notin Halfway, to \notin Halfway, UNCHANGED ring, OnlyHandsOf(th),
         task'[th] \in IF to \in Carrying THEN Tasks ELSE {NoTask}
  PROVE  View' /\ UNCHANGED queueBar
  <1>1. \A S \in {{"deq_count"}, {"enq_count"}, {"enq_advance", "enq_count"},
                  {"deq_advance", "deq_count"}} :
          th \notin At(S) /\ At(S)' = At(S)
    BY AtNext DEF IInv, Halfway, At, Goto
  <1>2. UNCHANGED <<Oldest, Behind, queueBar>>
    BY <1>1 DEF Oldest, Behind, queueBar, ring
  <1>3. RearIsBehind'
    BY <1>1, <1>2 DEF View, RearIsBehind, ring
  <1>4. StoredBehind' /\ CopiedOldest'
    BY <1>1, <1>2 DEF View, StoredBehind, CopiedOldest, ring, OnlyHandsOf, At
  <1>5. HandsMatch'
    BY DEF View, HandsMatch, OnlyHandsOf, Goto, IInv, TypeOK
  <1>6. QueueOfTasks'
    BY <1>2 DEF View, QueueOfTasks, ring
  <1> QED
    BY <1>2, <1>3, <1>4, <1>5, <1>6 DEF View

\* The copy into the ring goes to a slot behind the queue.
LEMMA StoreKeepsQueue ==
  ASSUME NEW th \in Threads, IInv, IInv', View, Fits, EnqueueStore(th)
  PROVE  View' /\ UNCHANGED queueBar
  <1>1. /\ Goto(th, "enq_store", "enq_advance")
        /\ tasks' = [tasks EXCEPT ![rear] = task[th]]
        /\ UNCHANGED <<front, rear, count, task>>
    BY DEF EnqueueStore
  <1>2. /\ At({"deq_count"}) = {} /\ At({"enq_count"}) = {}
        /\ At({"enq_advance", "enq_count"}) = {}
        /\ At({"deq_advance", "deq_count"}) = {}
    BY <1>1, AloneInside DEF Goto, Critical
  <1>3. /\ At({"deq_count"})' = {} /\ At({"enq_count"})' = {}
        /\ At({"enq_advance", "enq_count"})' = {th}
        /\ At({"deq_advance", "deq_count"})' = {}
    BY <1>1, <1>2, AtNext DEF IInv
  <1>4. count \in 0..(Capacity - 1)
    BY <1>1, CountBounds, CapacityAssumption DEF At, Goto
  <1>5. UNCHANGED <<Oldest, Behind>>
    BY <1>1, <1>2, <1>3 DEF Oldest, Behind
  <1>6. Oldest \in Slots /\ rear = Behind /\ rear \in Slots
    BY <1>2, <1>4, QueueFacts, CapacityAssumption DEF IInv, TypeOK, View, RearIsBehind
  <1>7. \A i \in 1..count : Wrap(Oldest + i - 1) # rear
    BY <1>4, <1>6, CapacityAssumption DEF Slots, Wrap, Behind
  <1>8. tasks \in [Slots -> Tasks \cup {NoTask}]
    BY DEF IInv, TypeOK
  <1>9. \A i \in 1..count : queueBar'[i] = queueBar[i]
    <2> SUFFICES ASSUME NEW i \in 1..count PROVE queueBar'[i] = queueBar[i]
      OBVIOUS
    <2>1. /\ queueBar[i] = tasks[Wrap(Oldest + i - 1)]
          /\ queueBar'[i] = tasks'[Wrap(Oldest + i - 1)]
      BY <1>1, <1>4, <1>5, QueueFacts, QueueFactsNext, CapacityAssumption DEF IInv
    <2>2. count \in 0..Capacity
      BY <1>4, CapacityAssumption
    <2>3. Wrap(Oldest + i - 1) \in Slots
      BY <1>6, <2>2, Indices
    <2> QED
      BY <1>1, <1>7, <1>8, <2>1, <2>3
  <1>10. UNCHANGED queueBar
    BY <1>1, <1>4, <1>9, QueueFacts, QueueFactsNext, CapacityAssumption DEF IInv
  <1>11. RearIsBehind'
    BY <1>1, <1>3, <1>5, <1>6 DEF RearIsBehind
  <1>12. StoredBehind' /\ CopiedOldest'
    BY <1>1, <1>3, <1>5, <1>6, <1>8 DEF StoredBehind, CopiedOldest
  <1>13. HandsMatch'
    BY <1>1 DEF View, HandsMatch, Goto, IInv, TypeOK, Carrying, EnqueuePending
  <1>14. QueueOfTasks'
    BY <1>1, <1>10 DEF View, QueueOfTasks
  <1> QED
    BY <1>10, <1>11, <1>12, <1>13, <1>14 DEF View

\* The index moves on before the task is counted.
LEMMA AdvanceKeepsQueue ==
  ASSUME NEW th \in Threads, IInv, IInv', View, Fits, EnqueueAdvance(th)
  PROVE  View' /\ UNCHANGED queueBar
  <1>1. /\ Goto(th, "enq_advance", "enq_count")
        /\ rear' = NextSlot(rear)
        /\ UNCHANGED <<front, count, tasks, task>>
    BY DEF EnqueueAdvance
  <1>2. /\ At({"deq_count"}) = {} /\ At({"enq_count"}) = {}
        /\ At({"enq_advance", "enq_count"}) = {th}
        /\ At({"deq_advance", "deq_count"}) = {}
    BY <1>1, AloneInside DEF Goto, Critical
  <1>3. /\ At({"deq_count"})' = {} /\ At({"enq_count"})' = {th}
        /\ At({"enq_advance", "enq_count"})' = {th}
        /\ At({"deq_advance", "deq_count"})' = {}
    BY <1>1, <1>2, AtNext DEF IInv
  <1>4. UNCHANGED <<Oldest, Behind, queueBar>>
    BY <1>1, <1>2, <1>3 DEF Oldest, Behind, queueBar
  <1>5. rear \in Slots /\ rear = Behind
    BY <1>2 DEF IInv, TypeOK, View, RearIsBehind
  <1>6. NextSlot(rear) = Wrap(rear + 1)
    BY <1>5, ModIsWrap, CapacityAssumption DEF Slots, NextSlot
  <1>7. RearIsBehind'
    BY <1>1, <1>3, <1>4, <1>5, <1>6 DEF RearIsBehind
  <1>8. StoredBehind' /\ CopiedOldest'
    BY <1>1, <1>2, <1>3, <1>4 DEF View, StoredBehind, CopiedOldest
  <1>9. HandsMatch'
    BY <1>1 DEF View, HandsMatch, Goto, IInv, TypeOK, Carrying, EnqueuePending
  <1>10. QueueOfTasks'
    BY <1>1, <1>4 DEF View, QueueOfTasks
  <1> QED
    BY <1>4, <1>7, <1>8, <1>9, <1>10 DEF View

\* The totals overwrite no slot.
LEMMA NoOverlay == TypeOK /\ Fits => TasksUnderTotals = tasks
  BY CapacityAssumption DEF TypeOK, Fits, TasksUnderTotals, OnTotals, Slots

\* The task enters the queue when it is counted.
LEMMA CountAppends ==
  ASSUME NEW th \in Threads, IInv, IInv', View, Fits, EnqueueCount(th)
  PROVE  View' /\ Len(queueBar) < Capacity /\ queueBar' = Append(queueBar, task[th])
  <1>1. /\ Goto(th, "enq_count", "enq_unlock")
        /\ count' = count + 1
        /\ UNCHANGED <<front, rear, tasks, task>>
    BY NoOverlay DEF EnqueueCount, IInv
  <1>2. /\ At({"deq_count"}) = {} /\ At({"enq_count"}) = {th}
        /\ At({"enq_advance", "enq_count"}) = {th}
        /\ At({"deq_advance", "deq_count"}) = {}
    BY <1>1, AloneInside DEF Goto, Critical
  <1>3. /\ At({"deq_count"})' = {} /\ At({"enq_count"})' = {}
        /\ At({"enq_advance", "enq_count"})' = {}
        /\ At({"deq_advance", "deq_count"})' = {}
    BY <1>1, <1>2, AtNext DEF IInv
  <1>4. count \in 0..(Capacity - 1) /\ count' \in 0..Capacity
    BY <1>1, CountBounds, CapacityAssumption DEF At, Goto
  <1>5. UNCHANGED Oldest
    BY <1>1, <1>2, <1>3 DEF Oldest
  <1>6. Oldest \in Slots /\ rear = Wrap(Behind + 1)
    BY <1>2, <1>4, QueueFacts, CapacityAssumption DEF IInv, View, RearIsBehind
  <1>7. Wrap(Behind + 1) = Behind'
    BY <1>1, <1>4, <1>5, <1>6, CapacityAssumption DEF Behind, Wrap, Slots
  <1>8. /\ \A i \in 1..count : queueBar'[i] = queueBar[i]
        /\ queueBar'[count + 1] = task[th]
    <2>1. \A i \in 1..count : queueBar'[i] = queueBar[i]
      BY <1>1, <1>4, <1>5, QueueFacts, QueueFactsNext, CapacityAssumption DEF IInv
    <2>2. queueBar'[count + 1] = tasks[Wrap(Oldest + (count + 1) - 1)]
      BY <1>1, <1>4, <1>5, QueueFactsNext, CapacityAssumption DEF IInv
    <2>3. Wrap(Oldest + (count + 1) - 1) = Behind
      BY <1>4, <1>6 DEF Behind, Slots
    <2>4. tasks[Behind] = task[th]
      BY <1>2 DEF View, StoredBehind
    <2> QED
      BY <2>1, <2>2, <2>3, <2>4
  <1>9. /\ count \in Nat
        /\ queueBar \in [1..count -> Tasks \cup {NoTask}]
        /\ queueBar' \in [1..(count + 1) -> Tasks \cup {NoTask}]
    BY <1>1, <1>4, QueueFacts, QueueFactsNext, CapacityAssumption DEF IInv
  <1>10. queueBar' = Append(queueBar, task[th]) /\ Len(queueBar) = count
    BY <1>8, <1>9, LongerIsAppend, FunctionIsSequence
  <1>11. RearIsBehind'
    BY <1>1, <1>3, <1>6, <1>7 DEF RearIsBehind
  <1>12. StoredBehind' /\ CopiedOldest'
    BY <1>3 DEF StoredBehind, CopiedOldest
  <1>13. task[th] \in Tasks
    BY <1>1 DEF View, HandsMatch, Goto, Carrying, EnqueuePending
  <1>14. HandsMatch'
    BY <1>1 DEF View, HandsMatch, Goto, IInv, TypeOK, Carrying, EnqueuePending, EnqueueDone
  <1>15. QueueOfTasks'
    BY <1>1, <1>4, <1>8, <1>13 DEF View, QueueOfTasks
  <1> QED
    BY <1>4, <1>10, <1>11, <1>12, <1>14, <1>15, CapacityAssumption DEF View

\* The copy out of the ring is of the oldest task.
LEMMA CopyKeepsQueue ==
  ASSUME NEW th \in Threads, IInv, IInv', View, Fits, DequeueCopy(th)
  PROVE  View' /\ UNCHANGED queueBar
  <1>1. /\ Goto(th, "deq_copy", "deq_advance")
        /\ task' = [task EXCEPT ![th] = tasks[front]]
        /\ UNCHANGED ring
    BY DEF DequeueCopy
  <1>2. /\ At({"deq_count"}) = {} /\ At({"enq_count"}) = {}
        /\ At({"enq_advance", "enq_count"}) = {}
    BY <1>1, AloneInside DEF Goto, Critical
  <1>3. /\ At({"deq_count"})' = {} /\ At({"enq_count"})' = {}
        /\ At({"enq_advance", "enq_count"})' = {}
        /\ At({"deq_advance", "deq_count"})' = {th}
    <2>1. At({"deq_advance", "deq_count"}) = {}
      BY <1>1, AloneInside DEF Goto, Critical
    <2> QED
      BY <1>1, <1>2, <2>1, AtNext DEF IInv
  <1>4. UNCHANGED <<Oldest, Behind, queueBar>> /\ Oldest = front
    BY <1>1, <1>2, <1>3 DEF Oldest, Behind, queueBar, ring
  <1>5. count \in 1..Capacity /\ front \in Slots
    BY <1>1, CountBounds, CapacityAssumption
    DEF At, Goto, TokenClaimed, DequeuePending, IInv, TypeOK
  <1>6. queueBar[1] = tasks[front]
    <2>1. queueBar[1] = tasks[Wrap(Oldest + 1 - 1)]
      BY <1>5, QueueFacts, CapacityAssumption DEF IInv
    <2>2. Wrap(Oldest + 1 - 1) = front
      BY <1>4, <1>5, CapacityAssumption DEF Slots, Wrap
    <2> QED
      BY <2>1, <2>2
  <1>7. tasks[front] \in Tasks
    BY <1>5, <1>6, CapacityAssumption DEF View, QueueOfTasks
  <1>8. task'[th] = tasks[front] /\ OnlyHandsOf(th)
    BY <1>1 DEF IInv, TypeOK, OnlyHandsOf
  <1>9. RearIsBehind'
    BY <1>1, <1>2, <1>3, <1>4 DEF View, RearIsBehind, ring
  <1>10. StoredBehind' /\ CopiedOldest'
    BY <1>1, <1>3, <1>4, <1>8 DEF StoredBehind, CopiedOldest, ring
  <1>11. HandsMatch'
    BY <1>1, <1>7, <1>8 DEF View, HandsMatch, OnlyHandsOf, Goto, IInv, TypeOK, Carrying
  <1>12. QueueOfTasks'
    BY <1>1, <1>4 DEF View, QueueOfTasks, ring
  <1> QED
    BY <1>4, <1>9, <1>10, <1>11, <1>12 DEF View

\* front moves on before the task is taken from the count.
LEMMA FrontKeepsQueue ==
  ASSUME NEW th \in Threads, IInv, IInv', View, Fits, DequeueAdvance(th)
  PROVE  View' /\ UNCHANGED queueBar
  <1>1. /\ Goto(th, "deq_advance", "deq_count")
        /\ front' = NextSlot(front)
        /\ UNCHANGED <<rear, count, tasks, task>>
    BY DEF DequeueAdvance
  <1>2. /\ At({"deq_count"}) = {} /\ At({"enq_count"}) = {}
        /\ At({"enq_advance", "enq_count"}) = {}
        /\ At({"deq_advance", "deq_count"}) = {th}
    BY <1>1, AloneInside DEF Goto, Critical
  <1>3. /\ At({"deq_count"})' = {th} /\ At({"enq_count"})' = {}
        /\ At({"enq_advance", "enq_count"})' = {}
        /\ At({"deq_advance", "deq_count"})' = {th}
    BY <1>1, <1>2, AtNext DEF IInv
  <1>4. front \in Slots /\ front' \in Slots /\ count' \in 0..Capacity
    BY <1>1, CountBounds DEF IInv, TypeOK
  <1>5. front' = Wrap(front + 1)
    BY <1>1, <1>4, ModIsWrap, CapacityAssumption DEF Slots, NextSlot
  <1>6. Oldest = front /\ Oldest' = SlotBefore(front')
    BY <1>1, <1>2, <1>3, <1>4, QueueFacts, QueueFactsNext DEF IInv
  <1>7. UNCHANGED Oldest
    BY <1>4, <1>5, <1>6, CapacityAssumption DEF SlotBefore, Slots, Wrap
  <1>8. UNCHANGED <<Behind, queueBar>>
    BY <1>1, <1>7 DEF Behind, queueBar
  <1>9. RearIsBehind'
    BY <1>1, <1>2, <1>3, <1>8 DEF View, RearIsBehind
  <1>10. StoredBehind' /\ CopiedOldest'
    BY <1>1, <1>2, <1>3, <1>7 DEF View, StoredBehind, CopiedOldest
  <1>11. HandsMatch'
    BY <1>1 DEF View, HandsMatch, Goto, IInv, TypeOK, Carrying
  <1>12. QueueOfTasks'
    BY <1>1, <1>8 DEF View, QueueOfTasks
  <1> QED
    BY <1>8, <1>9, <1>10, <1>11, <1>12 DEF View

\* The task leaves the queue when it is no longer counted.
LEMMA CountTakesOldest ==
  ASSUME NEW th \in Threads, IInv, IInv', View, Fits, DequeueCount(th)
  PROVE  /\ View'
         /\ queueBar # <<>> /\ queueBar' = Tail(queueBar)
         /\ task[th] = Head(queueBar)
  <1>1. /\ Goto(th, "deq_count", "deq_unlock")
        /\ count' = count - 1
        /\ UNCHANGED <<front, rear, tasks, task>>
    BY NoOverlay DEF DequeueCount, IInv
  <1>2. /\ At({"deq_count"}) = {th} /\ At({"enq_count"}) = {}
        /\ At({"enq_advance", "enq_count"}) = {}
        /\ At({"deq_advance", "deq_count"}) = {th}
    BY <1>1, AloneInside DEF Goto, Critical
  <1>3. /\ At({"deq_count"})' = {} /\ At({"enq_count"})' = {}
        /\ At({"enq_advance", "enq_count"})' = {}
        /\ At({"deq_advance", "deq_count"})' = {}
    BY <1>1, <1>2, AtNext DEF IInv
  <1>4. count \in 1..Capacity /\ count' \in 0..Capacity /\ front \in Slots
    BY <1>1, CountBounds, CapacityAssumption
    DEF At, Goto, TokenClaimed, DequeuePending, IInv, TypeOK
  <1>5. Oldest = SlotBefore(front) /\ Oldest' = front /\ Oldest \in Slots
    BY <1>1, <1>2, <1>3, <1>4, QueueFacts, QueueFactsNext, CapacityAssumption DEF IInv
  <1>6. Oldest' = Wrap(Oldest + 1)
    BY <1>4, <1>5, CapacityAssumption DEF SlotBefore, Slots, Wrap
  <1>7. UNCHANGED Behind
    BY <1>1, <1>4, <1>5, <1>6, CapacityAssumption DEF Behind, Slots, Wrap
  <1>8. \A i \in 1..count' : queueBar'[i] = queueBar[i + 1]
    <2> SUFFICES ASSUME NEW i \in 1..count' PROVE queueBar'[i] = queueBar[i + 1]
      OBVIOUS
    <2>1. i + 1 \in 1..count
      BY <1>1, <1>4, CapacityAssumption
    <2>2. queueBar'[i] = tasks[Wrap(Oldest' + i - 1)]
      BY <1>1, <1>4, QueueFactsNext DEF IInv
    <2>3. queueBar[i + 1] = tasks[Wrap(Oldest + (i + 1) - 1)]
      BY <2>1, <1>4, QueueFacts, CapacityAssumption DEF IInv
    <2>4. Wrap(Oldest' + i - 1) = Wrap(Oldest + (i + 1) - 1)
      BY <1>1, <1>4, <1>5, <1>6, CapacityAssumption DEF Slots, Wrap
    <2> QED
      BY <2>2, <2>3, <2>4
  <1>9. /\ count' \in Nat
        /\ queueBar \in [1..(count' + 1) -> Tasks \cup {NoTask}]
        /\ queueBar' \in [1..count' -> Tasks \cup {NoTask}]
    BY <1>1, <1>4, QueueFacts, QueueFactsNext, CapacityAssumption DEF IInv
  <1>10. /\ queueBar # <<>> /\ queueBar' = Tail(queueBar)
         /\ Head(queueBar) = queueBar[1]
    <2> DEFINE n == count'  f == queueBar  g == queueBar'  S == Tasks \cup {NoTask}
    <2>1. /\ n \in Nat /\ f \in [1..(n + 1) -> S] /\ g \in [1..n -> S]
          /\ \A i \in 1..n : g[i] = f[i + 1]
      BY <1>8, <1>9
    <2> HIDE DEF n, f, g, S
    <2>2. g = Tail(f) /\ f # <<>> /\ Head(f) = f[1]
      BY <2>1, ShorterIsTail
    <2> QED
      BY <2>2 DEF f, g
  <1>11. queueBar[1] = task[th]
    <2>1. queueBar[1] = tasks[Wrap(Oldest + 1 - 1)]
      BY <1>4, QueueFacts, CapacityAssumption DEF IInv
    <2>2. Wrap(Oldest + 1 - 1) = Oldest
      BY <1>5, CapacityAssumption DEF Slots, Wrap
    <2>3. tasks[Oldest] = task[th]
      BY <1>2 DEF View, CopiedOldest
    <2> QED
      BY <2>1, <2>2, <2>3
  <1>12. RearIsBehind'
    BY <1>1, <1>2, <1>3, <1>7 DEF View, RearIsBehind
  <1>13. StoredBehind' /\ CopiedOldest'
    BY <1>3 DEF StoredBehind, CopiedOldest
  <1>14. HandsMatch'
    BY <1>1 DEF View, HandsMatch, Goto, IInv, TypeOK, Carrying, DequeueDone
  <1>15. QueueOfTasks'
    BY <1>1, <1>4, <1>8, CapacityAssumption DEF View, QueueOfTasks
  <1> QED
    BY <1>10, <1>11, <1>12, <1>13, <1>14, <1>15 DEF View

-----------------------------------------------------------------------------
(* Each step is a step of the interface, or none. *)

Refines == View' /\ (Interface!Next \/ UNCHANGED Interface!vars)

\* The moves that change nothing but where a thread is.
QuietMoves ==
  {<<"enq_slot", "enq_lock">>, <<"enq_lock", "enq_store">>, <<"enq_unlock", "enq_signal">>,
   <<"deq_token", "deq_lock">>, <<"deq_lock", "deq_test">>, <<"deq_test", "deq_copy">>,
   <<"deq_unlock", "deq_signal">>,
   <<"idle", "print_lock">>, <<"print_lock", "print_walk">>, <<"print_walk", "idle">>}

\* A quiet move stays within the same operation of the interface.
LEMMA QuietMoveKinds ==
  ASSUME NEW from, NEW to, <<from, to>> \in QuietMoves
  PROVE  /\ from \notin Halfway /\ to \notin Halfway
         /\ from \in Carrying <=> to \in Carrying
         /\ from \in DequeuePending <=> to \in DequeuePending
         /\ OpAt(from) = OpAt(to)
  BY DEF QuietMoves, Halfway, Carrying, OpAt, EnqueuePending, DequeuePending,
     EnqueueDone, DequeueDone

\* A quiet move is no step of the interface.
LEMMA QuietMoveRefines ==
  ASSUME NEW th \in Threads, NEW from, NEW to, IInv, IInv', View, Goto(th, from, to),
         <<from, to>> \in QuietMoves, UNCHANGED ring, UNCHANGED task
  PROVE  Refines
  <1>1. /\ from \notin Halfway /\ to \notin Halfway
        /\ from \in Carrying <=> to \in Carrying
        /\ from \in DequeuePending <=> to \in DequeuePending
        /\ OpAt(from) = OpAt(to)
    BY QuietMoveKinds
  <1>2. OnlyHandsOf(th)
    BY DEF OnlyHandsOf
  <1>3. task'[th] \in IF to \in Carrying THEN Tasks ELSE {NoTask}
    BY <1>1 DEF View, HandsMatch, Goto
  <1>4. View' /\ UNCHANGED queueBar
    BY <1>1, <1>2, <1>3, QuietKeepsView
  <1>5. ValAt(from, task[th]) = ValAt(to, task'[th])
    BY <1>1 DEF ValAt
  <1>6. UNCHANGED <<opBar, valBar>>
    BY <1>1, <1>2, <1>5, BarsStay DEF IInv
  <1> QED
    BY <1>4, <1>6 DEF Refines, Interface!vars

\* The calls begin an operation; print() is none.
LEMMA CallRefines ==
  ASSUME NEW th \in Threads, IInv, IInv', View, Call(th)
  PROVE  Refines
  <1>1. ASSUME NEW t \in Tasks, CallEnqueue(th, t) PROVE Refines
    <2>1. /\ Goto(th, "idle", "enq_slot")
          /\ OnlyHandsOf(th) /\ task'[th] = t
          /\ UNCHANGED ring
      BY <1>1 DEF CallEnqueue, OnlyHandsOf, IInv, TypeOK
    <2>2. View' /\ UNCHANGED queueBar
      BY <2>1, QuietKeepsView DEF Halfway, Carrying, EnqueuePending
    <2>3. /\ opBar[th] = "idle"
          /\ opBar' = [opBar EXCEPT ![th] = "enqueue"]
          /\ valBar' = [valBar EXCEPT ![th] = t]
      BY <2>1, BarsOfMove DEF IInv, OpAt, ValAt, EnqueuePending, DequeuePending,
         EnqueueDone, DequeueDone
    <2> QED
      BY <2>2, <2>3 DEF Refines, Interface!Next, Interface!CallEnqueue
  <1>2. CASE CallDequeue(th)
    <2>1. /\ Goto(th, "idle", "deq_token")
          /\ OnlyHandsOf(th) /\ task' = task
          /\ UNCHANGED ring
      BY <1>2 DEF CallDequeue, OnlyHandsOf
    <2>2. task[th] = NoTask
      BY <2>1 DEF View, HandsMatch, Goto, Carrying, EnqueuePending, EnqueueDone, DequeueDone
    <2>3. View' /\ UNCHANGED queueBar
      BY <2>1, <2>2, QuietKeepsView
      DEF Halfway, Carrying, EnqueuePending, EnqueueDone, DequeueDone
    <2>4. /\ opBar[th] = "idle" /\ valBar[th] = NoTask
          /\ opBar' = [opBar EXCEPT ![th] = "dequeue"]
          /\ valBar' = [valBar EXCEPT ![th] = NoTask]
      BY <2>1, <2>2, BarsOfMove DEF IInv, OpAt, ValAt, EnqueuePending, DequeuePending,
         EnqueueDone, DequeueDone
    <2>5. UNCHANGED valBar
      BY <2>4 DEF valBar
    <2> QED
      BY <2>3, <2>4, <2>5 DEF Refines, Interface!Next, Interface!CallDequeue
  <1>3. CASE CallPrint(th)
    BY <1>3, QuietMoveRefines DEF CallPrint, QuietMoves
  <1> QED
    BY <1>1, <1>2, <1>3 DEF Call

\* A wait that fails ends an operation without effect; in print() it is none.
LEMMA InterruptRefines ==
  ASSUME NEW th \in Threads, IInv, IInv', View, Interrupt(th)
  PROVE  Refines
  <1>1. PICK from \in {"enq_slot", "enq_lock", "deq_token", "deq_lock", "print_lock"} :
          Goto(th, from, "idle")
    BY DEF Interrupt, InterruptFirstWait, InterruptEnqueueLock, InterruptDequeueLock
  <1>2. UNCHANGED ring /\ (task' = task \/ task' = [task EXCEPT ![th] = NoTask])
    BY DEF Interrupt, InterruptFirstWait, InterruptEnqueueLock, InterruptDequeueLock
  <1>3. task' = task => from = "deq_lock" \/ task[th] = NoTask
    BY <1>1 DEF Interrupt, InterruptFirstWait, InterruptEnqueueLock, InterruptDequeueLock,
       Goto, IInv, TypeOK
  <1>4. from \in {"deq_token", "deq_lock", "print_lock"} => task[th] = NoTask
    BY <1>1 DEF View, HandsMatch, Goto, Carrying, EnqueuePending, EnqueueDone, DequeueDone
  <1>5. OnlyHandsOf(th) /\ task'[th] = NoTask
    BY <1>2, <1>3, <1>4 DEF OnlyHandsOf, IInv, TypeOK
  <1>6. View' /\ UNCHANGED queueBar
    BY <1>1, <1>2, <1>5, QuietKeepsView
    DEF Halfway, Carrying, EnqueuePending, EnqueueDone, DequeueDone
  <1>7. /\ opBar[th] = OpAt(from)
        /\ valBar[th] = ValAt(from, task[th])
        /\ opBar' = [opBar EXCEPT ![th] = "idle"]
        /\ valBar' = [valBar EXCEPT ![th] = NoTask]
    BY <1>1, <1>5, BarsOfMove DEF IInv, OpAt, ValAt, EnqueuePending, DequeuePending,
       EnqueueDone, DequeueDone
  <1>8. CASE from = "print_lock"
    <2>1. opBar[th] = "idle" /\ valBar[th] = NoTask
      BY <1>4, <1>7, <1>8 DEF OpAt, ValAt, EnqueuePending, DequeuePending,
         EnqueueDone, DequeueDone
    <2>2. UNCHANGED <<opBar, valBar>>
      BY <1>7, <2>1 DEF opBar, valBar
    <2> QED
      BY <1>6, <2>2 DEF Refines, Interface!vars
  <1>9. CASE from # "print_lock"
    <2>1. opBar[th] \in {"enqueue", "dequeue"}
      BY <1>7, <1>9 DEF OpAt, EnqueuePending, DequeuePending, EnqueueDone, DequeueDone
    <2> QED
      BY <1>6, <1>7, <2>1 DEF Refines, Interface!Next, Interface!Throw
  <1> QED
    BY <1>8, <1>9

\* The return of an operation.
LEMMA SignalRefines ==
  ASSUME NEW th \in Threads, IInv, IInv', View, EnqueueSignal(th) \/ DequeueSignal(th)
  PROVE  Refines
  <1>1. PICK from \in {"enq_signal", "deq_signal"} : Goto(th, from, "idle")
    BY DEF EnqueueSignal, DequeueSignal
  <1>2. UNCHANGED ring /\ OnlyHandsOf(th) /\ task'[th] = NoTask
    BY DEF EnqueueSignal, DequeueSignal, OnlyHandsOf, IInv, TypeOK
  <1>3. View' /\ UNCHANGED queueBar
    BY <1>1, <1>2, QuietKeepsView
    DEF Halfway, Carrying, EnqueuePending, EnqueueDone, DequeueDone
  <1>4. /\ opBar[th] = "done"
        /\ opBar' = [opBar EXCEPT ![th] = "idle"]
        /\ valBar' = [valBar EXCEPT ![th] = NoTask]
    BY <1>1, <1>2, BarsOfMove DEF IInv, OpAt, ValAt, EnqueuePending, DequeuePending,
       EnqueueDone, DequeueDone
  <1> QED
    BY <1>3, <1>4 DEF Refines, Interface!Next, Interface!Return

\* An update of the ring is a step of the interface when the task is counted.
LEMMA UpdateRefines ==
  ASSUME NEW th \in Threads, IInv, IInv', View, Fits,
         \/ EnqueueStore(th) \/ EnqueueAdvance(th) \/ EnqueueCount(th)
         \/ DequeueCopy(th) \/ DequeueAdvance(th) \/ DequeueCount(th)
  PROVE  Refines
  <1> USE DEF OpAt, ValAt, EnqueuePending, DequeuePending, EnqueueDone, DequeueDone
  <1>1. CASE EnqueueStore(th)
    <2>1. Goto(th, "enq_store", "enq_advance") /\ OnlyHandsOf(th) /\ task' = task
      BY <1>1 DEF EnqueueStore, OnlyHandsOf
    <2>2. UNCHANGED <<opBar, valBar>>
      BY <2>1, BarsStay DEF IInv
    <2> QED
      BY <1>1, <2>2, StoreKeepsQueue DEF Refines, Interface!vars
  <1>2. CASE EnqueueAdvance(th)
    <2>1. Goto(th, "enq_advance", "enq_count") /\ OnlyHandsOf(th) /\ task' = task
      BY <1>2 DEF EnqueueAdvance, OnlyHandsOf
    <2>2. UNCHANGED <<opBar, valBar>>
      BY <2>1, BarsStay DEF IInv
    <2> QED
      BY <1>2, <2>2, AdvanceKeepsQueue DEF Refines, Interface!vars
  <1>3. CASE EnqueueCount(th)
    <2>1. Goto(th, "enq_count", "enq_unlock") /\ OnlyHandsOf(th) /\ task' = task
      BY <1>3 DEF EnqueueCount, OnlyHandsOf
    <2>2. /\ opBar[th] = "enqueue" /\ valBar[th] = task[th]
          /\ opBar' = [opBar EXCEPT ![th] = "done"]
          /\ valBar' = [valBar EXCEPT ![th] = task[th]]
      BY <2>1, BarsOfMove DEF IInv
    <2>3. UNCHANGED valBar
      BY <2>2 DEF valBar
    <2>4. View' /\ Len(queueBar) < Capacity /\ queueBar' = Append(queueBar, valBar[th])
      BY <1>3, <2>2, CountAppends
    <2> QED
      BY <2>2, <2>3, <2>4 DEF Refines, Interface!Next, Interface!Enqueue
  <1>4. CASE DequeueCopy(th)
    <2>1. Goto(th, "deq_copy", "deq_advance") /\ OnlyHandsOf(th)
      BY <1>4 DEF DequeueCopy, OnlyHandsOf, IInv, TypeOK
    <2>2. UNCHANGED <<opBar, valBar>>
      BY <2>1, BarsStay DEF IInv
    <2> QED
      BY <1>4, <2>2, CopyKeepsQueue DEF Refines, Interface!vars
  <1>5. CASE DequeueAdvance(th)
    <2>1. Goto(th, "deq_advance", "deq_count") /\ OnlyHandsOf(th) /\ task' = task
      BY <1>5 DEF DequeueAdvance, OnlyHandsOf
    <2>2. UNCHANGED <<opBar, valBar>>
      BY <2>1, BarsStay DEF IInv
    <2> QED
      BY <1>5, <2>2, FrontKeepsQueue DEF Refines, Interface!vars
  <1>6. CASE DequeueCount(th)
    <2>1. Goto(th, "deq_count", "deq_unlock") /\ OnlyHandsOf(th) /\ task' = task
      BY <1>6 DEF DequeueCount, OnlyHandsOf
    <2>2. /\ opBar[th] = "dequeue"
          /\ opBar' = [opBar EXCEPT ![th] = "done"]
          /\ valBar' = [valBar EXCEPT ![th] = task[th]]
      BY <2>1, BarsOfMove DEF IInv
    <2>3. /\ View' /\ queueBar # <<>> /\ queueBar' = Tail(queueBar)
          /\ task[th] = Head(queueBar)
      BY <1>6, CountTakesOldest
    <2> QED
      BY <2>2, <2>3 DEF Refines, Interface!Next, Interface!Dequeue
  <1> QED
    BY <1>1, <1>2, <1>3, <1>4, <1>5, <1>6

\* The other steps wait for a semaphore or post the mutex.
LEMMA StepRefines ==
  ASSUME NEW th \in Threads, IInv, IInv', View, Fits, Step(th)
  PROVE  Refines
  <1>1. CASE \/ EnqueueStore(th) \/ EnqueueAdvance(th) \/ EnqueueCount(th)
             \/ DequeueCopy(th) \/ DequeueAdvance(th) \/ DequeueCount(th)
    BY <1>1, UpdateRefines
  <1>2. CASE EnqueueSignal(th) \/ DequeueSignal(th)
    BY <1>2, SignalRefines
  <1>3. CASE \/ EnqueueWaitSlot(th) \/ EnqueueLock(th) \/ EnqueueUnlock(th)
             \/ DequeueWaitToken(th) \/ DequeueLock(th) \/ DequeueUnlock(th)
             \/ PrintLock(th) \/ PrintUnlock(th)
    <2>1. PICK move \in QuietMoves : Goto(th, move[1], move[2])
      BY <1>3 DEF EnqueueWaitSlot, EnqueueLock, EnqueueUnlock, DequeueWaitToken,
         DequeueLock, DequeueUnlock, PrintLock, PrintUnlock, WaitMutex, PostMutex, QuietMoves
    <2>2. UNCHANGED ring /\ UNCHANGED task
      BY <1>3 DEF EnqueueWaitSlot, EnqueueLock, EnqueueUnlock, DequeueWaitToken,
         DequeueLock, DequeueUnlock, PrintLock, PrintUnlock, WaitMutex, PostMutex
    <2>3. <<move[1], move[2]>> \in QuietMoves
      BY DEF QuietMoves
    <2> QED
      BY <2>1, <2>2, <2>3, QuietMoveRefines
  <1>4. CASE DequeueTest(th)
    <2>1. count # 0
      BY <1>4, CountBounds DEF At, Goto, DequeueTest, TokenClaimed, DequeuePending
    <2>2. Goto(th, "deq_test", "deq_copy") /\ UNCHANGED ring /\ UNCHANGED task
      BY <1>4, <2>1 DEF DequeueTest
    <2> QED
      BY <2>2, QuietMoveRefines DEF QuietMoves
  <1> QED
    BY <1>1, <1>2, <1>3, <1>4 DEF Step

-----------------------------------------------------------------------------
(* The theorems. *)

\* A new segment is the empty queue.
LEMMA InitRefines == Init => View /\ Interface!Init
  <1> SUFFICES ASSUME Init PROVE View /\ Interface!Init
    OBVIOUS
  <1>1. TypeOK /\ count = 0 /\ count \in 0..Capacity
    BY InitIInv, CapacityAssumption DEF Init, IInv
  <1>2. \A S : "idle" \notin S => At(S) = {}
    BY DEF Init, At
  <1>3. Oldest = 0 /\ Behind = 0
    BY <1>1, <1>2, QueueFacts, CapacityAssumption DEF Init, Behind, Wrap
  <1>4. queueBar = <<>>
    BY <1>1 DEF queueBar
  <1>5. /\ opBar = [th \in Threads |-> "idle"]
        /\ valBar = [th \in Threads |-> NoTask]
    BY DEF Init, opBar, valBar, EnqueuePending, DequeuePending, EnqueueDone, DequeueDone
  <1>6. View
    BY <1>1, <1>2, <1>3 DEF Init, View, RearIsBehind, StoredBehind, CopiedOldest,
       HandsMatch, QueueOfTasks, Carrying, EnqueuePending, EnqueueDone, DequeueDone
  <1> QED
    BY <1>4, <1>5, <1>6 DEF Interface!Init

\* Every step keeps the view, and is a step of the interface or none.
LEMMA NextRefines ==
  Fits /\ IInv /\ View /\ [Next]_vars => View' /\ [Interface!Next]_(Interface!vars)
  <1> SUFFICES ASSUME Fits, IInv, View, [Next]_vars PROVE Refines
    BY DEF Refines
  <1>1. IInv'
    BY NextIInv
  <1>2. CASE UNCHANGED vars
    BY <1>2 DEF vars, Refines, View, RearIsBehind, StoredBehind, CopiedOldest, HandsMatch,
       QueueOfTasks, Behind, Oldest, At, queueBar, opBar, valBar, Interface!vars
  <1>3. ASSUME NEW th \in Threads, Call(th) \/ Step(th) \/ Interrupt(th)
        PROVE  Refines
    BY <1>1, <1>3, CallRefines, StepRefines, InterruptRefines
  <1> QED
    BY <1>2, <1>3 DEF Next

\* Up to a capacity of COUNT_TASKS, enqueue and dequeue over the semaphores and
\* the ring are the operations of a bounded first-in first-out queue, whatever
\* threads interleave and whichever waits fail.
THEOREM ImplementsTheInterface ==
  ASSUME Fits
  PROVE  Spec => ImplementsInterface
  <1>1. IInv /\ View /\ [Next]_vars => View' /\ [Interface!Next]_(Interface!vars)
    BY NextRefines
  <1> QED
    BY <1>1, Inductive, InitRefines, PTL DEF Spec, ImplementsInterface, Interface!Spec

\* Up to that capacity a dequeue takes out what an enqueue stored, a task.
THEOREM DequeuesTakeTasks ==
  ASSUME Fits
  PROVE  Spec => []EverySlotHoldsATask
  <1>1. IInv /\ View /\ [Next]_vars => View'
    BY NextRefines
  <1>2. View => EverySlotHoldsATask
    BY DEF View, HandsMatch, EverySlotHoldsATask, Carrying, At
  <1> QED
    BY <1>1, <1>2, Inductive, InitRefines, PTL DEF Spec
=============================================================================
