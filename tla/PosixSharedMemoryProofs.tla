---------------------- MODULE PosixSharedMemoryProofs ----------------------
(***************************************************************************)
(* The safety of PosixSharedMemory for every set of threads, every set of  *)
(* tasks and every capacity.  The inductive invariant says where every     *)
(* unit of the three semaphores is: the rest is counting the threads at    *)
(* each place, and a step moves one thread from one place to another.      *)
(***************************************************************************)
EXTENDS PosixSharedMemory, FiniteSetTheorems, TLAPS

\* The inductive invariant: types, and the three accounts of the semaphores.
IInv ==
  /\ TypeOK
  /\ MutualExclusion
  /\ SlotsAccounted
  /\ TokensAccounted

\* 1 when a place is one of S.
Bit(place, S) == IF place \in S THEN 1 ELSE 0

-----------------------------------------------------------------------------
(* Counting threads. *)

\* The threads at some places are finitely many.
LEMMA AtFinite ==
  ASSUME NEW S
  PROVE  /\ IsFiniteSet(At(S))
         /\ Cardinality(At(S)) \in Nat
  <1>1. At(S) \subseteq Threads
    BY DEF At
  <1>2. IsFiniteSet(At(S))
    BY <1>1, ThreadsAssumption, FS_Subset
  <1> QED
    BY <1>2, FS_CardinalityType

\* A thread that moves leaves the count of the places it comes from and joins
\* the count of the places it goes to.
LEMMA MoveCount ==
  ASSUME NEW S, NEW th \in Threads, NEW from, NEW to,
         TypeOK, Goto(th, from, to)
  PROVE  Cardinality(At(S))'
           = Cardinality(At(S)) - Bit(from, S) + Bit(to, S)
  <1> DEFINE Others == At(S) \ {th}
  <1>1. IsFiniteSet(Others) /\ Cardinality(Others) \in Nat
    BY AtFinite, FS_Difference, FS_CardinalityType
  <1>2. At(S) = IF from \in S THEN Others \cup {th} ELSE Others
    BY DEF At, Goto
  <1>3. At(S)' = IF to \in S THEN Others \cup {th} ELSE Others
    BY DEF At, Goto, TypeOK
  <1>4. th \notin Others
    OBVIOUS
  <1> HIDE DEF Others
  <1>5. Cardinality(Others \cup {th}) = Cardinality(Others) + 1
    BY <1>1, <1>4, FS_AddElement
  <1>6. Cardinality(At(S)) = Cardinality(Others) + Bit(from, S)
    <2>1. CASE from \in S
      BY <1>1, <1>2, <1>5, <2>1 DEF Bit
    <2>2. CASE from \notin S
      BY <1>1, <1>2, <2>2 DEF Bit
    <2> QED
      BY <2>1, <2>2
  <1>7. Cardinality(At(S))' = Cardinality(Others) + Bit(to, S)
    <2>1. CASE to \in S
      BY <1>1, <1>3, <1>5, <2>1 DEF Bit
    <2>2. CASE to \notin S
      BY <1>1, <1>3, <2>2 DEF Bit
    <2> QED
      BY <2>1, <2>2
  <1>8. Bit(from, S) \in Int /\ Bit(to, S) \in Int
    BY DEF Bit
  <1> QED
    BY <1>1, <1>6, <1>7, <1>8

\* No thread is anywhere but "idle" in the initial state.
LEMMA InitIInv == Init => IInv
  <1> SUFFICES ASSUME Init PROVE IInv
    OBVIOUS
  <1>1. TypeOK
    BY CapacityAssumption, SizeAssumption DEF Init, TypeOK, Slots, Places
  <1>2. /\ At(Critical) = {}
        /\ At(SlotClaimed) = {}
        /\ At(TokenClaimed) = {}
        /\ At(EnqueueDone) = {}
        /\ At(DequeueDone) = {}
    BY DEF Init, At, Critical, SlotClaimed, TokenClaimed, EnqueueDone,
           DequeueDone, EnqueuePending, DequeuePending
  <1>3. Cardinality({}) = 0
    BY FS_EmptySet
  <1> QED
    BY <1>1, <1>2, <1>3, CapacityAssumption
    DEF Init, IInv, MutualExclusion, SlotsAccounted, TokensAccounted

\* The counts of the threads are natural numbers.
LEMMA CountsType ==
  /\ Cardinality(At(Critical)) \in Nat
  /\ Cardinality(At(SlotClaimed)) \in Nat
  /\ Cardinality(At(TokenClaimed)) \in Nat
  /\ Cardinality(At(EnqueueDone)) \in Nat
  /\ Cardinality(At(DequeueDone)) \in Nat
  BY AtFinite

\* The index after a slot's is a slot's.
LEMMA NextSlotType == \A i \in Slots : NextSlot(i) \in Slots
  BY CapacityAssumption DEF Slots, NextSlot

\* The totals and the slots keep their types where they overwrite each other.
LEMMA OverlayType ==
  /\ \A i, total : total \in 0..(SizeModulus - 1) =>
       Totals(i, total) \subseteq 0..(SizeModulus - 1)
  /\ tasks \in [Slots -> Tasks \cup {NoTask}] =>
       TasksUnderTotals \in [Slots -> Tasks \cup {NoTask}]
  BY DEF Totals, TasksUnderTotals

\* A step of a call keeps every variable in its type; the guards of the
\* semaphores keep their values natural numbers.
LEMMA StepTypeOK ==
  ASSUME TypeOK, NEW th \in Threads, Step(th)
  PROVE  TypeOK'
  <1> USE DEF TypeOK, Goto, semaphores, ring, Places, EnqueuePending,
          DequeuePending, EnqueueDone, DequeueDone, Printing
  <1>1. CASE EnqueueWaitSlot(th)
    BY <1>1 DEF EnqueueWaitSlot
  <1>2. CASE EnqueueLock(th)
    BY <1>2 DEF EnqueueLock, WaitMutex
  <1>3. CASE EnqueueStore(th)
    BY <1>3, OverlayType DEF EnqueueStore
  <1>4. CASE EnqueueAdvance(th)
    BY <1>4, NextSlotType DEF EnqueueAdvance
  <1>5. CASE EnqueueCount(th)
    BY <1>5, SizeAssumption, OverlayType DEF EnqueueCount
  <1>6. CASE EnqueueUnlock(th)
    BY <1>6 DEF EnqueueUnlock, PostMutex
  <1>7. CASE EnqueueSignal(th)
    BY <1>7 DEF EnqueueSignal
  <1>8. CASE DequeueWaitToken(th)
    BY <1>8 DEF DequeueWaitToken
  <1>9. CASE DequeueLock(th)
    BY <1>9 DEF DequeueLock, WaitMutex
  <1>10. CASE DequeueTest(th)
    BY <1>10 DEF DequeueTest
  <1>11. CASE DequeueCopy(th)
    BY <1>11 DEF DequeueCopy
  <1>12. CASE DequeueAdvance(th)
    BY <1>12, NextSlotType DEF DequeueAdvance
  <1>13. CASE DequeueCount(th)
    BY <1>13, SizeAssumption, OverlayType DEF DequeueCount
  <1>14. CASE DequeueUnlock(th)
    BY <1>14 DEF DequeueUnlock, PostMutex
  <1>15. CASE DequeueSignal(th)
    BY <1>15 DEF DequeueSignal
  <1>16. CASE PrintLock(th)
    BY <1>16 DEF PrintLock, WaitMutex
  <1>17. CASE PrintUnlock(th)
    BY <1>17 DEF PrintUnlock, PostMutex
  <1> QED
    BY <1>1, <1>2, <1>3, <1>4, <1>5, <1>6, <1>7, <1>8, <1>9, <1>10, <1>11,
       <1>12, <1>13, <1>14, <1>15, <1>16, <1>17 DEF Step

\* A call starts with an argument of the right type.
LEMMA CallTypeOK ==
  ASSUME TypeOK, NEW th \in Threads, Call(th)
  PROVE  TypeOK'
  BY DEF TypeOK, Call, CallEnqueue, CallDequeue, CallPrint, Goto,
     semaphores, ring, Places, EnqueuePending, DequeuePending, Printing

\* The error paths of sem_wait keep the types.
LEMMA InterruptTypeOK ==
  ASSUME TypeOK, NEW th \in Threads, Interrupt(th)
  PROVE  TypeOK'
  BY DEF TypeOK, Interrupt, InterruptFirstWait, InterruptEnqueueLock,
     InterruptDequeueLock, Goto, semaphores, ring, Places

-----------------------------------------------------------------------------
(* The accounts: what a step takes from one term it adds to another. *)

Accounts == MutualExclusion /\ SlotsAccounted /\ TokensAccounted

\* How many threads a step moves into or out of the counted places.
Shift(critical, slot, token, enqueued, dequeued) ==
  /\ Cardinality(At(Critical))' = Cardinality(At(Critical)) + critical
  /\ Cardinality(At(SlotClaimed))' = Cardinality(At(SlotClaimed)) + slot
  /\ Cardinality(At(TokenClaimed))' = Cardinality(At(TokenClaimed)) + token
  /\ Cardinality(At(EnqueueDone))' = Cardinality(At(EnqueueDone)) + enqueued
  /\ Cardinality(At(DequeueDone))' = Cardinality(At(DequeueDone)) + dequeued

Moved(from, to, S) == Bit(to, S) - Bit(from, S)

\* MoveCount for the five sets of places that the accounts count.
LEMMA ShiftOfMove ==
  ASSUME NEW th \in Threads, NEW from, NEW to, TypeOK, Goto(th, from, to)
  PROVE  Shift(Moved(from, to, Critical), Moved(from, to, SlotClaimed),
               Moved(from, to, TokenClaimed), Moved(from, to, EnqueueDone),
               Moved(from, to, DequeueDone))
  BY MoveCount, CountsType DEF Shift, Moved, Bit

\* A step of a call pays for every unit it takes.
LEMMA StepAccounts ==
  ASSUME IInv, NEW th \in Threads, Step(th)
  PROVE  Accounts'
  <1> USE DEF Accounts, MutualExclusion, SlotsAccounted, TokensAccounted,
          semaphores, ring, Critical, SlotClaimed, TokenClaimed, EnqueueDone,
          DequeueDone, EnqueuePending, DequeuePending
  <1>a. TypeOK
    BY DEF IInv
  <1>b. /\ Accounts
        /\ enqueue_sem \in Nat /\ dequeue_sem \in Nat /\ mutex_sem \in Nat
        /\ count \in Int
    BY DEF IInv, TypeOK
  <1>1. CASE EnqueueWaitSlot(th)
    <2>1. Goto(th, "enq_slot", "enq_lock")
      BY <1>1 DEF EnqueueWaitSlot
    <2>2. Shift(0, 1, 0, 0, 0)
      BY <1>a, <2>1, ShiftOfMove DEF Moved, Bit
    <2> QED
      BY <1>b, <1>1, <2>2, CountsType DEF EnqueueWaitSlot, Shift
  <1>2. CASE EnqueueLock(th)
    <2>1. Goto(th, "enq_lock", "enq_store")
      BY <1>2 DEF EnqueueLock, WaitMutex
    <2>2. Shift(1, 0, 0, 0, 0)
      BY <1>a, <2>1, ShiftOfMove DEF Moved, Bit
    <2> QED
      BY <1>b, <1>2, <2>2, CountsType DEF EnqueueLock, Shift, WaitMutex
  <1>3. CASE EnqueueStore(th)
    <2>1. Goto(th, "enq_store", "enq_advance")
      BY <1>3 DEF EnqueueStore
    <2>2. Shift(0, 0, 0, 0, 0)
      BY <1>a, <2>1, ShiftOfMove DEF Moved, Bit
    <2> QED
      BY <1>b, <1>3, <2>2, CountsType DEF EnqueueStore, Shift
  <1>4. CASE EnqueueAdvance(th)
    <2>1. Goto(th, "enq_advance", "enq_count")
      BY <1>4 DEF EnqueueAdvance
    <2>2. Shift(0, 0, 0, 0, 0)
      BY <1>a, <2>1, ShiftOfMove DEF Moved, Bit
    <2> QED
      BY <1>b, <1>4, <2>2, CountsType DEF EnqueueAdvance, Shift
  <1>5. CASE EnqueueCount(th)
    <2>1. Goto(th, "enq_count", "enq_unlock")
      BY <1>5 DEF EnqueueCount
    <2>2. Shift(0, -1, 0, 1, 0)
      BY <1>a, <2>1, ShiftOfMove DEF Moved, Bit
    <2>3. count' = count + 1 /\ UNCHANGED semaphores
      BY <1>5 DEF EnqueueCount
    <2> QED
      BY <1>b, <2>2, <2>3, CountsType DEF Shift
  <1>6. CASE EnqueueUnlock(th)
    <2>1. Goto(th, "enq_unlock", "enq_signal")
      BY <1>6 DEF EnqueueUnlock, PostMutex
    <2>2. Shift(-1, 0, 0, 0, 0)
      BY <1>a, <2>1, ShiftOfMove DEF Moved, Bit
    <2> QED
      BY <1>b, <1>6, <2>2, CountsType DEF EnqueueUnlock, Shift, PostMutex
  <1>7. CASE EnqueueSignal(th)
    <2>1. Goto(th, "enq_signal", "idle")
      BY <1>7 DEF EnqueueSignal
    <2>2. Shift(0, 0, 0, -1, 0)
      BY <1>a, <2>1, ShiftOfMove DEF Moved, Bit
    <2> QED
      BY <1>b, <1>7, <2>2, CountsType DEF EnqueueSignal, Shift
  <1>8. CASE DequeueWaitToken(th)
    <2>1. Goto(th, "deq_token", "deq_lock")
      BY <1>8 DEF DequeueWaitToken
    <2>2. Shift(0, 0, 1, 0, 0)
      BY <1>a, <2>1, ShiftOfMove DEF Moved, Bit
    <2> QED
      BY <1>b, <1>8, <2>2, CountsType DEF DequeueWaitToken, Shift
  <1>9. CASE DequeueLock(th)
    <2>1. Goto(th, "deq_lock", "deq_test")
      BY <1>9 DEF DequeueLock, WaitMutex
    <2>2. Shift(1, 0, 0, 0, 0)
      BY <1>a, <2>1, ShiftOfMove DEF Moved, Bit
    <2> QED
      BY <1>b, <1>9, <2>2, CountsType DEF DequeueLock, Shift, WaitMutex
  <1>10. CASE DequeueTest(th)
    <2>1. CASE count = 0
      <3>1. Goto(th, "deq_test", "idle")
        BY <1>10, <2>1 DEF DequeueTest
      <3>2. Shift(-1, 0, -1, 0, 0)
        BY <1>a, <3>1, ShiftOfMove DEF Moved, Bit
      <3> QED
        BY <1>b, <1>10, <2>1, <3>2, CountsType DEF DequeueTest, Shift
    <2>2. CASE count # 0
      <3>1. Goto(th, "deq_test", "deq_copy")
        BY <1>10, <2>2 DEF DequeueTest
      <3>2. Shift(0, 0, 0, 0, 0)
        BY <1>a, <3>1, ShiftOfMove DEF Moved, Bit
      <3> QED
        BY <1>b, <1>10, <2>2, <3>2, CountsType DEF DequeueTest, Shift
    <2> QED
      BY <2>1, <2>2
  <1>11. CASE DequeueCopy(th)
    <2>1. Goto(th, "deq_copy", "deq_advance")
      BY <1>11 DEF DequeueCopy
    <2>2. Shift(0, 0, 0, 0, 0)
      BY <1>a, <2>1, ShiftOfMove DEF Moved, Bit
    <2> QED
      BY <1>b, <1>11, <2>2, CountsType DEF DequeueCopy, Shift
  <1>12. CASE DequeueAdvance(th)
    <2>1. Goto(th, "deq_advance", "deq_count")
      BY <1>12 DEF DequeueAdvance
    <2>2. Shift(0, 0, 0, 0, 0)
      BY <1>a, <2>1, ShiftOfMove DEF Moved, Bit
    <2> QED
      BY <1>b, <1>12, <2>2, CountsType DEF DequeueAdvance, Shift
  <1>13. CASE DequeueCount(th)
    <2>1. Goto(th, "deq_count", "deq_unlock")
      BY <1>13 DEF DequeueCount
    <2>2. Shift(0, 0, -1, 0, 1)
      BY <1>a, <2>1, ShiftOfMove DEF Moved, Bit
    <2>3. count' = count - 1 /\ UNCHANGED semaphores
      BY <1>13 DEF DequeueCount
    <2> QED
      BY <1>b, <2>2, <2>3, CountsType DEF Shift
  <1>14. CASE DequeueUnlock(th)
    <2>1. Goto(th, "deq_unlock", "deq_signal")
      BY <1>14 DEF DequeueUnlock, PostMutex
    <2>2. Shift(-1, 0, 0, 0, 0)
      BY <1>a, <2>1, ShiftOfMove DEF Moved, Bit
    <2> QED
      BY <1>b, <1>14, <2>2, CountsType DEF DequeueUnlock, Shift, PostMutex
  <1>15. CASE DequeueSignal(th)
    <2>1. Goto(th, "deq_signal", "idle")
      BY <1>15 DEF DequeueSignal
    <2>2. Shift(0, 0, 0, 0, -1)
      BY <1>a, <2>1, ShiftOfMove DEF Moved, Bit
    <2> QED
      BY <1>b, <1>15, <2>2, CountsType DEF DequeueSignal, Shift
  <1>16. CASE PrintLock(th)
    <2>1. Goto(th, "print_lock", "print_walk")
      BY <1>16 DEF PrintLock, WaitMutex
    <2>2. Shift(1, 0, 0, 0, 0)
      BY <1>a, <2>1, ShiftOfMove DEF Moved, Bit
    <2> QED
      BY <1>b, <1>16, <2>2, CountsType DEF PrintLock, Shift, WaitMutex
  <1>17. CASE PrintUnlock(th)
    <2>1. Goto(th, "print_walk", "idle")
      BY <1>17 DEF PrintUnlock, PostMutex
    <2>2. Shift(-1, 0, 0, 0, 0)
      BY <1>a, <2>1, ShiftOfMove DEF Moved, Bit
    <2> QED
      BY <1>b, <1>17, <2>2, CountsType DEF PrintUnlock, Shift, PostMutex
  <1> QED
    BY <1>1, <1>2, <1>3, <1>4, <1>5, <1>6, <1>7, <1>8, <1>9, <1>10, <1>11,
       <1>12, <1>13, <1>14, <1>15, <1>16, <1>17 DEF Step

\* A call starts at a place that no account counts.
LEMMA CallAccounts ==
  ASSUME IInv, NEW th \in Threads, Call(th)
  PROVE  Accounts'
  <1>1. PICK to \in {"enq_slot", "deq_token", "print_lock"} : Goto(th, "idle", to)
    BY DEF Call, CallEnqueue, CallDequeue, CallPrint
  <1>2. Shift(0, 0, 0, 0, 0)
    BY <1>1, ShiftOfMove DEF IInv, Moved, Bit, Critical, SlotClaimed,
       TokenClaimed, EnqueueDone, DequeueDone, EnqueuePending, DequeuePending
  <1>3. UNCHANGED <<semaphores, count>>
    BY DEF Call, CallEnqueue, CallDequeue, CallPrint, ring
  <1> QED
    BY <1>2, <1>3, CountsType DEF IInv, Accounts, MutualExclusion,
       SlotsAccounted, TokensAccounted, Shift, semaphores

\* A call that throws has given back what it claimed.
LEMMA InterruptAccounts ==
  ASSUME IInv, NEW th \in Threads, Interrupt(th)
  PROVE  Accounts'
  <1> USE DEF Accounts, MutualExclusion, SlotsAccounted, TokensAccounted,
          semaphores, ring, Critical, SlotClaimed, TokenClaimed, EnqueueDone,
          DequeueDone, EnqueuePending, DequeuePending
  <1>a. TypeOK
    BY DEF IInv
  <1>b. /\ Accounts
        /\ enqueue_sem \in Nat /\ dequeue_sem \in Nat /\ mutex_sem \in Nat
        /\ count \in Int
    BY DEF IInv, TypeOK
  <1>1. CASE InterruptFirstWait(th)
    <2>1. PICK from \in {"enq_slot", "deq_token", "print_lock"} : Goto(th, from, "idle")
      BY <1>1 DEF InterruptFirstWait
    <2>2. Shift(0, 0, 0, 0, 0)
      BY <1>a, <2>1, ShiftOfMove DEF Moved, Bit
    <2> QED
      BY <1>b, <1>1, <2>2, CountsType DEF InterruptFirstWait, Shift
  <1>2. CASE InterruptEnqueueLock(th)
    <2>1. Goto(th, "enq_lock", "idle")
      BY <1>2 DEF InterruptEnqueueLock
    <2>2. Shift(0, -1, 0, 0, 0)
      BY <1>a, <2>1, ShiftOfMove DEF Moved, Bit
    <2> QED
      BY <1>b, <1>2, <2>2, CountsType DEF InterruptEnqueueLock, Shift
  <1>3. CASE InterruptDequeueLock(th)
    <2>1. Goto(th, "deq_lock", "idle")
      BY <1>3 DEF InterruptDequeueLock
    <2>2. Shift(0, 0, -1, 0, 0)
      BY <1>a, <2>1, ShiftOfMove DEF Moved, Bit
    <2> QED
      BY <1>b, <1>3, <2>2, CountsType DEF InterruptDequeueLock, Shift
  <1> QED
    BY <1>1, <1>2, <1>3 DEF Interrupt

\* The inductive step.
LEMMA NextIInv == IInv /\ [Next]_vars => IInv'
  <1> SUFFICES ASSUME IInv, [Next]_vars PROVE IInv'
    OBVIOUS
  <1>1. CASE UNCHANGED vars
    BY <1>1 DEF IInv, TypeOK, MutualExclusion, SlotsAccounted, TokensAccounted,
       At, vars
  <1>2. ASSUME NEW th \in Threads, Call(th) PROVE IInv'
    BY <1>2, CallTypeOK, CallAccounts DEF IInv, Accounts
  <1>3. ASSUME NEW th \in Threads, Step(th) PROVE IInv'
    BY <1>3, StepTypeOK, StepAccounts DEF IInv, Accounts
  <1>4. ASSUME NEW th \in Threads, Interrupt(th) PROVE IInv'
    BY <1>4, InterruptTypeOK, InterruptAccounts DEF IInv, Accounts
  <1> QED
    BY <1>1, <1>2, <1>3, <1>4 DEF Next

\* The accounts of the semaphores hold in every state of every run.
THEOREM Inductive == Spec => []IInv
  BY InitIInv, NextIInv, PTL DEF Spec

-----------------------------------------------------------------------------
(* What follows from the accounts. *)

\* A thread at a counted place is counted.
LEMMA AtCounted ==
  ASSUME NEW S, NEW th \in Threads, pc[th] \in S
  PROVE  Cardinality(At(S)) > 0
  <1>1. th \in At(S)
    BY DEF At
  <1>2. At(S) # {}
    BY <1>1
  <1> QED
    BY <1>2, AtFinite, FS_EmptySet

\* Every variable keeps its type: no index leaves the ring, no semaphore goes
\* below zero, no counter of the segment leaves its width.
THEOREM TypeCorrect == Spec => []TypeOK
  <1>1. IInv => TypeOK
    BY DEF IInv
  <1> QED
    BY <1>1, Inductive, PTL

\* One thread at a time between sem_wait(mutex_sem_) and sem_post(mutex_sem_),
\* and the mutex is free when there is none.
THEOREM Exclusion == Spec => []MutualExclusion
  <1>1. IInv => MutualExclusion
    BY DEF IInv
  <1> QED
    BY <1>1, Inductive, PTL

\* Every slot of the ring is accounted for once, on the error paths as well.
THEOREM SlotsConserved == Spec => []SlotsAccounted
  <1>1. IInv => SlotsAccounted
    BY DEF IInv
  <1> QED
    BY <1>1, Inductive, PTL

\* Every task in the ring is announced, claimed or about to be announced once.
THEOREM TokensConserved == Spec => []TokensAccounted
  <1>1. IInv => TokensAccounted
    BY DEF IInv
  <1> QED
    BY <1>1, Inductive, PTL

\* An enqueue that writes has found a free slot; count_ stays within the ring.
THEOREM RingBounded == Spec => []NoOverflow
  <1>1. IInv => NoOverflow
    <2> SUFFICES ASSUME IInv PROVE NoOverflow
      OBVIOUS
    <2> USE CountsType, CapacityAssumption
        DEF IInv, TypeOK, SlotsAccounted, TokensAccounted
    <2>1. count \in 0..Capacity
      OBVIOUS
    <2>2. ASSUME NEW th \in At({"enq_store", "enq_advance", "enq_count"})
          PROVE  count < Capacity
      <3>1. th \in Threads /\ pc[th] \in SlotClaimed
        BY <2>2 DEF At, SlotClaimed, EnqueuePending
      <3>2. Cardinality(At(SlotClaimed)) > 0
        BY <3>1, AtCounted
      <3> QED
        BY <3>2
    <2> QED
      BY <2>1, <2>2 DEF NoOverflow
  <1> QED
    BY <1>1, Inductive, PTL

\* dequeue never throws "Queue is empty".
THEOREM NeverEmptyInside == Spec => []EmptyBranchDead
  <1>1. IInv => EmptyBranchDead
    <2> SUFFICES ASSUME IInv, NEW th \in At({"deq_test"}) PROVE count > 0
      BY DEF EmptyBranchDead
    <2>1. th \in Threads /\ pc[th] \in TokenClaimed
      BY DEF At, TokenClaimed, DequeuePending
    <2>2. Cardinality(At(TokenClaimed)) > 0
      BY <2>1, AtCounted
    <2> QED
      BY <2>2, CountsType DEF IInv, TypeOK, TokensAccounted
  <1> QED
    BY <1>1, Inductive, PTL

\* The semaphores never hold each other's waiters back: with all threads
\* blocked, nobody has the mutex or a claim, so the queue is empty or full.
THEOREM NoCircularWait == Spec => []BlockedOnlyOnEmptyOrFull
  <1>1. IInv => BlockedOnlyOnEmptyOrFull
    <2> SUFFICES ASSUME IInv, \A th \in Threads : Blocked(th)
                 PROVE  \/ At({"deq_token"}) = Threads /\ count = 0
                        \/ At({"enq_slot"}) = Threads /\ count = Capacity
      BY DEF BlockedOnlyOnEmptyOrFull
    <2>1. /\ At(Critical) = {}
          /\ At(SlotClaimed \ {"enq_lock"}) = {}
          /\ At(EnqueueDone) = {}
          /\ At(DequeueDone) = {}
      BY DEF Blocked, At, Critical, SlotClaimed, EnqueueDone, DequeueDone,
         EnqueuePending
    <2>2. mutex_sem = 1
      BY <2>1, FS_EmptySet DEF IInv, TypeOK, MutualExclusion
    <2>3. /\ At(SlotClaimed) = {}
          /\ At(TokenClaimed) = {}
      BY <2>2 DEF Blocked, At, SlotClaimed, TokenClaimed, EnqueuePending,
         DequeuePending
    <2>4. enqueue_sem + count = Capacity /\ dequeue_sem = count
      BY <2>1, <2>3, FS_EmptySet, CapacityAssumption
      DEF IInv, TypeOK, SlotsAccounted, TokensAccounted
    <2>5. \A th \in Threads : \/ pc[th] = "enq_slot" /\ count = Capacity
                              \/ pc[th] = "deq_token" /\ count = 0
      BY <2>2, <2>4, CapacityAssumption DEF Blocked, IInv, TypeOK
    <2> QED
      BY <2>5, CapacityAssumption, ThreadsAssumption DEF At
  <1> QED
    BY <1>1, Inductive, PTL

-----------------------------------------------------------------------------
(* What a thread sees while it has the mutex. *)

\* Two threads inside are the same thread.
LEMMA OneInside ==
  ASSUME IInv, NEW th \in Threads, NEW other \in Threads,
         pc[th] \in Critical, pc[other] \in Critical
  PROVE  th = other
  <1>1. th \in At(Critical) /\ other \in At(Critical)
    BY DEF At
  <1>2. Cardinality(At(Critical)) = 1
    <2>1. Cardinality(At(Critical)) > 0
      BY AtCounted
    <2> QED
      BY <2>1, CountsType DEF IInv, TypeOK, MutualExclusion
  <1>3. PICK x : At(Critical) = {x}
    BY <1>2, AtFinite, FS_Singleton
  <1> QED
    BY <1>1, <1>3

\* A step that changes the ring is the step of a thread inside.
LEMMA RingChangedInside ==
  ASSUME NEW th \in Threads, Call(th) \/ Step(th) \/ Interrupt(th)
  PROVE  UNCHANGED ring \/ pc[th] \in Critical \ {"print_walk"}
  <1>1. CASE Call(th)
    BY <1>1 DEF Call, CallEnqueue, CallDequeue, CallPrint
  <1>2. CASE Interrupt(th)
    BY <1>2 DEF Interrupt, InterruptFirstWait, InterruptEnqueueLock,
       InterruptDequeueLock
  <1>3. CASE Step(th)
    BY <1>3 DEF Step, EnqueueWaitSlot, EnqueueLock, EnqueueStore,
       EnqueueAdvance, EnqueueCount, EnqueueUnlock, EnqueueSignal,
       DequeueWaitToken, DequeueLock, DequeueTest, DequeueCopy,
       DequeueAdvance, DequeueCount, DequeueUnlock, DequeueSignal, PrintLock,
       PrintUnlock, WaitMutex, PostMutex, Goto, Critical
  <1> QED
    BY <1>1, <1>2, <1>3

\* print() walks over one state of the queue, however long the walk takes.
THEOREM PrintAtomic == Spec => PrintSeesOneState
  <1>1. IInv /\ [Next]_vars => [At({"print_walk"}) # {} => UNCHANGED ring]_vars
    <2> SUFFICES ASSUME IInv, NEW th \in Threads,
                        Call(th) \/ Step(th) \/ Interrupt(th),
                        NEW printer \in Threads, pc[printer] = "print_walk"
                 PROVE  UNCHANGED ring
      BY DEF Next, At
    <2>1. CASE pc[th] \in Critical \ {"print_walk"}
      <3>1. pc[printer] \in Critical
        BY DEF Critical
      <3>2. th = printer
        BY <2>1, <3>1, OneInside
      <3> QED
        BY <2>1, <3>2
    <2> QED
      BY <2>1, RingChangedInside
  <1> QED
    BY <1>1, Inductive, PTL DEF Spec, PrintSeesOneState
=============================================================================
