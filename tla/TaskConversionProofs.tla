----------------------- MODULE TaskConversionProofs ------------------------
(***************************************************************************)
(* Priorities and times of TaskConversion for all durations, quanta,       *)
(* priorities and waiting times.  What a record says is carried over into  *)
(* an object and back; the invariant relates the two wherever the task is. *)
(***************************************************************************)
EXTENDS TaskConversion, TLAPS

\* The task is an object that a thread made of its record.
TakenOut == where \notin {"client", "failed"} \cup AsRecord

\* Until it is put back, a task taken out is what its record says, save that its
\* priority may be lower.
SameAsRecord ==
  TakenOut =>
    /\ object.type = record.type
    /\ object.completed = record.completed
    /\ object.static = record.priority
    /\ object.dynamic <= record.priority

\* No object is older than the time that the task spent as one.
Younger == object.age <= Charged

\* The total of an object is what was left of the work when it was made.
TotalIsLeft ==
  (object.type = "cpu" /\ ~object.completed)
    => object.total = Clamp(work - (Charged - object.age), 0, MaxTime)

\* What is executed as a whole was found to fit into a quantum.
WholeFits ==
  (where = "whole" /\ object.type = "cpu")
    => \E q \in Quanta : object.total < q

IInv ==
  /\ TypeOK
  /\ SameAsRecord
  /\ Younger
  /\ TotalIsLeft
  /\ TimeAsObjectIsCharged
  /\ WholeFits
  /\ LessThanAQuantumLeft

Objects ==
  [type : Types, static : Priorities \cup NiceValues, dynamic : Priorities,
   total : 0..MaxTime, age : 0..MaxOutside, completed : BOOLEAN,
   adjusted : BOOLEAN]

-----------------------------------------------------------------------------
(* The arithmetic of the conversions. *)

\* An adjustment gives a priority in range that is no higher than the static one,
\* for every waiting time.
LEMMA DynamicPriorityLowers ==
  ASSUME NEW p \in Priorities, NEW s \in 0..60, NEW type
  PROVE  /\ DynamicPriority(p, s, type) \in Priorities
         /\ DynamicPriority(p, s, type) <= p
  <1> DEFINE tenths == 10 * p - s - IoBoost(type)
             cut == Truncate(tenths)
  <1>1. tenths \in Int /\ tenths <= 10 * p
    BY DEF IoBoost, Priorities
  <1>2. cut \in Int /\ cut <= p
    <2> HIDE DEF tenths
    <2>1. CASE tenths >= 0
      BY <1>1, <2>1 DEF Truncate, Priorities
    <2>2. CASE tenths < 0
      <3>1. (-tenths) \div 10 \in Int /\ (-tenths) \div 10 >= -p
        BY <1>1, <2>2 DEF Priorities
      <3> QED
        BY <1>1, <2>2, <3>1 DEF Truncate, Priorities
    <2> QED
      BY <1>1, <2>1, <2>2
  <1>3. DynamicPriority(p, s, type) = Clamp(cut, -20, 19)
    BY DEF DynamicPriority
  <1> HIDE DEF cut
  <1> QED
    BY <1>2, <1>3 DEF Clamp, Priorities

\* Time charged to an object and time charged before it was made add up.
LEMMA ChargesAddUp ==
  ASSUME NEW w \in 0..MaxTime, NEW out \in 0..MaxOutside, NEW age \in 0..MaxOutside,
         age <= out
  PROVE  /\ Clamp(Clamp(w - (out - age), 0, MaxTime) - age, 0, MaxTime)
              = Clamp(w - out, 0, MaxTime)
         /\ w - out <= Clamp(w - (out - age), 0, MaxTime) - age
         /\ Clamp(w - out, 0, MaxTime) \in 0..MaxTime
  BY TimeAssumption DEF Clamp

\* The charged time is within the bound of the time outside the queue.
LEMMA ChargedType ==
  ASSUME TypeOK
  PROVE  Charged \in 0..MaxOutside
  BY TimeAssumption DEF TypeOK, Charged

\* What set_static_priority and update_task_priority make of an object.
LEMMA AdjustType ==
  ASSUME NEW obj \in Objects, obj.static \in Priorities, NEW s \in 0..60
  PROVE  /\ Adjust(obj, s) \in Objects
         /\ Adjust(obj, s).dynamic <= obj.static
         /\ Adjust(obj, s).type = obj.type
         /\ Adjust(obj, s).static = obj.static
         /\ Adjust(obj, s).total = obj.total
         /\ Adjust(obj, s).age = obj.age
         /\ Adjust(obj, s).completed = obj.completed
  BY DynamicPriorityLowers DEF Adjust, Objects

\* The waiting times of an adjustment.
LEMMA StarvationType ==
  ASSUME NEW obj \in Objects
  PROVE  StarvationOf(obj) \subseteq 0..60
  BY StarvationsAssumption DEF StarvationOf

-----------------------------------------------------------------------------
(* The inductive step, one lemma for each action. *)

\* A new task is with its client and has all of its work left.
LEMMA InitIInv == Init => IInv
  <1> SUFFICES ASSUME Init PROVE IInv
    OBVIOUS
  <1>1. work \in 0..MaxTime /\ where = "client"
    BY TimeAssumption DEF Init
  <1>2. PICK type \in InitialTypes : object = NewObject(type, 0, work, FALSE)
    BY DEF Init
  <1>3. TypeOK
    BY <1>1, <1>2, TimeAssumption, InitialTypesAssumption
    DEF Init, TypeOK, NewObject, NoRecord, Types, Priorities, Owners
  <1>4. TotalIsLeft
    BY <1>1, <1>2, TimeAssumption DEF TotalIsLeft, NewObject, Init, Clamp, Charged
  <1> QED
    BY <1>1, <1>2, <1>3, <1>4
    DEF Init, IInv, SameAsRecord, Younger, TimeAsObjectIsCharged, WholeFits,
        LessThanAQuantumLeft, TakenOut, NewObject, Charged, AsRecord

\* The client sets the static priority of a task it has not added.
LEMMA SetStaticPriorityKeeps ==
  ASSUME IInv, NEW p \in NiceValues, SetStaticPriority(p)
  PROVE  IInv'
  <1> USE DEF IInv, TypeOK
  <1>1. object \in Objects /\ where = "client" /\ where' = "client"
    BY DEF SetStaticPriority, Objects
  <1>2. /\ object' \in Objects
        /\ object'.type = object.type /\ object'.total = object.total
        /\ object'.age = object.age /\ object'.completed = object.completed
    <2> DEFINE moved == [object EXCEPT !.static = p]
    <2>1. moved \in Objects
      BY <1>1 DEF Objects
    <2>2. CASE p \in Priorities
      <3>1. PICK s \in StarvationOf(object) : object' = Adjust(moved, s)
        BY <2>2 DEF SetStaticPriority
      <3>2. moved.static \in Priorities /\ s \in 0..60
        BY <1>1, <2>2, <3>1, StarvationType DEF Objects
      <3> HIDE DEF moved
      <3>3. moved.type = object.type /\ moved.total = object.total
            /\ moved.age = object.age /\ moved.completed = object.completed
        BY <1>1 DEF moved, Objects
      <3> QED
        BY <2>1, <3>1, <3>2, <3>3, AdjustType
    <2>3. CASE p \notin Priorities
      BY <1>1, <2>1, <2>3 DEF SetStaticPriority, Objects
    <2> QED
      BY <2>2, <2>3
  <1> QED
    BY <1>1, <1>2
    DEF SetStaticPriority, Objects, SameAsRecord, Younger, TotalIsLeft,
        TimeAsObjectIsCharged, WholeFits, LessThanAQuantumLeft, TakenOut, Charged,
        AsRecord

\* The client marks a task as completed before it adds it.
LEMMA CompleteKeeps ==
  ASSUME IInv, Complete
  PROVE  IInv'
  BY DEF IInv, TypeOK, Complete, SameAsRecord, Younger, TotalIsLeft,
     TimeAsObjectIsCharged, WholeFits, LessThanAQuantumLeft, TakenOut, Owners,
     Charged, AsRecord

\* add_task: the object becomes a record.
LEMMA ConvertTaskKeeps ==
  ASSUME IInv, ConvertTask
  PROVE  IInv'
  <1> USE DEF IInv, TypeOK
  <1>1. PICK r \in RemainingTime(object), type \in RecordType(object) :
          record' = [type |-> type, priority |-> object.dynamic,
                     remaining |-> r, completed |-> object.completed]
    BY DEF ConvertTask
  <1>2. /\ where \in {"client", "updated", "executed"} /\ where' = "enqueue"
        /\ UNCHANGED <<object, work, outside, asRecord, quantum>>
    BY DEF ConvertTask
  <1>3. r \in 0..MaxTime /\ type \in Types
    BY <1>1, TimeAssumption DEF RemainingTime, RecordType, Clamp
  <1>4. TypeOK'
    BY <1>1, <1>2, <1>3 DEF Owners, AsRecord
  <1>5. TimeAsObjectIsCharged'
    <2> SUFFICES ASSUME type = "cpu", ~object.completed
                 PROVE  r = Clamp(work - Charged, 0, MaxTime)
      BY <1>1, <1>2 DEF TimeAsObjectIsCharged, Charged
    <2>1. object.type = "cpu"
      BY <1>1 DEF RecordType
    <2>2. r = Clamp(object.total - object.age, 0, MaxTime)
      BY <1>1, <2>1 DEF RemainingTime
    <2>3. object.total = Clamp(work - (Charged - object.age), 0, MaxTime)
          /\ object.age <= Charged
      BY <1>2, <2>1 DEF TotalIsLeft, Younger
    <2> QED
      BY <2>2, <2>3, ChargesAddUp, ChargedType
  <1> QED
    BY <1>2, <1>4, <1>5
    DEF SameAsRecord, Younger, TotalIsLeft, WholeFits, LessThanAQuantumLeft,
        TakenOut, Charged, AsRecord

\* The record on its way through the queue, or lost on it.
LEMMA RecordMovesKeeps ==
  ASSUME IInv, Enqueue \/ Dequeue \/ ConvertThrows
  PROVE  IInv'
  BY DEF IInv, TypeOK, Enqueue, Dequeue, ConvertThrows, SameAsRecord, Younger,
     TotalIsLeft, TimeAsObjectIsCharged, WholeFits, LessThanAQuantumLeft, TakenOut,
     Owners, Charged, AsRecord, Gone

\* get_next_task: the record becomes a new object.
LEMMA GetNextTaskKeeps ==
  ASSUME IInv, NEW owner \in {"reorder", "processor"}, GetNextTask(owner)
  PROVE  IInv'
  <1> USE DEF IInv, TypeOK
  <1> DEFINE fresh == NewObject(record.type, record.priority, record.remaining,
                                record.completed)
  <1>1. /\ fresh \in Objects
        /\ fresh.type = record.type /\ fresh.static = record.priority
        /\ fresh.total = record.remaining /\ fresh.completed = record.completed
        /\ fresh.age = 0
    BY TimeAssumption DEF NewObject, Objects
  <1>2. object' = Adjust(fresh, 60) /\ where = "dequeued" /\ where' = owner
        /\ UNCHANGED <<record, work, outside, asRecord, quantum>>
    BY DEF GetNextTask
  <1> HIDE DEF fresh
  <1>3. /\ object' \in Objects
        /\ object'.dynamic <= record.priority /\ object'.static = record.priority
        /\ object'.type = record.type /\ object'.completed = record.completed
        /\ object'.total = record.remaining /\ object'.age = 0
    BY <1>1, <1>2, AdjustType
  <1>4. /\ Charged' = Charged /\ Charged \in 0..MaxOutside
        /\ work - (Charged - 0) = work - Charged
    BY <1>2, ChargedType, TimeAssumption DEF Charged
  <1>5. TotalIsLeft'
    BY <1>2, <1>3, <1>4 DEF TotalIsLeft, TimeAsObjectIsCharged, AsRecord
  <1> QED
    BY <1>2, <1>3, <1>4, <1>5
    DEF Objects, SameAsRecord, Younger, TimeAsObjectIsCharged,
        WholeFits, LessThanAQuantumLeft, TakenOut, Owners, Gone, AsRecord

\* update_task_priority, under either algorithm.
LEMMA UpdateTaskPriorityKeeps ==
  ASSUME IInv, UpdateTaskPriority
  PROVE  IInv'
  <1> USE DEF IInv, TypeOK
  <1>1. /\ where = "reorder" /\ where' = "updated"
        /\ UNCHANGED <<record, work, outside, asRecord, quantum>>
        /\ object \in Objects
    BY DEF UpdateTaskPriority, Objects
  <1>2. /\ object' \in Objects
        /\ object'.dynamic <= record.priority /\ object'.static = object.static
        /\ object'.type = object.type /\ object'.completed = object.completed
        /\ object'.total = object.total /\ object'.age = object.age
    <2>1. object.static = record.priority /\ object.dynamic <= record.priority
      BY <1>1 DEF SameAsRecord, TakenOut, AsRecord
    <2>2. CASE UNCHANGED object
      BY <1>1, <2>1, <2>2
    <2>3. CASE \E s \in StarvationOf(object) : object' = Adjust(object, s)
      <3>1. PICK s \in StarvationOf(object) : object' = Adjust(object, s)
        BY <2>3
      <3>2. s \in 0..60 /\ object.static \in Priorities
        BY <1>1, <2>1, StarvationType
      <3>3. Adjust(object, s).dynamic <= object.static
        BY <1>1, <3>2, AdjustType
      <3> QED
        BY <1>1, <2>1, <3>1, <3>2, <3>3, AdjustType
    <2> QED
      BY <2>2, <2>3 DEF UpdateTaskPriority
  <1> QED
    BY <1>1, <1>2
    DEF Objects, SameAsRecord, Younger, TotalIsLeft, TimeAsObjectIsCharged,
        WholeFits, LessThanAQuantumLeft, TakenOut, Owners, Gone, Charged, AsRecord

\* Time that passes ages the object and the task alike.
LEMMA PassTimeKeeps ==
  ASSUME TypeOK, Younger, TotalIsLeft, UNCHANGED work,
         NEW ticks \in 0..MaxOutside, PassTime(ticks)
  PROVE  /\ object' \in Objects /\ outside' \in 0..MaxOutside
         /\ asRecord' \in 0..outside' /\ Charged' \in 0..MaxOutside
         /\ object'.age = object.age + ticks /\ object'.age <= Charged'
         /\ object'.type = object.type /\ object'.static = object.static
         /\ object'.dynamic = object.dynamic /\ object'.total = object.total
         /\ object'.completed = object.completed
         /\ (object.type = "cpu" /\ ~object.completed) =>
              /\ object'.total = Clamp(work' - (Charged' - object'.age), 0, MaxTime)
              /\ work - Charged' <= object.total - object'.age
  <1> USE DEF TypeOK, Younger, PassTime
  <1>1. /\ outside' = outside + ticks /\ outside' \in 0..MaxOutside
        /\ asRecord' = asRecord /\ asRecord' \in 0..outside'
        /\ Charged' = Charged + ticks /\ Charged' \in 0..MaxOutside
        /\ Charged \in 0..MaxOutside
        /\ object.age \in 0..Charged /\ object.age + ticks \in 0..MaxOutside
    BY TimeAssumption DEF Charged
  <1>2. /\ object' \in Objects /\ object'.age = object.age + ticks
        /\ object'.type = object.type /\ object'.static = object.static
        /\ object'.dynamic = object.dynamic /\ object'.total = object.total
        /\ object'.completed = object.completed
    BY <1>1 DEF Objects
  <1>3. Charged' - object'.age = Charged - object.age
    BY <1>1, <1>2, TimeAssumption
  <1>4. work - Charged' <= Clamp(work - (Charged' - object'.age), 0, MaxTime) - object'.age
    BY <1>1, <1>2, ChargesAddUp, TimeAssumption
  <1> QED
    BY <1>1, <1>2, <1>3, <1>4, TimeAssumption DEF TotalIsLeft

\* process_tasks compares the total time with the quantum.
LEMMA CompareWithQuantumKeeps ==
  ASSUME IInv, CompareWithQuantum
  PROVE  IInv'
  <1> USE DEF IInv, TypeOK
  <1>1. PICK total \in IF object.type = "cpu" THEN {object.total} ELSE 0..MaxTime :
          where' = IF total < quantum THEN "whole" ELSE "quantum"
    BY DEF CompareWithQuantum, FitsQuantum
  <1>2. WholeFits'
    BY <1>1 DEF CompareWithQuantum, WholeFits
  <1> QED
    BY <1>1, <1>2
    DEF CompareWithQuantum, SameAsRecord, Younger, TotalIsLeft,
        TimeAsObjectIsCharged, LessThanAQuantumLeft, TakenOut, Owners, Gone, Charged,
        AsRecord

\* A UnixTask throws and is gone.
LEMMA ExecuteThrowsKeeps ==
  ASSUME IInv, ExecuteThrows
  PROVE  IInv'
  BY DEF IInv, TypeOK, ExecuteThrows, SameAsRecord, Younger, TotalIsLeft,
     TimeAsObjectIsCharged, WholeFits, LessThanAQuantumLeft, TakenOut, Owners, Gone,
     Charged, AsRecord

\* A task that fits into the quantum is executed to its end.
LEMMA ExecuteWholeKeeps ==
  ASSUME IInv, ExecuteWhole
  PROVE  IInv'
  <1> USE DEF IInv, TypeOK
  <1>1. PICK ticks \in 0..MaxOutside : PassTime(ticks)
    BY DEF ExecuteWhole
  <1>2. where = "whole" /\ where' = "completed" /\ UNCHANGED <<record, work, quantum>>
    BY DEF ExecuteWhole
  <1>3. /\ object' \in Objects /\ outside' \in 0..MaxOutside
        /\ asRecord' \in 0..outside' /\ Charged' \in 0..MaxOutside
        /\ object'.age = object.age + ticks /\ object'.age <= Charged'
        /\ object'.type = object.type /\ object'.static = object.static
        /\ object'.dynamic = object.dynamic /\ object'.total = object.total
        /\ object'.completed = object.completed
        /\ (object.type = "cpu" /\ ~object.completed) =>
             /\ object'.total = Clamp(work' - (Charged' - object'.age), 0, MaxTime)
             /\ work - Charged' <= object.total - object'.age
    BY <1>1, <1>2, PassTimeKeeps
  <1>4. object.age \in 0..MaxOutside /\ object.total \in 0..MaxTime /\ work' = work
    BY <1>2
  <1>5. LessThanAQuantumLeft'
    <2> SUFFICES ASSUME object.type = "cpu", ~record.completed
                 PROVE  \E q \in Quanta : work - Charged' < q
      BY <1>2, <1>3 DEF LessThanAQuantumLeft
    <2>1. PICK q \in Quanta : object.total < q
      BY <1>2 DEF WholeFits
    <2>2. work - Charged' <= object.total - object'.age
      BY <1>2, <1>3 DEF SameAsRecord, TakenOut, AsRecord
    <2> DEFINE left == work - Charged'
               total == object.total
               age == object.age
    <2>3. /\ left \in Int /\ q \in Int /\ total \in Int /\ age \in Nat
          /\ left <= total - (age + ticks)
      BY <1>3, <1>4, <2>2, TimeAssumption
    <2> HIDE DEF left, total, age
    <2>4. left <= total
      BY <2>3
    <2>5. total < q
      BY <2>1 DEF total
    <2>6. left < q
      BY <2>3, <2>4, <2>5
    <2> QED
      BY <2>6 DEF left
  <1> QED
    BY <1>2, <1>3, <1>5
    DEF Objects, SameAsRecord, Younger, TotalIsLeft, TimeAsObjectIsCharged,
        WholeFits, TakenOut, Owners, Gone, AsRecord

\* A longer task is executed for a quantum.
LEMMA ExecuteQuantumKeeps ==
  ASSUME IInv, ExecuteQuantum
  PROVE  IInv'
  <1> USE DEF IInv, TypeOK
  <1>1. PICK ticks \in 0..MaxOutside :
          /\ PassTime(ticks)
          /\ \E done \in ExecuteResult(object, ticks) :
               where' \in IF done THEN {"completed"} ELSE {"executed", "stopped"}
    BY DEF ExecuteQuantum
  <1>2. where = "quantum" /\ where' \in {"completed", "executed", "stopped"}
        /\ UNCHANGED <<record, work, quantum>>
    BY <1>1 DEF ExecuteQuantum
  <1>3. /\ object' \in Objects /\ outside' \in 0..MaxOutside
        /\ asRecord' \in 0..outside' /\ Charged' \in 0..MaxOutside
        /\ object'.age = object.age + ticks /\ object'.age <= Charged'
        /\ object'.type = object.type /\ object'.static = object.static
        /\ object'.dynamic = object.dynamic /\ object'.total = object.total
        /\ object'.completed = object.completed
        /\ (object.type = "cpu" /\ ~object.completed) =>
             /\ object'.total = Clamp(work' - (Charged' - object'.age), 0, MaxTime)
             /\ work - Charged' <= object.total - object'.age
    BY <1>1, <1>2, PassTimeKeeps
  <1>4. object.age \in 0..MaxOutside /\ object.total \in 0..MaxTime /\ work' = work
    BY <1>2
  <1>5. LessThanAQuantumLeft'
    <2> SUFFICES ASSUME where' = "completed", object.type = "cpu", ~record.completed
                 PROVE  work - Charged' < quantum
      BY <1>2, <1>3 DEF LessThanAQuantumLeft
    <2>1. ticks >= object.total
      BY <1>1 DEF ExecuteResult
    <2>2. work - Charged' <= object.total - object'.age
      BY <1>2, <1>3 DEF SameAsRecord, TakenOut, AsRecord
    <2> DEFINE left == work - Charged'
               total == object.total
               age == object.age
    <2>3. /\ left \in Int /\ total \in Int /\ age \in Nat
          /\ quantum \in Int /\ quantum > 0
          /\ left <= total - (age + ticks)
      BY <1>3, <1>4, <2>2, TimeAssumption
    <2>4. ticks >= total
      BY <2>1
    <2> HIDE DEF left, total, age
    <2>5. left < quantum
      BY <2>3, <2>4
    <2> QED
      BY <2>5 DEF left
  <1> QED
    BY <1>2, <1>3, <1>5
    DEF Objects, SameAsRecord, Younger, TotalIsLeft, TimeAsObjectIsCharged,
        WholeFits, TakenOut, Owners, Gone, AsRecord

\* set_time_quantum changes the quantum between the two reads of it.
LEMMA SetTimeQuantumKeeps ==
  ASSUME IInv, NEW q \in Quanta, SetTimeQuantum(q)
  PROVE  IInv'
  BY DEF IInv, TypeOK, SetTimeQuantum, SameAsRecord, Younger, TotalIsLeft,
     TimeAsObjectIsCharged, WholeFits, LessThanAQuantumLeft, TakenOut, Charged

\* Time passes while the task is an object.
LEMMA TickKeeps ==
  ASSUME IInv, Tick
  PROVE  IInv'
  <1> USE DEF IInv, TypeOK
  <1>1. /\ where \notin AsRecord \cup Gone /\ PassTime(1)
        /\ UNCHANGED <<where, record, work, quantum>>
    BY DEF Tick
  <1>2. 1 \in 0..MaxOutside
    BY <1>1, TimeAssumption DEF PassTime
  <1>3. /\ object' \in Objects /\ outside' \in 0..MaxOutside
        /\ asRecord' \in 0..outside' /\ object'.age <= Charged'
        /\ object'.type = object.type /\ object'.static = object.static
        /\ object'.dynamic = object.dynamic /\ object'.total = object.total
        /\ object'.completed = object.completed
        /\ (object.type = "cpu" /\ ~object.completed) =>
             object'.total = Clamp(work' - (Charged' - object'.age), 0, MaxTime)
    BY <1>1, <1>2, PassTimeKeeps
  <1> QED
    BY <1>1, <1>3
    DEF Objects, SameAsRecord, Younger, TotalIsLeft, TimeAsObjectIsCharged,
        WholeFits, LessThanAQuantumLeft, TakenOut, Gone

\* Time that passes while it is a record is charged to nobody.
LEMMA TickAsRecordKeeps ==
  ASSUME IInv, TickAsRecord
  PROVE  IInv'
  <1> USE DEF IInv, TypeOK
  <1>1. /\ Charged' = Charged /\ outside' \in 0..MaxOutside
        /\ asRecord' \in 0..outside'
    BY TimeAssumption DEF TickAsRecord, Charged
  <1> QED
    BY <1>1
    DEF TickAsRecord, SameAsRecord, Younger, TotalIsLeft, TimeAsObjectIsCharged,
        WholeFits, LessThanAQuantumLeft, TakenOut

\* One step for each action.
LEMMA NextIInv == IInv /\ [Next]_vars => IInv'
  <1> SUFFICES ASSUME IInv, [Next]_vars PROVE IInv'
    OBVIOUS
  <1>1. CASE UNCHANGED vars
    BY <1>1
    DEF vars, IInv, TypeOK, SameAsRecord, Younger, TotalIsLeft,
        TimeAsObjectIsCharged, WholeFits, LessThanAQuantumLeft, TakenOut, Charged
  <1> QED
    BY <1>1, SetStaticPriorityKeeps, CompleteKeeps, ConvertTaskKeeps,
       RecordMovesKeeps, GetNextTaskKeeps, UpdateTaskPriorityKeeps,
       CompareWithQuantumKeeps, ExecuteThrowsKeeps, ExecuteWholeKeeps,
       ExecuteQuantumKeeps, SetTimeQuantumKeeps, TickKeeps, TickAsRecordKeeps
    DEF Next

-----------------------------------------------------------------------------
(* What follows. *)

\* Objects and records agree about the task in every state of every run.
THEOREM Inductive == Spec => []IInv
  BY InitIInv, NextIInv, PTL DEF Spec

\* Every priority stays in [-20, 19]: no record makes validate_priority throw.
THEOREM TypeCorrect == Spec => []TypeOK
  <1>1. IInv => TypeOK
    BY DEF IInv
  <1> QED
    BY <1>1, Inductive, PTL

\* A record's remaining time is the work minus the time that the task spent as an
\* object: what it waits as a record, inside enqueue and after dequeue, is not
\* charged by convert_to_shared_task.
THEOREM TimeAsObjectCharged == Spec => []TimeAsObjectIsCharged
  <1>1. IInv => TimeAsObjectIsCharged
    BY DEF IInv
  <1> QED
    BY <1>1, Inductive, PTL

\* A task that leaves as completed has less than a quantum left, whatever
\* set_time_quantum does between the two reads of time_quantum_.
THEOREM CompletedInTime == Spec => []LessThanAQuantumLeft
  <1>1. IInv => LessThanAQuantumLeft
    BY DEF IInv
  <1> QED
    BY <1>1, Inductive, PTL

\* No pass through the queue makes a task more important.
THEOREM NeverMoreImportant == Spec => PriorityNeverRises
  <1>1. IInv /\ [Next]_vars =>
          [where # "client" => record'.priority <= record.priority]_vars
    <2> SUFFICES ASSUME IInv, Next, where # "client"
                 PROVE  record'.priority <= record.priority
      OBVIOUS
    <2>1. record.priority \in Int
      BY DEF IInv, TypeOK, Priorities
    <2>2. CASE ConvertTask
      <3>1. record'.priority = object.dynamic
        BY <2>2 DEF ConvertTask
      <3>2. TakenOut
        BY <2>2 DEF ConvertTask, TakenOut, AsRecord
      <3> QED
        BY <3>1, <3>2 DEF IInv, SameAsRecord
    <2>3. CASE UNCHANGED record
      BY <2>1, <2>3
    <2> QED
      BY <2>2, <2>3
      DEF Next, SetStaticPriority, Complete, Enqueue, Dequeue, GetNextTask,
          ConvertThrows, UpdateTaskPriority, CompareWithQuantum, ExecuteThrows,
          ExecuteWhole, ExecuteQuantum, SetTimeQuantum, Tick, TickAsRecord
  <1> QED
    BY <1>1, Inductive, PTL DEF Spec, PriorityNeverRises

-----------------------------------------------------------------------------
(* What a pass through the queue does to the priority.  Task.hpp:253 promises *)
(* a priority from CPU usage, starvation and I/O, RoundRobingScheduling.hpp:17 *)
(* one that round robin leaves alone.  In the code every conversion starts     *)
(* from an object that seems to have starved for ever, so that each pass costs *)
(* the same; only PriorityScheduling, which adjusts a second time with the     *)
(* short wait since the conversion, makes a reordering cost less.              *)

QuantumCost(type) == IF type = "io" THEN 10 ELSE 6

Lowered(priority, type) == Clamp(priority - QuantumCost(type), -20, 19)

\* Who has converted the record and not adjusted the object again.
ConvertedOnce ==
  \/ where \in {"reorder", "processor", "whole", "quantum", "executed"}
  \/ where = "updated" /\ "priority" \notin Algorithms

LoweredByConversion ==
  ConvertedOnce => object.dynamic = Lowered(record.priority, record.type)

\* A task that starved for ever loses a whole number, so that nothing is cut off.
LEMMA FullStarvation ==
  ASSUME NEW p \in Priorities, NEW type
  PROVE  DynamicPriority(p, 60, type) = Lowered(p, type)
  <1> DEFINE n == p - QuantumCost(type)
  <1>1. n \in Int /\ 10 * p - 60 - IoBoost(type) = 10 * n
    BY DEF Priorities, QuantumCost, IoBoost
  <1>2. \A i \in Int : Truncate(10 * i) = i
    BY DEF Truncate
  <1> HIDE DEF n
  <1>3. Truncate(10 * p - 60 - IoBoost(type)) = n
    BY <1>1, <1>2
  <1> QED
    BY <1>3 DEF DynamicPriority, Lowered, n

\* Only the conversion sets a priority between the queue and the put-back.
LEMMA NextLowered ==
  IInv /\ LoweredByConversion /\ [Next]_vars => LoweredByConversion'
  <1> SUFFICES ASSUME IInv, LoweredByConversion, [Next]_vars
               PROVE  LoweredByConversion'
    OBVIOUS
  <1> USE DEF LoweredByConversion, ConvertedOnce
  <1>1. ASSUME NEW owner, GetNextTask(owner)
        PROVE  LoweredByConversion'
    <2> DEFINE fresh == NewObject(record.type, record.priority, record.remaining,
                                  record.completed)
    <2>1. object' = Adjust(fresh, 60) /\ UNCHANGED record
      BY <1>1 DEF GetNextTask
    <2>2. object'.dynamic = DynamicPriority(record.priority, 60, record.type)
      BY <2>1 DEF Adjust, NewObject
    <2>3. record.priority \in Priorities
      BY DEF IInv, TypeOK
    <2> QED
      BY <2>1, <2>2, <2>3, FullStarvation
  <1>2. ASSUME NEW ticks, PassTime(ticks), UNCHANGED record,
               ConvertedOnce' => ConvertedOnce
        PROVE  LoweredByConversion'
    BY <1>2 DEF PassTime, IInv, TypeOK
  <1>3. CASE ExecuteWhole \/ ExecuteQuantum \/ Tick
    BY <1>2, <1>3 DEF ExecuteWhole, ExecuteQuantum, Tick
  <1>4. CASE \/ CompareWithQuantum \/ ExecuteThrows \/ UNCHANGED vars
             \/ TickAsRecord \/ \E q \in Quanta : SetTimeQuantum(q)
    BY <1>4 DEF CompareWithQuantum, ExecuteThrows, TickAsRecord, SetTimeQuantum, vars
  <1>5. CASE \/ Complete \/ ConvertTask \/ Enqueue \/ Dequeue \/ ConvertThrows
             \/ \E p \in NiceValues : SetStaticPriority(p)
    BY <1>5 DEF Complete, ConvertTask, Enqueue, Dequeue, ConvertThrows,
                SetStaticPriority
  <1>6. CASE UpdateTaskPriority
    BY <1>6 DEF UpdateTaskPriority
  <1> QED
    BY <1>1, <1>3, <1>4, <1>5, <1>6 DEF Next

\* A record that the processor puts back, and under RoundRobinScheduling one that a
\* reordering puts back, has lost 6, or 10 if I/O-bound, down to -20: for all
\* priorities, classes, durations, waiting times and times of execution.
THEOREM EveryPassLowersPriority ==
  Spec => [][(ConvertedOnce /\ where' = "enqueue")
               => record'.priority = Lowered(record.priority, record.type)]_vars
  <1>1. Init => LoweredByConversion
    BY DEF Init, LoweredByConversion, ConvertedOnce
  <1>2. LoweredByConversion /\ [Next]_vars =>
          [(ConvertedOnce /\ where' = "enqueue")
             => record'.priority = Lowered(record.priority, record.type)]_vars
    <2> SUFFICES ASSUME LoweredByConversion, Next, ConvertedOnce, where' = "enqueue"
                 PROVE  record'.priority = Lowered(record.priority, record.type)
      BY DEF ConvertedOnce
    <2>1. ConvertTask \/ TickAsRecord
      BY DEF Next, SetStaticPriority, Complete, Enqueue, Dequeue, GetNextTask,
             ConvertThrows, UpdateTaskPriority, CompareWithQuantum, ExecuteThrows,
             ExecuteWhole, ExecuteQuantum, SetTimeQuantum, Tick, AsRecord,
             ConvertedOnce, Gone
    <2>2. record'.priority = object.dynamic
      BY <2>1 DEF ConvertTask, TickAsRecord, ConvertedOnce
    <2> QED
      BY <2>2 DEF LoweredByConversion
  <1> QED
    BY <1>1, <1>2, NextLowered, Inductive, PTL DEF Spec
=============================================================================
