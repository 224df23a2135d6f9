-------------------------- MODULE TaskConversion --------------------------
(***************************************************************************)
(* One task on its way through the system: a client's object, a SharedTask *)
(* record in the queue, and a new object for each thread that takes it out *)
(* and puts it back.  The priority and the remaining time survive only as  *)
(* far as convert_to_shared_task and convert_from_shared_task carry them.  *)
(* Time passes in ticks outside the queue.  An object has a clock, a record *)
(* has none: not in the queue, nor while a thread waits to enqueue it or    *)
(* has dequeued it and not made an object of it yet.                        *)
(***************************************************************************)
EXTENDS Integers

CONSTANTS
  InitialTypes,  \* the classes of the client's tasks
  Algorithms,    \* the algorithms that the scheduler is given in turn
  NiceValues,    \* the priorities that a client sets
  Starvations,   \* priority lost to starvation_factor, in tenths: 0..60
  Works,         \* the durations of the clients' tasks, in ticks
  Quanta,        \* the values of time_quantum_, in ticks
  MaxTime,       \* bound: the longest duration, garbage included
  MaxOutside     \* bound: the ticks that the task spends outside the queue

Types == {"cpu", "io", "unix"}
Priorities == -20..19

ASSUME InitialTypesAssumption == InitialTypes \subseteq Types
ASSUME AlgorithmsAssumption == Algorithms \subseteq {"round_robin", "priority"}
ASSUME NiceValuesAssumption == NiceValues \subseteq Int
ASSUME StarvationsAssumption == Starvations \subseteq 0..60
ASSUME TimeAssumption ==
  /\ Quanta \subseteq Nat \ {0}
  /\ MaxTime \in Nat
  /\ MaxOutside \in Nat
  /\ Works \subseteq 0..MaxTime

VARIABLES
  where,     \* who has the task, and how far that is with it
  object,    \* the GeneralTask of the one who has it
  record,    \* the SharedTask that was last made of the task
  work,      \* the duration the client asked for
  outside,   \* the ticks the task spent outside the queue
  asRecord,  \* those of them in which a thread had it as a record
  quantum    \* time_quantum_, which the processor reads without a lock

vars == <<where, object, record, work, outside, asRecord, quantum>>

-----------------------------------------------------------------------------
(* adjust_dynamic_priority, in tenths: cpu_usage_ is zero whenever the code *)
(* calls it; starvation costs up to 6, is_io_bound_ costs 4.                *)

Clamp(n, low, high) == IF n < low THEN low ELSE IF n > high THEN high ELSE n

\* static_cast<int> cuts towards zero.
Truncate(tenths) == IF tenths >= 0 THEN tenths \div 10 ELSE -((-tenths) \div 10)

IoBoost(type) == IF type = "io" THEN 40 ELSE 0

\* Mutants of DynamicPriority: starvation raises the priority; no clamp.
DynamicPriorityRaised(static, starvation, type) ==
  Clamp(Truncate(10 * static + starvation - IoBoost(type)), -20, 19)
DynamicPriorityUnclamped(static, starvation, type) ==
  Truncate(10 * static - starvation - IoBoost(type))

DynamicPriority(static, starvation, type) ==
  Clamp(Truncate(10 * static - starvation - IoBoost(type)), -20, 19)

\* last_execution_time_ of a new object is the epoch of the clock: on a system
\* that is up for 10 s the first adjustment sees a task that starved for ever.
StarvationOf(obj) == IF obj.adjusted THEN Starvations ELSE {60}

Adjust(obj, starvation) ==
  [obj EXCEPT !.dynamic = DynamicPriority(obj.static, starvation, obj.type),
              !.adjusted = TRUE]

-----------------------------------------------------------------------------
(* The client *)

NewObject(type, priority, total, completed) ==
  [type |-> type, static |-> priority, dynamic |-> priority, total |-> total,
   age |-> 0, completed |-> completed, adjusted |-> FALSE]

NoRecord == [type |-> "unix", priority |-> 0, remaining |-> 0, completed |-> FALSE]

\* A value out of range is assigned before validate_priority throws.
SetStaticPriority(p) ==
  /\ where = "client"
  /\ IF p \in Priorities
     THEN \E s \in StarvationOf(object) :
            object' = Adjust([object EXCEPT !.static = p], s)
     ELSE object' = [object EXCEPT !.static = p]
  /\ UNCHANGED <<where, record, work, outside, asRecord, quantum>>

\* set_state(COMPLETED) before the task is added.
Complete ==
  /\ where = "client"
  /\ object' = [object EXCEPT !.completed = TRUE]
  /\ UNCHANGED <<where, record, work, outside, asRecord, quantum>>

-----------------------------------------------------------------------------
(* The conversions *)

\* Mutant of RemainingTime: the age of the object is not subtracted.
RemainingTimeUncharged(obj) ==
  IF obj.completed THEN {0}
  ELSE IF obj.type = "cpu" THEN {obj.total}
  ELSE 0..MaxTime

\* What is left of the total after the lifetime of this object.  UnixTask and
\* IoBoundTask have a get_total_time() that returns nothing: any value.
RemainingTime(obj) ==
  IF obj.completed THEN {0}
  ELSE IF obj.type = "cpu" THEN {Clamp(obj.total - obj.age, 0, MaxTime)}
  ELSE 0..MaxTime

\* type_ stays uninitialised in the record of a completed task.
RecordType(obj) == IF obj.completed THEN Types ELSE {obj.type}

\* add_task: convert_to_shared_task reads the clock of the object for the last
\* time.
ConvertTask ==
  /\ where \in {"client", "updated", "executed"}
  /\ where' = "enqueue"
  /\ \E r \in RemainingTime(object), type \in RecordType(object) :
       record' = [type |-> type, priority |-> object.dynamic, remaining |-> r,
                  completed |-> object.completed]
  /\ UNCHANGED <<object, work, outside, asRecord, quantum>>

\* enqueue has waited for a slot and the mutex as long as it took, or a wait failed.
Enqueue ==
  /\ where = "enqueue"
  /\ where' \in {"queue", "failed"}
  /\ UNCHANGED <<object, record, work, outside, asRecord, quantum>>

\* get_next_task: the record has left the queue, as a copy of the thread's own.
Dequeue ==
  /\ where = "queue"
  /\ where' = "dequeued"
  /\ UNCHANGED <<object, record, work, outside, asRecord, quantum>>

\* convert_from_shared_task starts the clock of a new object.
GetNextTask(owner) ==
  /\ where = "dequeued"
  /\ where' = owner
  /\ object' = Adjust(NewObject(record.type, record.priority, record.remaining,
                                record.completed), 60)
  /\ UNCHANGED <<record, work, outside, asRecord, quantum>>

\* Or the constructor of the object throws, when its logger cannot make its
\* directory, and the record is gone.
ConvertThrows ==
  /\ where = "dequeued"
  /\ where' = "failed"
  /\ UNCHANGED <<object, record, work, outside, asRecord, quantum>>

-----------------------------------------------------------------------------
(* reorder_tasks and process_tasks between the two conversions *)

UpdateTaskPriority ==
  /\ where = "reorder"
  /\ where' = "updated"
  /\ \/ "round_robin" \in Algorithms /\ UNCHANGED object
     \/ /\ "priority" \in Algorithms
        /\ \E s \in StarvationOf(object) : object' = Adjust(object, s)
  /\ UNCHANGED <<record, work, outside, asRecord, quantum>>

PassTime(ticks) ==
  /\ outside + ticks <= MaxOutside
  /\ object' = [object EXCEPT !.age = @ + ticks]
  /\ outside' = outside + ticks
  /\ UNCHANGED asRecord

\* Mutant of FitsQuantum: the comparison is the wrong way round.
FitsQuantumReversed(total) == total >= quantum

FitsQuantum(total) == total < quantum

\* The first read of time_quantum_.  The total of the classes without one is
\* any value.
CompareWithQuantum ==
  /\ where = "processor"
  /\ \E total \in IF object.type = "cpu" THEN {object.total} ELSE 0..MaxTime :
       where' = IF FitsQuantum(total) THEN "whole" ELSE "quantum"
  /\ UNCHANGED <<object, record, work, outside, asRecord, quantum>>

\* What execute() can return after some ticks: when its time is over it says
\* "not completed", whatever is left; IoBoundTask completes its last operation,
\* and any when the file does not open.
ExecuteResult(obj, ticks) ==
  IF obj.type = "cpu"
  THEN {FALSE} \cup (IF ticks >= obj.total THEN {TRUE} ELSE {})
  ELSE {TRUE} \cup (IF obj.total > 1 THEN {FALSE} ELSE {})

\* UnixTask::execute throws, the handler logs and the task is gone.
ExecuteThrows ==
  /\ where \in {"whole", "quantum"}
  /\ object.type = "unix"
  /\ where' = "failed"
  /\ UNCHANGED <<object, record, work, outside, asRecord, quantum>>

\* execute() for the whole total; what it returns does not matter.
ExecuteWhole ==
  /\ where = "whole"
  /\ object.type # "unix"
  /\ where' = "completed"
  /\ \E ticks \in 0..MaxOutside : PassTime(ticks)
  /\ UNCHANGED <<record, work, quantum>>

\* execute() for time_quantum_, read again; it may be over early or late.  Not
\* completed, the task is put back, or forgotten when the processor stops.
ExecuteQuantum ==
  /\ where = "quantum"
  /\ object.type # "unix"
  /\ \E ticks \in 0..MaxOutside :
       /\ PassTime(ticks)
       /\ \E done \in ExecuteResult(object, ticks) :
            where' \in IF done THEN {"completed"} ELSE {"executed", "stopped"}
  /\ UNCHANGED <<record, work, quantum>>

\* By any thread at any time.
SetTimeQuantum(q) ==
  /\ quantum' = q
  /\ UNCHANGED <<where, object, record, work, outside, asRecord>>

Gone == {"completed", "stopped", "failed"}

\* No object of the task is in use.
AsRecord == {"enqueue", "queue", "dequeued"}

\* An object waits: in a reordering for the tasks before it, which may wait for
\* slots.
Tick ==
  /\ where \notin AsRecord \cup Gone
  /\ PassTime(1)
  /\ UNCHANGED <<where, record, work, quantum>>

\* A record waits for a slot or the mutex, or for its conversion.
TickAsRecord ==
  /\ where \in {"enqueue", "dequeued"}
  /\ outside < MaxOutside
  /\ outside' = outside + 1
  /\ asRecord' = asRecord + 1
  /\ UNCHANGED <<where, object, record, work, quantum>>

-----------------------------------------------------------------------------

Init ==
  /\ where = "client"
  /\ work \in Works
  /\ \E type \in InitialTypes : object = NewObject(type, 0, work, FALSE)
  /\ record = NoRecord
  /\ outside = 0
  /\ asRecord = 0
  /\ quantum \in Quanta

Next ==
  \/ \E p \in NiceValues : SetStaticPriority(p)
  \/ Complete
  \/ ConvertTask
  \/ Enqueue
  \/ Dequeue
  \/ GetNextTask("reorder")
  \/ GetNextTask("processor")
  \/ ConvertThrows
  \/ UpdateTaskPriority
  \/ CompareWithQuantum
  \/ ExecuteThrows
  \/ ExecuteWhole
  \/ ExecuteQuantum
  \/ \E q \in Quanta : SetTimeQuantum(q)
  \/ Tick
  \/ TickAsRecord

Spec == Init /\ [][Next]_vars

-----------------------------------------------------------------------------
(* Properties *)

Owners == {"client", "reorder", "updated", "processor", "whole", "quantum",
           "executed"} \cup AsRecord \cup Gone

\* With every priority in range validate_priority does not throw when a record
\* is turned into an object, however often the task went round.
TypeOK ==
  /\ where \in Owners
  /\ object \in [type : Types, static : Priorities \cup NiceValues, dynamic : Priorities,
                 total : 0..MaxTime, age : 0..MaxOutside, completed : BOOLEAN,
                 adjusted : BOOLEAN]
  /\ record \in [type : Types, priority : Priorities, remaining : 0..MaxTime,
                 completed : BOOLEAN]
  /\ work \in 0..MaxTime
  /\ outside \in 0..MaxOutside
  /\ asRecord \in 0..outside
  /\ quantum \in Quanta

\* From one conversion to the next a task's priority never rises, under either
\* algorithm and for every waiting time: nothing makes a task more important.
PriorityNeverRises ==
  [][where # "client" => record'.priority <= record.priority]_vars

\* What convert_to_shared_task has charged: all time that the task spent as some
\* object, executed or not.
Charged == outside - asRecord

\* The remaining time of a CPU-intensive task is its work minus the time it spent
\* as an object, summed over all its objects: no time is charged twice, and what
\* is not charged is the wait inside enqueue, after the clock was read, and that
\* for the new object.
TimeAsObjectIsCharged ==
  (where \in AsRecord /\ record.type = "cpu" /\ ~record.completed)
    => record.remaining = Clamp(work - Charged, 0, MaxTime)

\* A CPU-intensive task leaves as completed only when less than a quantum of its
\* work is not charged, although time_quantum_ may change between the two reads.
LessThanAQuantumLeft ==
  (where = "completed" /\ object.type = "cpu" /\ ~record.completed)
    => \E q \in Quanta : work - Charged < q

\* A reordering executes nothing: the record it puts back has the remaining
\* execution time of the one it took out.
ReorderKeepsRemaining ==
  [][(/\ where = "updated" /\ where' = "enqueue"
      /\ record.type = "cpu" /\ ~record.completed)
       => record'.remaining = record.remaining]_vars

=============================================================================
