------------------------- MODULE TaskQueueManager -------------------------
(***************************************************************************)
(* TaskQueueManager: add_task, get_next_task, task_count and reorder_tasks *)
(* over the bounded queue that the shared memory provides.  The operations *)
(* of the queue are atomic here: PosixSharedMemory implements SharedMemory.*)
(* A task is the client's task with the record that travels for it; what   *)
(* the conversions do to the record's numbers is in TaskConversion.        *)
(***************************************************************************)
EXTENDS Naturals, Sequences, FiniteSets

CONSTANTS
  Tasks,     \* the tasks that the callers add
  Callers,   \* the threads that add them
  Script,    \* the tasks that each caller adds, in order
  Capacity   \* capacity_ of the shared memory

\* Where a task is in a sequence of tasks.
Positions(s, t) == {i \in DOMAIN s : s[i] = t}

ASSUME TasksAssumption == IsFiniteSet(Tasks)
ASSUME CapacityAssumption == Capacity \in Nat \ {0}
\* A task is added once, by one caller.
ASSUME ScriptAssumption ==
  /\ Script \in [Callers -> Seq(Tasks)]
  /\ \A t \in Tasks : \E th \in Callers : \E i \in DOMAIN Script[th] :
       \A o \in Callers : Positions(Script[o], t) = IF o = th THEN {i} ELSE {}

VARIABLES
  queue,   \* the tasks in shared memory, the oldest first
  pc,      \* where each thread is
  held,    \* the tasks a thread took out and did not put back, in order
  todo     \* what is left of each caller's script

queueVars == <<queue, pc, held, todo>>

Goto(th, from, to) ==
  /\ pc[th] = from
  /\ pc' = [pc EXCEPT ![th] = to]

\* add_task: held back while the queue is full.  The print() that follows the
\* enqueue changes nothing.
AddTask(t) ==
  /\ Len(queue) < Capacity
  /\ queue' = Append(queue, t)

\* Mutant of GetNextTask: the newest task first.
GetNewestTask(t) ==
  /\ queue # <<>>
  /\ t = queue[Len(queue)]
  /\ queue' = SubSeq(queue, 1, Len(queue) - 1)

\* get_next_task: held back while the queue is empty.
GetNextTask(t) ==
  /\ queue # <<>>
  /\ t = Head(queue)
  /\ queue' = Tail(queue)

\* The next task of a caller's script.
AddOwnTask(th) ==
  /\ todo[th] # <<>>
  /\ AddTask(Head(todo[th]))
  /\ todo' = [todo EXCEPT ![th] = Tail(@)]

-----------------------------------------------------------------------------
(* reorder_tasks.  empty() reads the counter without the mutex, so whatever *)
(* it answers may be false by the time of the next step.                    *)

\* Mutant of ReorderTest: the loop ends when a get_next_task fails only.
ReorderNoTest(th) ==
  Goto(th, "reorder_test", "reorder_get") /\ UNCHANGED <<queue, held, todo>>

ReorderTest(th) ==
  /\ IF queue = <<>>
     THEN Goto(th, "reorder_test", "reorder_add")
     ELSE Goto(th, "reorder_test", "reorder_get")
  /\ UNCHANGED <<queue, held, todo>>

ReorderGet(th) ==
  \E t \in Tasks :
    /\ Goto(th, "reorder_get", "reorder_test")
    /\ GetNextTask(t)
    /\ held' = [held EXCEPT ![th] = Append(@, t)]
    /\ UNCHANGED todo

\* Mutant of ReorderAdd: the last of the held tasks is put back, the first is
\* taken off the list.
ReorderAddLast(th) ==
  /\ held[th] # <<>>
  /\ Goto(th, "reorder_add", "reorder_add")
  /\ AddTask(held[th][Len(held[th])])
  /\ held' = [held EXCEPT ![th] = Tail(@)]
  /\ UNCHANGED todo

\* update_task_priority comes in between and touches the held tasks only.
ReorderAdd(th) ==
  /\ held[th] # <<>>
  /\ Goto(th, "reorder_add", "reorder_add")
  /\ AddTask(Head(held[th]))
  /\ held' = [held EXCEPT ![th] = Tail(@)]
  /\ UNCHANGED todo

ReorderReturn(th, to) ==
  /\ held[th] = <<>>
  /\ Goto(th, "reorder_add", to)
  /\ UNCHANGED <<queue, held, todo>>

\* The steps of reorder_tasks up to its return.
Reorder(th) ==
  \/ ReorderTest(th)
  \/ ReorderGet(th)
  \/ ReorderAdd(th)
=============================================================================
