--------------------------- MODULE TaskProcessor ---------------------------
(***************************************************************************)
(* TaskProcessor: the thread that takes the oldest task, executes it for   *)
(* one quantum and puts it back if it is not finished; start and stop.     *)
(* ProcessorSystem runs it alone, Scheduler together with the reordering.  *)
(***************************************************************************)
EXTENDS TaskQueueManager

CONSTANTS
  Processor,  \* processor_thread_
  UnixTasks,  \* the tasks of class UnixTask, whose execute() throws
  MaxFailures \* bound: the calls that fail

ASSUME ProcessorAssumption == Processor \notin Callers
ASSUME UnixTasksAssumption == UnixTasks \subseteq Tasks
ASSUME MaxFailuresAssumption == MaxFailures \in Nat

VARIABLES
  processing,  \* running_ of the processor
  finished,    \* tasks whose execute() ended their work
  dropped,     \* unfinished tasks that were let go
  failures     \* the waits for a semaphore and the conversions that failed

processorVars == <<processing, finished, dropped, failures>>

-----------------------------------------------------------------------------
(* process_tasks *)

ProcessorLoop ==
  /\ IF processing
     THEN Goto(Processor, "loop", "count")
     ELSE Goto(Processor, "loop", "exit")
  /\ UNCHANGED <<queue, held, todo, processorVars>>

\* Mutant of ProcessorCount: task_count() >= 0.
ProcessorNoCount ==
  Goto(Processor, "count", "get") /\ UNCHANGED <<queue, held, todo, processorVars>>

\* task_count() > 0, or a sleep of 100 ms.
ProcessorCount ==
  /\ IF queue # <<>>
     THEN Goto(Processor, "count", "get")
     ELSE Goto(Processor, "count", "loop")
  /\ UNCHANGED <<queue, held, todo, processorVars>>

ProcessorGet ==
  \E t \in Tasks :
    /\ Goto(Processor, "get", "execute")
    /\ GetNextTask(t)
    /\ held' = [held EXCEPT ![Processor] = <<t>>]
    /\ UNCHANGED <<todo, processorVars>>

\* UnixTask::execute throws; the handler logs and the task is gone.
ProcessorThrow ==
  \E t \in UnixTasks :
    /\ held[Processor] = <<t>>
    /\ Goto(Processor, "execute", "loop")
    /\ held' = [held EXCEPT ![Processor] = <<>>]
    /\ dropped' = dropped \cup {t}
    /\ UNCHANGED <<queue, todo, processing, finished, failures>>

\* Mutant of ProcessorFinish: every class of task can be executed.
ProcessorFinishAny ==
  \E t \in Tasks :
    /\ held[Processor] = <<t>>
    /\ Goto(Processor, "execute", "loop")
    /\ held' = [held EXCEPT ![Processor] = <<>>]
    /\ finished' = finished \cup {t}
    /\ UNCHANGED <<queue, todo, processing, dropped, failures>>

\* Either the task needed less than a quantum, and is not looked at again, or
\* execute() says that it is completed.
ProcessorFinish ==
  \E t \in Tasks \ UnixTasks :
    /\ held[Processor] = <<t>>
    /\ Goto(Processor, "execute", "loop")
    /\ held' = [held EXCEPT ![Processor] = <<>>]
    /\ finished' = finished \cup {t}
    /\ UNCHANGED <<queue, todo, processing, dropped, failures>>

\* Mutant of ProcessorExpire: the test of completed is the wrong way round.
ProcessorExpireDrops ==
  /\ held[Processor] \in {<<t>> : t \in Tasks \ UnixTasks}
  /\ Goto(Processor, "execute", "loop")
  /\ held' = [held EXCEPT ![Processor] = <<>>]
  /\ dropped' = dropped \cup {Head(held[Processor])}
  /\ UNCHANGED <<queue, todo, processing, finished, failures>>

\* The quantum is over and the work is not.
ProcessorExpire ==
  /\ held[Processor] \in {<<t>> : t \in Tasks \ UnixTasks}
  /\ IF processing
     THEN /\ Goto(Processor, "execute", "add")
          /\ UNCHANGED <<held, dropped>>
     ELSE /\ Goto(Processor, "execute", "loop")
          /\ held' = [held EXCEPT ![Processor] = <<>>]
          /\ dropped' = dropped \cup {Head(held[Processor])}
  /\ UNCHANGED <<queue, todo, processing, finished, failures>>

ProcessorAdd ==
  /\ Goto(Processor, "add", "loop")
  /\ AddTask(Head(held[Processor]))
  /\ held' = [held EXCEPT ![Processor] = <<>>]
  /\ UNCHANGED <<todo, processorVars>>

ProcessTasks ==
  \/ ProcessorLoop
  \/ ProcessorCount
  \/ ProcessorGet
  \/ ProcessorThrow
  \/ ProcessorFinish
  \/ ProcessorExpire
  \/ ProcessorAdd

-----------------------------------------------------------------------------
(* enqueue and dequeue throw when a wait for a semaphore fails, and change  *)
(* nothing then; get_next_task also throws after its dequeue, when the new  *)
(* object cannot have its log files.  The loops of the two threads catch    *)
(* and go on; an add_task of a caller that throws ends the program.         *)

CallFails ==
  /\ failures < MaxFailures
  /\ failures' = failures + 1

InHand(th) == {held[th][i] : i \in DOMAIN held[th]}

\* The pointers of a thread's function are gone with the exception.
LetGo(th) ==
  /\ held' = [held EXCEPT ![th] = <<>>]
  /\ dropped' = dropped \cup InHand(th)
  /\ UNCHANGED <<queue, todo, processing, finished>>

ProcessorGetFails ==
  /\ Goto(Processor, "get", "loop")
  /\ CallFails
  /\ UNCHANGED <<queue, held, todo, processing, finished, dropped>>

\* convert_from_shared_task throws, and the record that was dequeued is gone.
ProcessorConvertFails ==
  /\ Goto(Processor, "execute", "loop")
  /\ CallFails
  /\ LetGo(Processor)

\* Mutant of ProcessorAddFails: the add_task is tried again, although only the
\* print() after the enqueue failed.
ProcessorAddRetries ==
  /\ Goto(Processor, "add", "add")
  /\ CallFails
  /\ AddTask(Head(held[Processor]))
  /\ UNCHANGED <<held, todo, processing, finished, dropped>>

\* A wait that fails in print(), after the enqueue, is ProcessorAdd.
ProcessorAddFails ==
  /\ Goto(Processor, "add", "loop")
  /\ CallFails
  /\ LetGo(Processor)

ProcessorFails == ProcessorGetFails \/ ProcessorConvertFails \/ ProcessorAddFails

-----------------------------------------------------------------------------
(* start and stop, called by the thread th.  A thread that was not started  *)
(* or was joined is at its exit.                                            *)

StartProcessor(th, from, to) ==
  /\ pc[th] = from
  /\ pc' = [pc EXCEPT ![th] = to, ![Processor] = "loop"]
  /\ processing' = TRUE
  /\ UNCHANGED <<queue, held, todo, finished, dropped, failures>>

StopProcessor(th, from, to) ==
  /\ Goto(th, from, to)
  /\ processing' = FALSE
  /\ UNCHANGED <<queue, held, todo, finished, dropped, failures>>

JoinProcessor(th, from, to) ==
  /\ pc[Processor] = "exit"
  /\ Goto(th, from, to)
  /\ UNCHANGED <<queue, held, todo, processorVars>>

-----------------------------------------------------------------------------
(* Properties *)

ProcessorTypeOK ==
  /\ queue \in Seq(Tasks) /\ Len(queue) <= Capacity
  /\ pc[Processor] \in {"loop", "count", "get", "execute", "add", "exit"}
  /\ \A th \in DOMAIN held : held[th] \in Seq(Tasks)
  /\ todo \in [Callers -> Seq(Tasks)]
  /\ processing \in BOOLEAN
  /\ finished \subseteq Tasks \ UnixTasks
  /\ dropped \subseteq Tasks
  /\ failures \in 0..MaxFailures

\* The places of a task: still with its caller, in the queue, in the hands of
\* a thread, or at its end.
Places(t) ==
  (UNION {{"todo"} \X {th} \X Positions(todo[th], t) : th \in Callers})
    \cup (UNION {{"held"} \X {th} \X Positions(held[th], t) : th \in DOMAIN held})
    \cup ({"all"} \X {"queue"} \X Positions(queue, t))
    \cup ({"all"} \X {"finished"} \X (finished \cap {t}))
    \cup ({"all"} \X {"dropped"} \X (dropped \cap {t}))

\* No task is ever lost or doubled on its way between the callers, the queue
\* and the threads that take tasks out of it.
NoTaskLostOrDoubled == \A t \in Tasks : Cardinality(Places(t)) = 1

\* An unfinished task that can be executed goes back to the queue.
UnfinishedTasksKept == dropped \subseteq UnixTasks

-----------------------------------------------------------------------------
(* The life of a task, seen through the queue and the threads. *)

statusBar ==
  [t \in Tasks |->
     IF \E th \in Callers : Positions(todo[th], t) # {} THEN "new"
     ELSE IF t \in finished THEN "finished"
     ELSE IF t \in dropped THEN "dropped"
     ELSE IF Positions(held[Processor], t) # {} THEN "running"
     ELSE "waiting"]

Lifecycle == INSTANCE TaskLifecycle WITH status <- statusBar

\* Every task lives as promised: added once, one task running at a time, lost
\* unfinished only when it cannot be executed, on stop(), or in the hand of a
\* thread whose call fails.
ImplementsLifecycle == Lifecycle!Spec
=============================================================================
