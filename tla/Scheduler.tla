----------------------------- MODULE Scheduler -----------------------------
(***************************************************************************)
(* Scheduler: its own thread reorders the queue over and over while the    *)
(* TaskProcessor works on it; every add_task reorders the queue as well.   *)
(* Main is the thread that starts and stops the scheduler, the other       *)
(* callers are the server's detached handlers, one for each client.        *)
(***************************************************************************)
EXTENDS TaskProcessor

CONSTANTS
  Main,            \* the caller that starts and stops the scheduler
  SchedulerThread  \* scheduler_thread_

ASSUME MainAssumption == Main \in Callers
ASSUME SchedulerThreadAssumption == SchedulerThread \notin Callers \cup {Processor}

VARIABLE running   \* running_ of the scheduler

vars == <<queueVars, processorVars, running>>

-----------------------------------------------------------------------------
(* add_task: enqueue, then reorder the whole queue. *)

Home(th) == IF th = Main /\ running THEN "started" ELSE "idle"

Add(th) ==
  /\ Goto(th, Home(th), "reorder_test")
  /\ AddOwnTask(th)
  /\ UNCHANGED <<held, processorVars, running>>

AddReorder(th) ==
  /\ Reorder(th) \/ ReorderReturn(th, Home(th))
  /\ UNCHANGED <<processorVars, running>>

-----------------------------------------------------------------------------
(* schedule() *)

ScheduleLoop ==
  /\ Goto(SchedulerThread, "loop", IF running THEN "reorder_test" ELSE "exit")
  /\ UNCHANGED <<queue, held, todo, processorVars, running>>

\* The return from reorder_tasks includes the sleep of 500 ms.
ScheduleReorder ==
  /\ Reorder(SchedulerThread) \/ ReorderReturn(SchedulerThread, "loop")
  /\ UNCHANGED <<processorVars, running>>

Schedule == ScheduleLoop \/ ScheduleReorder

\* A get_next_task, before or after its dequeue, or an add_task of reorder_tasks
\* throws: what it holds is gone.
ScheduleFails ==
  /\ \/ Goto(SchedulerThread, "reorder_get", "loop")
     \/ held[SchedulerThread] # <<>> /\ Goto(SchedulerThread, "reorder_test", "loop")
     \/ held[SchedulerThread] # <<>> /\ Goto(SchedulerThread, "reorder_add", "loop")
  /\ CallFails
  /\ LetGo(SchedulerThread)
  /\ UNCHANGED running

-----------------------------------------------------------------------------
(* start() and stop() *)

Start ==
  /\ pc[Main] = "idle"
  /\ running' = TRUE
  /\ processing' = TRUE
  /\ pc' = [pc EXCEPT ![Main] = "started", ![Processor] = "loop",
                      ![SchedulerThread] = "loop"]
  /\ UNCHANGED <<queue, held, todo, finished, dropped, failures>>

\* Mutant of Stop: running_ is not reset.
StopKeepsRunning ==
  /\ Goto(Main, "started", "stop_processor")
  /\ UNCHANGED <<queue, held, todo, processorVars, running>>

Stop ==
  /\ Goto(Main, "started", "stop_processor")
  /\ running' = FALSE
  /\ UNCHANGED <<queue, held, todo, processorVars>>

StopTheProcessor ==
  /\ StopProcessor(Main, "stop_processor", "join_processor")
  /\ UNCHANGED running

JoinTheProcessor ==
  /\ JoinProcessor(Main, "join_processor", "join_scheduler")
  /\ UNCHANGED running

\* Mutant of JoinScheduler: the thread is not joined.
NoJoinScheduler ==
  /\ Goto(Main, "join_scheduler", "idle")
  /\ UNCHANGED <<queue, held, todo, processorVars, running>>

JoinScheduler ==
  /\ pc[SchedulerThread] = "exit"
  /\ Goto(Main, "join_scheduler", "idle")
  /\ UNCHANGED <<queue, held, todo, processorVars, running>>

Stopping == StopTheProcessor \/ JoinTheProcessor \/ JoinScheduler

-----------------------------------------------------------------------------

Threads == Callers \cup {Processor, SchedulerThread}

Init ==
  /\ queue = <<>>
  /\ pc = [th \in Threads |-> IF th \in Callers THEN "idle" ELSE "exit"]
  /\ held = [th \in Threads |-> <<>>]
  /\ todo = Script
  /\ processing = FALSE
  /\ finished = {}
  /\ dropped = {}
  /\ failures = 0
  /\ running = FALSE

Next ==
  \/ ProcessTasks /\ UNCHANGED running
  \/ ProcessorFails /\ UNCHANGED running
  \/ Schedule
  \/ ScheduleFails
  \/ \E th \in Callers : Add(th) \/ AddReorder(th)
  \/ Start
  \/ Stop
  \/ Stopping

Spec == Init /\ [][Next]_vars

\* Every thread that can run does.  Main need not call stop(), no call need fail.
FairSpec ==
  /\ Spec
  /\ WF_vars(ProcessTasks /\ UNCHANGED running)
  /\ WF_vars(Schedule)
  /\ \A th \in Callers : WF_vars(Add(th) \/ AddReorder(th))
  /\ WF_vars(Stopping)

-----------------------------------------------------------------------------
(* Properties *)

Reordering == {"reorder_test", "reorder_get", "reorder_add"}

TypeOK ==
  /\ ProcessorTypeOK
  /\ pc[Main] \in {"idle", "started", "stop_processor", "join_processor",
                   "join_scheduler"} \cup Reordering
  /\ \A th \in Callers \ {Main} : pc[th] \in {"idle"} \cup Reordering
  /\ pc[SchedulerThread] \in {"loop", "exit"} \cup Reordering
  /\ running \in BOOLEAN

\* After stop() no thread of the scheduler has a task in its hands.
StoppedClean ==
  pc[Main] = "idle" =>
    \A th \in {Processor, SchedulerThread} : pc[th] = "exit" /\ held[th] = <<>>

\* The queue is empty, and whoever has tasks in hand waits for another one.
Stranded ==
  /\ queue = <<>>
  /\ \E th \in Threads : held[th] # <<>>
  /\ \A th \in Threads : held[th] # <<>> => pc[th] = "reorder_get"

\* Reordering threads do not strand the tasks by themselves, although each of
\* them may wait for a task that another one took: the one that empties the
\* queue finds it empty and puts back what it has.  Only the end of the last
\* task that was not in the hands of a waiting thread leaves the others there.
StrandedOnlyByAnEnd ==
  [][Stranded' => Stranded \/ finished' # finished \/ dropped' # dropped]_vars

\* stop() returns: the loops end and the threads are joined.
StopReturns == (pc[Main] = "stop_processor") ~> (pc[Main] = "idle")

\* A thread waits for a task that it saw in the queue and came too late for, or
\* for a slot to put a task back.
Stuck ==
  \E th \in {Processor, SchedulerThread} :
    \/ pc[th] \in {"get", "reorder_get"} /\ queue = <<>>
    \/ pc[th] \in {"add", "reorder_add"} /\ Len(queue) = Capacity

\* Nothing else keeps stop() from returning.
StopReturnsUnlessStuck ==
  (pc[Main] = "stop_processor") ~> (pc[Main] = "idle" \/ []Stuck)
=============================================================================
