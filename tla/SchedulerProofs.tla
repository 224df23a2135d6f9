-------------------------- MODULE SchedulerProofs --------------------------
(***************************************************************************)
(* The scheduler with its processor and the threads that reorder the       *)
(* queue, for any number of callers and tasks, any scripts and any         *)
(* capacity.                                                               *)
(***************************************************************************)
EXTENDS Scheduler, TaskProcessorProofs

StopPlaces == {"stop_processor", "join_processor", "join_scheduler"}

Labels ==
  {"idle", "started", "loop", "count", "get", "execute", "add", "exit"}
    \cup StopPlaces \cup Reordering

\* Who has tasks in hand, and what start() and stop() have done so far.
Threading ==
  /\ pc \in [Threads -> Labels]
  /\ DOMAIN held = Threads
  /\ \A th \in Threads \ {Processor} : pc[th] \notin Reordering => held[th] = <<>>
  /\ pc[Main] = "started" => running
  /\ pc[Main] \in {"idle"} \cup StopPlaces => ~running
  /\ processing <=> running \/ pc[Main] = "stop_processor"
  /\ ~running /\ pc[Main] \notin StopPlaces
       => pc[Processor] = "exit" /\ pc[SchedulerThread] = "exit"
  /\ pc[Main] = "join_scheduler" => pc[Processor] = "exit"

IInv ==
  /\ TypeOK
  /\ Threading
  /\ Lists
  /\ Unique
  /\ HandsFit

\* Everything is in the scripts, and nothing is started.
LEMMA InitIInv == Init => IInv /\ Lifecycle!Init
  <1> SUFFICES ASSUME Init PROVE IInv /\ Lifecycle!Init
    OBVIOUS
  <1> USE MainAssumption, ProcessorAssumption, SchedulerThreadAssumption DEF Init, Threads
  <1>1. Lists
    BY ScriptAssumption DEF Lists
  <1>2. Threading
    BY DEF Threading, Labels, StopPlaces
  <1>3. TypeOK
    <2>1. Len(queue) <= Capacity /\ failures \in 0..MaxFailures
      BY CapacityAssumption, MaxFailuresAssumption
    <2> QED
      BY <1>1, <2>1 DEF TypeOK, ProcessorTypeOK, Lists
  <1>4. Unique
    BY UniqueAtStart
  <1>5. HandsFit
    BY DEF HandsFit
  <1>6. statusBar = [t \in Tasks |-> "new"]
    <2> SUFFICES ASSUME NEW t \in Tasks
                 PROVE  \E th \in Callers : Positions(todo[th], t) # {}
      BY DEF statusBar
    <2>1. PICK th \in Callers : \E i \in DOMAIN Script[th] :
            Positions(Script[th], t) = {i}
      BY ScriptAssumption
    <2> QED
      BY <2>1
  <1> QED
    BY <1>1, <1>2, <1>3, <1>4, <1>5, <1>6 DEF IInv, Lifecycle!Init

\* What a step has to keep.
StepIsSafe == IInv' /\ [Lifecycle!Next]_(Lifecycle!vars)

\* process_tasks.
LEMMA ProcessTasksSafe ==
  ASSUME IInv, ProcessTasks, UNCHANGED running
  PROVE  StepIsSafe
  <1>1. Processor \in DOMAIN pc /\ pc = [th \in DOMAIN pc |-> pc[th]]
    BY DEF IInv, Threading, Threads
  <1>2. Unique' /\ Lists' /\ HandsFit' /\ [Lifecycle!Next]_(Lifecycle!vars)
    BY <1>1, ProcessorStep DEF IInv
  <1>3. ProcessorTypeOK'
    BY <1>1, <1>2, ProcessorKeepsTypes DEF IInv, TypeOK
  <1>4. /\ pc' = [pc EXCEPT ![Processor] = pc'[Processor]]
        /\ held' = [held EXCEPT ![Processor] = held'[Processor]]
        /\ processing' = processing /\ running' = running
    BY <1>1, ProcessorFrame DEF IInv
  <1>5. pc'[Processor] \in {"loop", "count", "get", "execute", "add", "exit"}
    BY <1>3 DEF ProcessorTypeOK
  <1>6. pc[Processor] # "exit"
    BY DEF ProcessTasks, ProcessorLoop, ProcessorCount, ProcessorGet, ProcessorThrow,
           ProcessorFinish, ProcessorExpire, ProcessorAdd, Goto
  <1>7. TypeOK' /\ Threading'
    BY <1>3, <1>4, <1>5, <1>6, MainAssumption, ProcessorAssumption,
       SchedulerThreadAssumption
    DEF IInv, TypeOK, Threading, Threads, Labels
  <1> QED
    BY <1>2, <1>7 DEF StepIsSafe, IInv

\* A call of the processor that fails.
LEMMA ProcessorFailsSafe ==
  ASSUME IInv, ProcessorFails, UNCHANGED running
  PROVE  StepIsSafe
  <1>1. Processor \in DOMAIN pc
    BY DEF IInv, Threading, Threads
  <1>2. Unique' /\ Lists' /\ HandsFit' /\ Lifecycle!Next
    BY <1>1, ProcessorFailsStep DEF IInv
  <1>3. ProcessorTypeOK'
    BY <1>1, <1>2, ProcessorFailsKeepsTypes DEF IInv, TypeOK
  <1>4. /\ pc[Processor] \in {"get", "execute", "add"}
        /\ pc' = [pc EXCEPT ![Processor] = "loop"]
        /\ DOMAIN held' = DOMAIN held
        /\ \A th \in DOMAIN held \ {Processor} : held'[th] = held[th]
        /\ UNCHANGED <<queue, processing, running>>
    BY DEF ProcessorFails, ProcessorGetFails, ProcessorConvertFails, ProcessorAddFails,
           Goto, LetGo, IInv, Lists
  <1>5. TypeOK' /\ Threading'
    BY <1>1, <1>3, <1>4, MainAssumption, ProcessorAssumption, SchedulerThreadAssumption
    DEF IInv, TypeOK, Threading, Threads, Labels
  <1> QED
    BY <1>2, <1>5 DEF StepIsSafe, IInv

\* A call of the scheduler's thread that fails: it goes on with empty hands.
LEMMA ScheduleFailsSafe == ASSUME IInv, ScheduleFails PROVE StepIsSafe
  <1> USE MainAssumption, ProcessorAssumption, SchedulerThreadAssumption
  <1>1. /\ pc[SchedulerThread] \in Reordering
        /\ pc' = [pc EXCEPT ![SchedulerThread] = "loop"]
        /\ LetGo(SchedulerThread) /\ UNCHANGED running
        /\ failures' = failures + 1 /\ failures' \in 0..MaxFailures
    BY MaxFailuresAssumption
    DEF ScheduleFails, Goto, CallFails, Reordering, IInv, TypeOK, ProcessorTypeOK
  <1>2. SchedulerThread \in DOMAIN held /\ SchedulerThread # Processor
    BY DEF IInv, Threading, Threads
  <1>3. Unique' /\ Lists' /\ Lifecycle!Next
    BY <1>1, <1>2, LetGoLoses DEF IInv
  <1>4. InHand(SchedulerThread) \subseteq Tasks
    BY <1>1, <1>2, LetGoMoves DEF IInv
  <1>5. /\ DOMAIN held' = DOMAIN held /\ held'[SchedulerThread] = <<>>
        /\ \A th \in DOMAIN held \ {SchedulerThread} : held'[th] = held[th]
        /\ dropped' = dropped \cup InHand(SchedulerThread)
        /\ UNCHANGED <<queue, todo, processing, finished, running>>
    BY <1>1, <1>2 DEF LetGo, IInv, Lists
  <1>6. TypeOK'
    BY <1>1, <1>3, <1>4, <1>5
    DEF IInv, TypeOK, ProcessorTypeOK, Threading, Threads, Lists
  <1>7. HandsFit'
    BY <1>1, <1>2, <1>5 DEF IInv, HandsFit, Threading, Threads, Lists
  <1>8. Threading'
    BY <1>1, <1>5 DEF IInv, Threading, Threads, Labels, StopPlaces, Reordering
  <1> QED
    BY <1>3, <1>6, <1>7, <1>8 DEF StepIsSafe, IInv

\* A step of reorder_tasks moves a task or none and changes no task's life.
LEMMA ReorderStep ==
  ASSUME IInv, NEW th \in Threads \ {Processor}, Reorder(th), UNCHANGED processorVars
  PROVE  /\ Unique' /\ Lists' /\ UNCHANGED Lifecycle!vars
         /\ Len(queue') <= Capacity
         /\ pc[th] \in Reordering
         /\ \E at \in Reordering : pc' = [pc EXCEPT ![th] = at]
         /\ DOMAIN held' = DOMAIN held
         /\ \A o \in Threads \ {th} : held'[o] = held[o]
  <1>1. th \in DOMAIN held /\ th # Processor
    BY DEF IInv, Threading
  <1>2. CASE ReorderTest(th)
    BY <1>2, StutterKeepsUnique, StutterKeepsStatus
    DEF ReorderTest, Goto, Reordering, processorVars, IInv, TypeOK, ProcessorTypeOK,
        Lists, Lifecycle!vars
  <1>3. CASE ReorderGet(th)
    <2>1. PICK t \in Tasks :
            /\ Goto(th, "reorder_get", "reorder_test")
            /\ GetNextTask(t)
            /\ held' = [held EXCEPT ![th] = Append(@, t)]
            /\ UNCHANGED todo
      BY <1>3 DEF ReorderGet
    <2>2. Lists' /\ Moves(t, Queue, Held(th))
      BY <1>1, <2>1, TakeMoves DEF IInv, processorVars
    <2>3. Unique'
      BY <2>2, MovesKeepUnique DEF IInv
    <2>4. UNCHANGED Lifecycle!vars
      BY <1>1, <2>2, <2>3, LifeOfMove DEF IInv, processorVars
    <2>5. Len(queue') <= Capacity
      BY <2>1, QueueBounded DEF IInv, TypeOK, ProcessorTypeOK
    <2> QED
      BY <2>1, <2>2, <2>3, <2>4, <2>5 DEF Goto, Reordering, IInv, Threading
  <1>4. CASE ReorderAdd(th)
    <2>1. /\ held[th] # <<>> /\ Goto(th, "reorder_add", "reorder_add")
          /\ AddTask(Head(held[th]))
          /\ held' = [held EXCEPT ![th] = Tail(@)]
          /\ UNCHANGED todo
      BY <1>4 DEF ReorderAdd
    <2>2. PICK t \in Tasks : Lists' /\ t = Head(held[th]) /\ Moves(t, Held(th), Queue)
      BY <1>1, <2>1, PutMoves DEF IInv, processorVars
    <2>3. Unique'
      BY <2>2, MovesKeepUnique DEF IInv
    <2>4. UNCHANGED Lifecycle!vars
      BY <1>1, <2>2, <2>3, LifeOfMove DEF IInv, processorVars
    <2>5. Len(queue') <= Capacity
      BY <2>1, <2>2, QueueBounded DEF IInv, TypeOK, ProcessorTypeOK
    <2> QED
      BY <2>1, <2>2, <2>3, <2>4, <2>5 DEF Goto, Reordering, IInv, Threading
  <1> QED
    BY <1>2, <1>3, <1>4 DEF Reorder

\* A whole step of a thread that reorders, its return included.
LEMMA ReorderSafe ==
  ASSUME IInv, NEW th \in Threads \ {Processor}, NEW home,
         Reorder(th) \/ ReorderReturn(th, home),
         UNCHANGED <<processorVars, running>>,
         th \in Callers => home = Home(th),
         th = SchedulerThread => home = "loop"
  PROVE  StepIsSafe
  <1> USE MainAssumption, ProcessorAssumption, SchedulerThreadAssumption
  <1>1. CASE Reorder(th)
    <2>1. /\ Unique' /\ Lists' /\ UNCHANGED Lifecycle!vars
          /\ Len(queue') <= Capacity
          /\ pc[th] \in Reordering
          /\ \E at \in Reordering : pc' = [pc EXCEPT ![th] = at]
          /\ DOMAIN held' = DOMAIN held
          /\ \A o \in Threads \ {th} : held'[o] = held[o]
      BY <1>1, ReorderStep
    <2>2. ProcessorTypeOK'
      BY <2>1 DEF IInv, TypeOK, ProcessorTypeOK, Threading, Threads, Lists, processorVars
    <2>3. TypeOK'
      BY <2>1, <2>2 DEF IInv, TypeOK, Threading, Threads, Reordering
    <2>4. HandsFit'
      BY <2>1 DEF IInv, HandsFit, Threading, Threads
    <2>5. Threading'
      BY <2>1 DEF IInv, Threading, Threads, Labels, StopPlaces, Reordering, processorVars
    <2> QED
      BY <2>1, <2>3, <2>4, <2>5 DEF StepIsSafe, IInv
  <1>2. CASE ReorderReturn(th, home)
    <2>1. /\ held[th] = <<>> /\ pc[th] = "reorder_add"
          /\ pc' = [pc EXCEPT ![th] = home]
          /\ UNCHANGED <<queue, held, todo, processing, finished, dropped, failures,
                         running>>
      BY <1>2 DEF ReorderReturn, Goto, processorVars
    <2>2. Unique' /\ statusBar' = statusBar /\ Lists'
      BY <2>1, StutterKeepsUnique, StutterKeepsStatus DEF IInv, Lists
    <2>3. /\ home \in {"idle", "started", "loop"}
          /\ th \in Callers => home = IF th = Main /\ running THEN "started" ELSE "idle"
      BY DEF Home, Threads
    <2>4. TypeOK'
      BY <2>1, <2>3 DEF IInv, TypeOK, ProcessorTypeOK, Threading, Threads
    <2>5. HandsFit'
      BY <2>1 DEF IInv, HandsFit, Threading, Threads
    <2>6. Threading'
      BY <2>1, <2>3 DEF IInv, Threading, Threads, Labels, StopPlaces, Reordering
    <2> QED
      BY <2>1, <2>2, <2>4, <2>5, <2>6 DEF StepIsSafe, IInv, Lifecycle!vars
  <1> QED
    BY <1>1, <1>2

\* The enqueue of add_task by a caller.
LEMMA AddSafe == ASSUME IInv, NEW th \in Callers, Add(th) PROVE StepIsSafe
  <1> USE MainAssumption, ProcessorAssumption, SchedulerThreadAssumption
  <1>1. /\ AddOwnTask(th) /\ UNCHANGED <<held, processorVars, running>>
        /\ pc[th] \in {"idle", "started"}
        /\ pc' = [pc EXCEPT ![th] = "reorder_test"]
    BY DEF Add, Goto, Home
  <1>2. Unique' /\ Lists' /\ Lifecycle!Next
    BY <1>1, AddStep DEF IInv, processorVars
  <1>3. ProcessorTypeOK'
    <2>1. pc'[Processor] = pc[Processor]
      BY <1>1 DEF IInv, Threading, Threads
    <2> QED
      BY <1>1, <1>2, <2>1, AddKeepsTypes DEF IInv, TypeOK
  <1>4. TypeOK'
    BY <1>1, <1>3 DEF IInv, TypeOK, Threading, Threads, Reordering
  <1>5. HandsFit'
    BY <1>1 DEF IInv, HandsFit, Threading, Threads
  <1>6. Threading'
    BY <1>1
    DEF IInv, Threading, Threads, Labels, StopPlaces, Reordering, processorVars
  <1> QED
    BY <1>2, <1>4, <1>5, <1>6 DEF StepIsSafe, IInv

\* The steps that only start, stop, test running_ or join.
LEMMA ControlSafe ==
  ASSUME IInv, ScheduleLoop \/ Start \/ Stop \/ Stopping
  PROVE  StepIsSafe
  <1> USE MainAssumption, ProcessorAssumption, SchedulerThreadAssumption
  <1> USE DEF ScheduleLoop, Start, Stop, Stopping, StopTheProcessor, JoinTheProcessor,
          JoinScheduler, StopProcessor, JoinProcessor, Goto, processorVars
  <1>1. /\ UNCHANGED <<queue, held, todo, finished, dropped>>
        /\ DOMAIN pc = Threads
    BY DEF IInv, Threading
  <1>2. Unique' /\ Lists' /\ statusBar' = statusBar
    BY <1>1, StutterKeepsUnique, StutterKeepsStatus DEF IInv, Lists
  <1>3. HandsFit'
    BY <1>1 DEF IInv, HandsFit, Threading, Threads, StopPlaces
  <1>4. Threading'
    BY <1>1 DEF IInv, TypeOK, Threading, Threads, Labels, StopPlaces, Reordering
  <1>5. TypeOK'
    BY <1>1
    DEF IInv, TypeOK, ProcessorTypeOK, Threading, Threads, StopPlaces, Reordering
  <1>6. Lifecycle!Start \/ Lifecycle!Stop \/ UNCHANGED Lifecycle!vars
    BY <1>2 DEF IInv, TypeOK, ProcessorTypeOK, Threading, StopPlaces,
                Lifecycle!Start, Lifecycle!Stop, Lifecycle!vars
  <1> QED
    BY <1>2, <1>3, <1>4, <1>5, <1>6 DEF StepIsSafe, IInv, Lifecycle!Next

\* One step for each action.
LEMMA NextSafe == IInv /\ [Next]_vars => StepIsSafe
  <1> SUFFICES ASSUME IInv, [Next]_vars PROVE StepIsSafe
    OBVIOUS
  <1>1. CASE UNCHANGED vars
    <2>1. Unique' /\ statusBar' = statusBar
      BY <1>1, StutterKeepsUnique, StutterKeepsStatus
      DEF IInv, vars, queueVars, processorVars
    <2> QED
      BY <1>1, <2>1
      DEF StepIsSafe, IInv, TypeOK, ProcessorTypeOK, Threading, Lists, HandsFit,
          vars, queueVars, processorVars, Lifecycle!vars
  <1>2. ASSUME NEW th \in Callers, AddReorder(th) PROVE StepIsSafe
    BY <1>2, ReorderSafe, ProcessorAssumption, SchedulerThreadAssumption
    DEF AddReorder, Threads
  <1>3. CASE ScheduleReorder
    BY <1>3, ReorderSafe, SchedulerThreadAssumption DEF ScheduleReorder, Threads
  <1> QED
    BY <1>1, <1>2, <1>3, ProcessTasksSafe, ProcessorFailsSafe, ScheduleFailsSafe, AddSafe,
       ControlSafe
    DEF Next, Schedule

\* The invariant holds in every reachable state.
THEOREM Inductive == Spec => []IInv
  <1>1. StepIsSafe => IInv'
    BY DEF StepIsSafe
  <1> QED
    BY <1>1, InitIInv, NextSafe, PTL DEF Spec

\* Every variable keeps its type; the queue never holds more than its capacity.
THEOREM TypeCorrect == Spec => []TypeOK
  <1>1. IInv => TypeOK
    BY DEF IInv
  <1> QED
    BY <1>1, Inductive, PTL

\* No task is lost or doubled, however many threads reorder the queue at once.
THEOREM OnePlace == Spec => []NoTaskLostOrDoubled
  <1>1. IInv => NoTaskLostOrDoubled
    BY UniqueIsOnePlace DEF IInv
  <1> QED
    BY <1>1, Inductive, PTL

\* A thread is inside enqueue with a task that it has in hand.
PuttingBack(th) == pc[th] \in {"add", "reorder_add"} /\ held[th] # <<>>

\* With a slot for each task no thread ever waits to put one back: then a thread
\* that is Stuck waits for a task.
THEOREM NoGridlock ==
  ASSUME Cardinality(Tasks) <= Capacity
  PROVE  Spec => [](\A th \in Threads : PuttingBack(th) => Len(queue) < Capacity)
  <1>1. IInv => \A th \in Threads : PuttingBack(th) => Len(queue) < Capacity
    BY SlotForEachTask DEF IInv, Threading, PuttingBack
  <1> QED
    BY <1>1, Inductive, PTL

\* After stop() both threads are at their exit with nothing in their hands.
THEOREM StopLeavesNothing == Spec => []StoppedClean
  <1>1. IInv => StoppedClean
    BY MainAssumption, ProcessorAssumption, SchedulerThreadAssumption
    DEF IInv, Threading, Threads, HandsFit, StoppedClean, StopPlaces, Reordering
  <1> QED
    BY <1>1, Inductive, PTL

\* A task in someone's hands has not ended.
LEMMA InHandIsNoEnd ==
  ASSUME Unique, NEW th \in DOMAIN held, NEW t \in Tasks, In(held[th], t)
  PROVE  t \notin finished /\ t \notin dropped
  BY ContainsFacts, ContainerFacts, OnlyThere

\* Who lets go of anything ends it.
LEMMA LetGoIsAnEnd ==
  ASSUME Unique, Lists, NEW th \in DOMAIN held, LetGo(th), held[th] # <<>>
  PROVE  dropped' # dropped
  <1>1. held[th] \in Seq(Tasks) /\ 1 \in DOMAIN held[th] /\ held[th][1] \in Tasks
    BY DEF Lists
  <1>2. In(held[th], held[th][1]) /\ held[th][1] \in InHand(th)
    BY <1>1 DEF In, InHand
  <1> QED
    BY <1>1, <1>2, InHandIsNoEnd DEF LetGo

\* A step that ends no task and leaves the tasks stranded found them stranded.
NoNewStranding ==
  Stranded' /\ finished' = finished /\ dropped' = dropped => Stranded

\* The processor has none of the stranded tasks: it holds a task only while it
\* executes it or puts it back, and then waits for no other.
LEMMA ProcessorStrandsNothing ==
  ASSUME IInv, IInv', ProcessTasks \/ ProcessorFails
  PROVE  NoNewStranding
  <1> SUFFICES ASSUME Stranded', finished' = finished, dropped' = dropped
               PROVE  Stranded
    BY DEF NoNewStranding
  <1>1. /\ Processor \in Threads /\ Processor \in DOMAIN held /\ DOMAIN pc = Threads
        /\ held \in [Threads -> Seq(Tasks)] /\ queue \in Seq(Tasks)
    BY DEF IInv, Threading, Threads, Lists
  <1>2. held'[Processor] = <<>>
    BY <1>1 DEF Stranded, IInv, TypeOK, ProcessorTypeOK
  <1>3. held[Processor] = <<>>
    <2>1. CASE ProcessorGet \/ ProcessorLoop \/ ProcessorCount \/ ProcessorGetFails
      BY <2>1, <1>1, <1>2
      DEF IInv, HandsFit, ProcessorGet, ProcessorLoop, ProcessorCount, ProcessorGetFails,
          Goto
    <2>2. CASE ProcessorThrow \/ ProcessorFinish
      <3>1. PICK t \in Tasks : held[Processor] = <<t>> /\ (t \in finished' \/ t \in dropped')
        BY <2>2, UnixTasksAssumption DEF ProcessorThrow, ProcessorFinish
      <3>2. In(held[Processor], t)
        BY <3>1 DEF In
      <3> QED
        BY <1>1, <3>1, <3>2, InHandIsNoEnd DEF IInv
    <2>3. CASE ProcessorExpire
      <3>1. PICK t \in Tasks : held[Processor] = <<t>>
        BY <2>3 DEF ProcessorExpire
      <3>2. In(held[Processor], t) /\ Head(held[Processor]) = t
        BY <3>1 DEF In
      <3>3. t \notin dropped
        BY <1>1, <3>2, InHandIsNoEnd DEF IInv
      <3> QED
        BY <1>2, <2>3, <3>1, <3>2, <3>3 DEF ProcessorExpire
    <2>4. CASE ProcessorAdd
      <3>1. queue' = Append(queue, Head(held[Processor]))
        BY <2>4 DEF ProcessorAdd, AddTask
      <3>2. Append(queue, Head(held[Processor])) # <<>>
        BY <1>1
      <3> QED
        BY <3>1, <3>2 DEF Stranded
    <2>5. CASE ProcessorConvertFails \/ ProcessorAddFails
      BY <1>1, <2>5, LetGoIsAnEnd DEF ProcessorConvertFails, ProcessorAddFails, IInv
    <2> QED
      BY <2>1, <2>2, <2>3, <2>4, <2>5 DEF ProcessTasks, ProcessorFails
  <1>4. UNCHANGED held
    BY <1>1, <1>2, <1>3
    DEF ProcessTasks, ProcessorLoop, ProcessorCount, ProcessorGet, ProcessorThrow,
        ProcessorFinish, ProcessorExpire, ProcessorAdd, ProcessorFails,
        ProcessorGetFails, ProcessorConvertFails, ProcessorAddFails, LetGo
  <1>5. UNCHANGED queue
    <2>1. ~ProcessorGet
      <3>1. \A t : <<t>> # <<>> /\ [held EXCEPT ![Processor] = <<t>>][Processor] = <<t>>
        BY <1>1
      <3> QED
        BY <1>2, <3>1 DEF ProcessorGet
    <2>2. ~ProcessorAdd
      BY <1>3 DEF ProcessorAdd, Goto, IInv, HandsFit
    <2> QED
      BY <2>1, <2>2
      DEF ProcessTasks, ProcessorLoop, ProcessorCount, ProcessorThrow, ProcessorFinish,
          ProcessorExpire, ProcessorFails, ProcessorGetFails,
          ProcessorConvertFails, ProcessorAddFails, LetGo
  <1>6. \A th \in Threads \ {Processor} : pc'[th] = pc[th]
    BY <1>1
    DEF ProcessTasks, ProcessorLoop, ProcessorCount, ProcessorGet, ProcessorThrow,
        ProcessorFinish, ProcessorExpire, ProcessorAdd, ProcessorFails,
        ProcessorGetFails, ProcessorConvertFails, ProcessorAddFails, Goto
  <1> QED
    BY <1>3, <1>4, <1>5, <1>6 DEF Stranded, Threads

\* Nor does a thread that reorders: it waits for a task only when it has just
\* seen one, and it does not wait with what it has just put back.
LEMMA ReorderStrandsNothing ==
  ASSUME IInv, NEW th \in Threads \ {Processor},
         Reorder(th) \/ (\E home : ReorderReturn(th, home))
  PROVE  NoNewStranding
  <1> SUFFICES ASSUME Stranded' PROVE Stranded
    BY DEF NoNewStranding
  <1>1. /\ DOMAIN held = Threads /\ DOMAIN pc = Threads
        /\ held \in [Threads -> Seq(Tasks)] /\ queue \in Seq(Tasks)
    BY DEF IInv, Threading, Lists
  <1>2. CASE ReorderTest(th)
    <2>1. /\ queue = <<>> /\ queue' = <<>> /\ held' = held
          /\ \A o \in Threads : pc'[o] = IF o = th THEN "reorder_add" ELSE pc[o]
      BY <1>1, <1>2 DEF ReorderTest, Goto, Stranded
    <2>2. \A o \in Threads : held[o] # <<>> => pc[o] = "reorder_get"
      BY <2>1 DEF Stranded
    <2> QED
      BY <2>1, <2>2 DEF Stranded
  <1>3. CASE ReorderGet(th)
    <2>1. PICK t \in Tasks : /\ held' = [held EXCEPT ![th] = Append(@, t)]
                            /\ pc' = [pc EXCEPT ![th] = "reorder_test"]
      BY <1>3 DEF ReorderGet, Goto
    <2>2. held'[th] = Append(held[th], t) /\ pc'[th] # "reorder_get"
      BY <1>1, <2>1
    <2>3. Append(held[th], t) # <<>>
      BY <1>1, AppendIsNotEmpty
    <2>4. th \in Threads /\ held'[th] # <<>>
      BY <2>2, <2>3
    <2> QED
      BY <2>2, <2>4 DEF Stranded
  <1>4. CASE ReorderAdd(th)
    <2>1. queue' = Append(queue, Head(held[th]))
      BY <1>4 DEF ReorderAdd, AddTask
    <2>2. Append(queue, Head(held[th])) # <<>>
      BY <1>1
    <2> QED
      BY <2>1, <2>2 DEF Stranded
  <1>5. ASSUME NEW home, ReorderReturn(th, home) PROVE Stranded
    <2>1. /\ held[th] = <<>> /\ UNCHANGED <<queue, held>>
          /\ pc' = [pc EXCEPT ![th] = home]
      BY <1>5 DEF ReorderReturn, Goto
    <2> QED
      BY <1>1, <2>1 DEF Stranded
  <1> QED
    BY <1>2, <1>3, <1>4, <1>5 DEF Reorder

\* Start, stop and the loop touch only threads with empty hands.
LEMMA ControlStrandsNothing ==
  ASSUME IInv, ScheduleLoop \/ Start \/ Stop \/ Stopping
  PROVE  NoNewStranding
  <1> USE MainAssumption, ProcessorAssumption, SchedulerThreadAssumption
  <1>1. ASSUME NEW th \in Threads, held[th] # <<>>
        PROVE  pc'[th] = pc[th]
    <2>1. DOMAIN pc = Threads /\ pc[th] \in {"execute", "add"} \cup Reordering
      BY <1>1 DEF IInv, Threading, HandsFit
    <2>2. pc[Main] = "idle" => pc[Processor] = "exit" /\ pc[SchedulerThread] = "exit"
      BY DEF IInv, Threading, StopPlaces
    <2>3. CASE ScheduleLoop
      BY <2>1, <2>3 DEF ScheduleLoop, Goto, Reordering
    <2>4. CASE Start
      BY <2>1, <2>2, <2>4 DEF Start, Reordering
    <2>5. CASE Stop \/ Stopping
      BY <2>1, <2>5
      DEF Stop, Stopping, StopTheProcessor, JoinTheProcessor, JoinScheduler,
          StopProcessor, JoinProcessor, Goto, Reordering
    <2> QED
      BY <2>3, <2>4, <2>5
  <1>2. UNCHANGED <<queue, held>>
    BY DEF ScheduleLoop, Start, Stop, Stopping, StopTheProcessor, JoinTheProcessor,
           JoinScheduler, StopProcessor, JoinProcessor
  <1> QED
    BY <1>1, <1>2 DEF NoNewStranding, Stranded

\* Tasks are stranded by nothing but the end of another task.
LEMMA NextStrandsNothing == IInv /\ IInv' /\ [Next]_vars => NoNewStranding
  <1> SUFFICES ASSUME IInv, IInv', [Next]_vars PROVE NoNewStranding
    OBVIOUS
  <1>1. CASE UNCHANGED vars
    BY <1>1 DEF vars, queueVars, processorVars, NoNewStranding, Stranded
  <1>2. ASSUME NEW th \in Callers, Add(th) PROVE NoNewStranding
    <2>1. queue' = Append(queue, Head(todo[th])) /\ queue \in Seq(Tasks)
      BY <1>2 DEF Add, AddOwnTask, AddTask, IInv, Lists
    <2>2. queue' # <<>>
      BY <2>1
    <2> QED
      BY <2>2 DEF NoNewStranding, Stranded
  <1>3. ASSUME NEW th \in Callers, AddReorder(th) PROVE NoNewStranding
    BY <1>3, ReorderStrandsNothing, ProcessorAssumption DEF AddReorder, Threads
  <1>4. CASE ScheduleReorder
    BY <1>4, ReorderStrandsNothing, SchedulerThreadAssumption
    DEF ScheduleReorder, Threads
  <1>5. CASE ScheduleFails
    <2>1. /\ SchedulerThread \in DOMAIN held /\ LetGo(SchedulerThread)
          /\ DOMAIN pc = Threads
          /\ pc' = [pc EXCEPT ![SchedulerThread] = "loop"]
      BY <1>5 DEF ScheduleFails, Goto, IInv, Threading, Threads
    <2>2. CASE held[SchedulerThread] # <<>>
      BY <2>1, <2>2, LetGoIsAnEnd DEF IInv, NoNewStranding
    <2>3. CASE held[SchedulerThread] = <<>>
      <3>1. \A o \in Threads : held'[o] = held[o]
        BY <2>1, <2>3 DEF LetGo, IInv, Lists, Threading
      <3> QED
        BY <2>1, <2>3, <3>1 DEF LetGo, NoNewStranding, Stranded
    <2> QED
      BY <2>2, <2>3
  <1> QED
    BY <1>1, <1>2, <1>3, <1>4, <1>5, ProcessorStrandsNothing, ControlStrandsNothing
    DEF Next, Schedule

\* Whatever the threads that reorder do to each other, one of them puts the last
\* task back; tasks are stranded only when the task of a thread that does not wait
\* has ended.
THEOREM ReorderingStrandsNothing == Spec => StrandedOnlyByAnEnd
  <1>1. NoNewStranding => (Stranded' => Stranded \/ finished' # finished
                                                 \/ dropped' # dropped)
    BY DEF NoNewStranding
  <1> QED
    BY <1>1, NextStrandsNothing, Inductive, PTL DEF Spec, StrandedOnlyByAnEnd

\* Every task lives the life of TaskLifecycle.
THEOREM Implements == Spec => ImplementsLifecycle
  <1>1. StepIsSafe => [Lifecycle!Next]_(Lifecycle!vars)
    BY DEF StepIsSafe
  <1> QED
    BY <1>1, InitIInv, NextSafe, Inductive, PTL
    DEF Spec, ImplementsLifecycle, Lifecycle!Spec
=============================================================================
