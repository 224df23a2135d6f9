----------------------- MODULE ProcessorSystemProofs -----------------------
(***************************************************************************)
(* A processor without a scheduler, for any number of callers and tasks,   *)
(* any scripts and any capacity.                                           *)
(***************************************************************************)
EXTENDS ProcessorSystem, TaskProcessorProofs

Labels == {"idle", "started", "join", "loop", "count", "get", "execute", "add", "exit"}

\* The threads, and where the processor is while it is started or stopped.
Threading ==
  /\ pc \in [Callers \cup {Processor} -> Labels]
  /\ DOMAIN held = {Processor}
  /\ pc[Main] = "idle" => ~processing /\ pc[Processor] = "exit"
  /\ pc[Main] = "started" => processing
  /\ pc[Main] = "join" => ~processing

IInv ==
  /\ TypeOK
  /\ Threading
  /\ Lists
  /\ Unique
  /\ HandsFit
  /\ CountStillTrue

\* Everything is in the scripts, and the processor is not started.
LEMMA InitIInv == Init => IInv /\ Lifecycle!Init
  <1> SUFFICES ASSUME Init PROVE IInv /\ Lifecycle!Init
    OBVIOUS
  <1> USE MainAssumption, ProcessorAssumption DEF Init
  <1>1. Lists
    BY ScriptAssumption DEF Lists
  <1>2. Threading
    BY DEF Threading, Labels
  <1>3. TypeOK
    <2>1. Len(queue) <= Capacity /\ failures \in 0..MaxFailures
      BY CapacityAssumption, MaxFailuresAssumption
    <2> QED
      BY <1>1, <2>1 DEF TypeOK, ProcessorTypeOK, Lists
  <1>4. Unique
    BY UniqueAtStart
  <1>5. HandsFit /\ CountStillTrue
    BY DEF HandsFit, CountStillTrue
  <1>6. statusBar = [t \in Tasks |-> "new"]
    <2> SUFFICES ASSUME NEW t \in Tasks
                 PROVE  \E th \in Callers : Positions(todo[th], t) # {}
      BY DEF statusBar
    <2>1. PICK th \in Callers : \E i \in DOMAIN Script[th] :
            Positions(Script[th], t) = {i}
      BY ScriptAssumption
    <2> QED
      BY <2>1
  <1> QED
    BY <1>1, <1>2, <1>3, <1>4, <1>5, <1>6 DEF IInv, Lifecycle!Init

\* What a step has to keep.
StepIsSafe == IInv' /\ [Lifecycle!Next]_(Lifecycle!vars)

\* process_tasks.
LEMMA ProcessTasksSafe == ASSUME IInv, ProcessTasks PROVE StepIsSafe
  <1>1. Processor \in DOMAIN pc /\ pc = [th \in DOMAIN pc |-> pc[th]]
    BY DEF IInv, Threading
  <1>2. Unique' /\ Lists' /\ HandsFit' /\ [Lifecycle!Next]_(Lifecycle!vars)
    BY <1>1, ProcessorStep DEF IInv
  <1>3. ProcessorTypeOK'
    BY <1>1, <1>2, ProcessorKeepsTypes DEF IInv, TypeOK
  <1>4. /\ pc' = [pc EXCEPT ![Processor] = pc'[Processor]]
        /\ DOMAIN held' = DOMAIN held /\ processing' = processing
    BY <1>1, ProcessorFrame DEF IInv
  <1>5. pc'[Processor] \in {"loop", "count", "get", "execute", "add", "exit"}
    BY <1>3 DEF ProcessorTypeOK
  <1>6. pc[Main] # "idle"
    BY DEF IInv, Threading, ProcessTasks, ProcessorLoop, ProcessorCount, ProcessorGet,
           ProcessorThrow, ProcessorFinish, ProcessorExpire, ProcessorAdd, Goto
  <1>7. TypeOK' /\ Threading'
    BY <1>3, <1>4, <1>5, <1>6, MainAssumption, ProcessorAssumption
    DEF IInv, TypeOK, Threading, Labels
  <1>8. CountStillTrue'
    BY <1>1
    DEF CountStillTrue, ProcessTasks, ProcessorLoop, ProcessorCount, ProcessorGet,
        ProcessorThrow, ProcessorFinish, ProcessorExpire, ProcessorAdd, Goto,
        processorVars
  <1> QED
    BY <1>2, <1>7, <1>8 DEF StepIsSafe, IInv

\* A call of the processor that fails.
LEMMA ProcessorFailsSafe == ASSUME IInv, ProcessorFails PROVE StepIsSafe
  <1>1. Processor \in DOMAIN pc
    BY DEF IInv, Threading
  <1>2. Unique' /\ Lists' /\ HandsFit' /\ Lifecycle!Next
    BY <1>1, ProcessorFailsStep DEF IInv
  <1>3. ProcessorTypeOK'
    BY <1>1, <1>2, ProcessorFailsKeepsTypes DEF IInv, TypeOK
  <1>4. /\ pc[Processor] \in {"get", "execute", "add"}
        /\ pc' = [pc EXCEPT ![Processor] = "loop"]
        /\ DOMAIN held' = DOMAIN held /\ UNCHANGED <<queue, processing>>
    BY DEF ProcessorFails, ProcessorGetFails, ProcessorConvertFails, ProcessorAddFails,
           Goto, LetGo
  <1>5. TypeOK' /\ Threading' /\ CountStillTrue'
    BY <1>1, <1>3, <1>4, MainAssumption, ProcessorAssumption
    DEF IInv, TypeOK, Threading, Labels, CountStillTrue
  <1> QED
    BY <1>2, <1>5 DEF StepIsSafe, IInv

\* add_task by a caller.
LEMMA AddSafe == ASSUME IInv, NEW th \in Callers, Add(th) PROVE StepIsSafe
  <1>1. AddOwnTask(th) /\ UNCHANGED <<pc, held, processorVars>>
    BY DEF Add
  <1>2. Unique' /\ Lists' /\ Lifecycle!Next
    BY <1>1, AddStep DEF IInv, processorVars
  <1>3. ProcessorTypeOK'
    BY <1>1, <1>2, AddKeepsTypes DEF IInv, TypeOK
  <1>4. CountStillTrue'
    <2>1. queue' = Append(queue, Head(todo[th])) /\ queue \in Seq(Tasks)
      BY <1>1 DEF AddOwnTask, AddTask, IInv, Lists
    <2>2. queue' # <<>>
      BY <2>1
    <2> QED
      BY <2>2 DEF CountStillTrue
  <1> QED
    BY <1>1, <1>2, <1>3, <1>4
    DEF StepIsSafe, IInv, TypeOK, Threading, HandsFit, processorVars

\* start, stop and the join of stop.
LEMMA MainSafe == ASSUME IInv, Start \/ Stop \/ Join PROVE StepIsSafe
  <1> USE MainAssumption, ProcessorAssumption
  <1>1. /\ UNCHANGED <<queue, held, todo, finished, dropped>>
        /\ DOMAIN pc = Callers \cup {Processor}
    BY DEF Start, Stop, Join, StartProcessor, StopProcessor, JoinProcessor,
           processorVars, IInv, Threading
  <1>2. Unique' /\ Lists' /\ statusBar' = statusBar
    BY <1>1, StutterKeepsUnique, StutterKeepsStatus DEF IInv, Lists
  <1>3. HandsFit' /\ CountStillTrue'
    BY <1>1 DEF Start, Stop, Join, StartProcessor, StopProcessor, JoinProcessor, Goto,
           IInv, HandsFit, CountStillTrue, Threading
  <1>4. Threading'
    BY <1>1 DEF Start, Stop, Join, StartProcessor, StopProcessor, JoinProcessor, Goto,
           processorVars, IInv, Threading, Labels
  <1>5. TypeOK'
    BY <1>1 DEF Start, Stop, Join, StartProcessor, StopProcessor, JoinProcessor, Goto,
           processorVars, IInv, Threading, TypeOK, ProcessorTypeOK
  <1>6. Lifecycle!Start \/ Lifecycle!Stop \/ UNCHANGED Lifecycle!vars
    BY <1>2 DEF Start, Stop, Join, StartProcessor, StopProcessor, JoinProcessor, Goto,
           processorVars, IInv, Threading, Lifecycle!Start, Lifecycle!Stop,
           Lifecycle!vars
  <1> QED
    BY <1>2, <1>3, <1>4, <1>5, <1>6 DEF StepIsSafe, IInv, Lifecycle!Next

\* One step for each action.
LEMMA NextSafe == IInv /\ [Next]_vars => StepIsSafe
  <1> SUFFICES ASSUME IInv, [Next]_vars PROVE StepIsSafe
    OBVIOUS
  <1>1. CASE UNCHANGED vars
    <2>1. Unique' /\ statusBar' = statusBar
      BY <1>1, StutterKeepsUnique, StutterKeepsStatus
      DEF IInv, vars, queueVars, processorVars
    <2> QED
      BY <1>1, <2>1
      DEF StepIsSafe, IInv, TypeOK, ProcessorTypeOK, Threading, Lists, HandsFit,
          CountStillTrue, vars, queueVars, processorVars, Lifecycle!vars
  <1> QED
    BY <1>1, ProcessTasksSafe, ProcessorFailsSafe, AddSafe, MainSafe DEF Next

\* The invariant holds in every reachable state.
THEOREM Inductive == Spec => []IInv
  <1>1. StepIsSafe => IInv'
    BY DEF StepIsSafe
  <1> QED
    BY <1>1, InitIInv, NextSafe, PTL DEF Spec

\* Every variable keeps its type; the queue never holds more than its capacity.
THEOREM TypeCorrect == Spec => []TypeOK
  <1>1. IInv => TypeOK
    BY DEF IInv
  <1> QED
    BY <1>1, Inductive, PTL

\* No task is lost or doubled, whoever adds and however often Main stops.
THEOREM OnePlace == Spec => []NoTaskLostOrDoubled
  <1>1. IInv => NoTaskLostOrDoubled
    BY UniqueIsOnePlace DEF IInv
  <1> QED
    BY <1>1, Inductive, PTL

\* The gridlock that keeps stop() from returning needs more tasks than slots.
THEOREM NoGridlock ==
  ASSUME Cardinality(Tasks) <= Capacity
  PROVE  Spec => []~Gridlocked
  <1>1. IInv => ~Gridlocked
    <2> SUFFICES ASSUME IInv, pc[Processor] = "add" PROVE Len(queue) # Capacity
      BY DEF Gridlocked
    <2>1. Processor \in DOMAIN held /\ held[Processor] # <<>>
      <3>1. PICK t \in Tasks : held[Processor] = <<t>>
        BY DEF IInv, HandsFit
      <3> QED
        BY <3>1 DEF IInv, Lists
    <2>2. Len(queue) < Capacity /\ Len(queue) \in Nat
      BY <2>1, SlotForEachTask DEF IInv, Lists
    <2>3. Capacity \in Nat
      BY CapacityAssumption
    <2> QED
      BY <2>2, <2>3
  <1> QED
    BY <1>1, Inductive, PTL

\* The answer of task_count() is still true when process_tasks acts on it.
THEOREM CountHolds == Spec => []CountStillTrue
  <1>1. IInv => CountStillTrue
    BY DEF IInv
  <1> QED
    BY <1>1, Inductive, PTL

\* Every task lives the life of TaskLifecycle.
THEOREM Implements == Spec => ImplementsLifecycle
  <1>1. StepIsSafe => [Lifecycle!Next]_(Lifecycle!vars)
    BY DEF StepIsSafe
  <1> QED
    BY <1>1, InitIInv, NextSafe, Inductive, PTL
    DEF Spec, ImplementsLifecycle, Lifecycle!Spec

-----------------------------------------------------------------------------
(* Round robin *)

\* Who is taken from the front was behind nobody, and the others stay in order.
LEMMA TailOrder ==
  ASSUME NEW S, NEW s \in Seq(S), s # <<>>, NEW t, Once(s, t), In(s, t)
  PROVE  IF In(Tail(s), t) THEN Before(Tail(s), t) \subseteq Before(s, t)
                           ELSE Before(s, t) = {}
  <1>1. /\ Len(s) \in Nat \ {0} /\ DOMAIN s = 1 .. Len(s) /\ Head(s) = s[1]
        /\ DOMAIN Tail(s) = 1 .. (Len(s) - 1)
        /\ \A i \in 1 .. (Len(s) - 1) : Tail(s)[i] = s[i + 1]
    OBVIOUS
  <1>2. Before(Tail(s), t) \subseteq Before(s, t)
    <2> SUFFICES ASSUME NEW i \in DOMAIN Tail(s), NEW j \in DOMAIN Tail(s),
                        Tail(s)[j] = t, i < j
                 PROVE  Tail(s)[i] \in Before(s, t)
      BY DEF Before, Positions
    <2>1. i + 1 \in DOMAIN s /\ j + 1 \in DOMAIN s /\ i + 1 < j + 1
      BY <1>1
    <2>2. s[i + 1] = Tail(s)[i] /\ s[j + 1] = t
      BY <1>1
    <2> QED
      BY <2>1, <2>2 DEF Before, Positions
  <1>3. ASSUME ~In(Tail(s), t) PROVE Before(s, t) = {}
    <2>1. s[1] = t
      BY <1>1, <1>3, HeadAndTail
    <2>2. \A j \in Positions(s, t) : j = 1
      BY <1>1, <2>1 DEF Once, Positions
    <2> QED
      BY <1>1, <2>2 DEF Before
  <1> QED
    BY <1>2, <1>3

\* Who is put at the end is before nobody.
LEMMA AppendOrder ==
  ASSUME NEW S, NEW s \in Seq(S), NEW u \in S, ~In(s, u), NEW t, In(s, t)
  PROVE  In(Append(s, u), t) /\ Before(Append(s, u), t) \subseteq Before(s, t)
  <1>1. /\ Len(s) \in Nat /\ DOMAIN s = 1 .. Len(s)
        /\ DOMAIN Append(s, u) = 1 .. (Len(s) + 1)
        /\ \A i \in 1 .. Len(s) : Append(s, u)[i] = s[i]
        /\ Append(s, u)[Len(s) + 1] = u
    OBVIOUS
  <1>2. t # u
    OBVIOUS
  <1>3. \A j \in Positions(Append(s, u), t) : j \in Positions(s, t)
    BY <1>1, <1>2 DEF Positions
  <1>4. Before(Append(s, u), t) \subseteq Before(s, t)
    <2> SUFFICES ASSUME NEW i \in DOMAIN Append(s, u),
                        NEW j \in Positions(Append(s, u), t), i < j
                 PROVE  Append(s, u)[i] \in Before(s, t)
      BY DEF Before
    <2>1. j \in Positions(s, t) /\ j \in 1 .. Len(s) /\ i \in 1 .. Len(s)
      BY <1>1, <1>3 DEF Positions
    <2> QED
      BY <1>1, <2>1 DEF Before
  <1> QED
    BY <1>4, Appending

\* What one step does to the order of the waiting tasks.
InOrder ==
  \A t \in Tasks :
    Positions(queue, t) # {} =>
      IF Positions(queue', t) # {}
      THEN Before(queue', t) \subseteq Before(queue, t)
      ELSE Before(queue, t) = {}

\* A task that is added comes from elsewhere.
LEMMA AddInOrder ==
  ASSUME Unique, Lists, NEW u \in Tasks, NEW c \in Containers, c # Queue,
         Contains(c, u), AddTask(u)
  PROVE  InOrder
  <1>1. ~In(queue, u)
    BY OnlyThere, ContainsFacts, ContainerFacts
  <1>2. queue \in Seq(Tasks) /\ queue' = Append(queue, u)
    BY DEF Lists, AddTask
  <1> QED
    BY <1>1, <1>2, AppendOrder, InPositions DEF InOrder

\* Only the oldest task is taken out, and what comes in comes in at the end.
LEMMA NextInOrder == IInv /\ [Next]_vars => InOrder
  <1> SUFFICES ASSUME IInv, [Next]_vars PROVE InOrder
    OBVIOUS
  <1> USE DEF IInv
  <1>1. CASE ProcessorGet
    <2>1. queue' = Tail(queue) /\ queue # <<>> /\ queue \in Seq(Tasks)
      BY <1>1 DEF ProcessorGet, GetNextTask, Lists
    <2> QED
      BY <2>1, TailOrder, InPositions DEF InOrder, Unique, OnceEverywhere
  <1>2. CASE ProcessorAdd
    <2>1. PICK u \in Tasks : held[Processor] = <<u>>
      BY <1>2 DEF ProcessorAdd, Goto, HandsFit
    <2>2. AddTask(u) /\ In(held[Processor], u)
      BY <1>2, <2>1 DEF ProcessorAdd, In
    <2>3. Contains(Held(Processor), u) /\ Held(Processor) \in Containers
            /\ Held(Processor) # Queue
      BY <2>2, ContainsFacts, ContainerFacts DEF Lists
    <2> QED
      BY <2>2, <2>3, AddInOrder
  <1>3. ASSUME NEW th \in Callers, Add(th)
        PROVE  InOrder
    <2>1. todo[th] # <<>> /\ todo[th] \in Seq(Tasks) /\ AddTask(Head(todo[th]))
      BY <1>3 DEF Add, AddOwnTask, Lists
    <2>2. Head(todo[th]) \in Tasks /\ In(todo[th], Head(todo[th]))
      BY <2>1, HeadAndTail
    <2>3. Contains(Todo(th), Head(todo[th])) /\ Todo(th) \in Containers
            /\ Todo(th) # Queue
      BY <2>2, ContainsFacts, ContainerFacts
    <2> QED
      BY <2>1, <2>2, <2>3, AddInOrder
  <1>4. CASE UNCHANGED queue
    BY <1>4 DEF InOrder
  <1> QED
    BY <1>1, <1>2, <1>3, <1>4
    DEF Next, ProcessTasks, ProcessorLoop, ProcessorCount, ProcessorThrow,
        ProcessorFinish, ProcessorExpire, ProcessorFails, ProcessorGetFails,
        ProcessorConvertFails, ProcessorAddFails, LetGo, Start, Stop, Join, StartProcessor, StopProcessor,
        JoinProcessor, vars, queueVars

\* Without a scheduler the processor works round robin: nobody overtakes a task
\* that waits, however many callers add and whatever is put back.
THEOREM RoundRobin == Spec => TurnsInOrder
  <1>1. IInv /\ [Next]_vars =>
          [\A t \in Tasks :
             Positions(queue, t) # {} =>
               IF Positions(queue', t) # {}
               THEN Before(queue', t) \subseteq Before(queue, t)
               ELSE Before(queue, t) = {}]_vars
    BY NextInOrder DEF InOrder
  <1> QED
    BY <1>1, Inductive, PTL DEF Spec, TurnsInOrder
=============================================================================
