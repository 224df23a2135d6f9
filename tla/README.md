# A verification project for task_sheduler

TLA+ models of the task scheduler in `src/`, model-checked with TLC on small
instances and, for the core, proved with TLAPS for every instance.

The program keeps tasks in a bounded queue in POSIX shared memory. A scheduler
thread takes all tasks out of the queue and puts them back over and over
("reordering"), a processor thread executes the oldest task for one time
quantum and puts it back if it is not finished, and server threads add a task
for each client's command and reorder the queue as well.

## 1. Inventory

### Components, their state and their operations

| Component | State | Operations | Modelled in |
|---|---|---|---|
| `SharedMemory` (interface) | none | create, attach, detach, destroy, enqueue, dequeue, size, empty | `SharedMemory` (the queue) |
| `PosixSharedMemory`, queue | in the segment: `front_`, `rear_`, `count_`, `tasks_`, two totals; three named semaphores | enqueue, dequeue, print | `PosixSharedMemory` |
| `PosixSharedMemory`, segment | `fd_`, `data_`, semaphore pointers; the names in the system | constructor, create, attach, detach, destroy, destructor | `SegmentLifecycle` |
| `TaskQueueManager` | a pointer to the shared memory | add_task, get_next_task, task_count, reorder_tasks, two conversions | `TaskQueueManager`, `TaskConversion` |
| `UnixTask`, `CpuIntensiveTask`, `IoBoundTask` | id, static and dynamic priority, clocks, state, work left | set_static_priority, adjust_dynamic_priority, set_state, execute | `TaskConversion` |
| `PriorityScheduling`, `RoundRobinScheduling` | a round-robin index that nothing uses | update_task_priority; select_next_task has no caller | `TaskConversion` |
| `TaskProcessor` | `running_`, `time_quantum_`, a thread | start, stop, set_time_quantum, process_tasks | `TaskProcessor` |
| `Scheduler` | `running_`, the algorithm, a thread, a processor | start, stop, add_task, set_algorithm, schedule | `Scheduler` |
| `Server`, `ServerDialogue` | descriptors, one detached thread per connection | main, start_server, handle_client | `ServerDialogue`; its handlers are callers of `Scheduler` |
| `Client`, `ClientDialogue` | one socket per command | the prompt, send_command | `ServerDialogue` |
| `Logger` | open files | append a line | not modelled, nothing reads it back; that a constructor may throw is a failing conversion |
| Tests | | | not modelled: they show the orders of calls that occur |

### How they interact

- All threads meet in `PosixSharedMemory`. `enqueue` takes a slot from
  `enqueue_sem_`, then `mutex_sem_`; `dequeue` takes a token from
  `dequeue_sem_`, then `mutex_sem_`; each posts the other's semaphore at its end.
  `size()` and `empty()` read `count_` without the mutex.
- Three kinds of threads consume: the processor, the scheduler's thread and every
  thread inside `Scheduler::add_task`. All of them ask whether the queue is empty
  first and call the blocking `dequeue` afterwards.
- A client opens a connection for each command; `start_server` accepts it and starts a
  detached thread, which reads the command, calls `Scheduler::add_task` and closes.
- `stop()` resets two flags and joins two threads; a thread that waits on a
  semaphore does not look at its flag.
- A task crosses the queue as a record. Each time it is taken out, a new object is
  made from the record, and a new record from the object when it is put back:
  the record's priority becomes the static priority of the object, and what
  the object computed from it becomes the record's priority.

### What is hard, and what would make each component correct

- *Queue*: interleavings of semaphore operations and non-atomic updates of the
  ring, failing waits. Correct: mutual exclusion, accounts of slots and tokens that
  balance at every instant, no overwritten task, first-in first-out, no lost wakeup.
- *Segment*: processes that create, attach, destruct and die on the same four names,
  system calls that fail half-way. Correct: a ring and the semaphores that guard it
  belong together, a restart gets past what was left behind, nothing leaks.
- *Reordering and processing*: a test that is stale when it is used, consumers that
  compete, a full queue while tasks are in threads' hands. Correct: no task lost or
  doubled, a task executes in one place only, reordering puts back what it took.
- *Start and stop*: Correct: `stop()` returns, and leaves no thread with a task.
- *Server*: descriptors that are closed and used again by threads that nobody joins,
  commands that arrive in part or not at all, a process that ends with `exit()` or an
  exception of any thread. Correct: a handler reads and closes its own connection only,
  a task is one that a client asked for, every connection is looked after.
- *Conversions*: what is computed is computed again in each pass. Correct:
  priorities stay in range and do what the algorithm says, time is charged once.

The full list, with lines, is `hazards` in `PROJECT.json`.

## 2. Modules

| Module | Role |
|---|---|
| `SharedMemory` | abstract: what the interface promises to concurrent callers |
| `PosixSharedMemory` | the semaphores and the ring, one step per semaphore operation or access |
| `PosixSharedMemoryProofs` | its inductive invariant and the theorems |
| `PosixSharedMemoryRefinement` | that it implements `SharedMemory` |
| `SegmentLifecycle` | objects of several processes on one name, one step per system call |
| `SegmentLifecycleProofs` | its inductive invariant and the theorems |
| `TaskLifecycle` | abstract: the life of a task as the scheduler promises it |
| `TaskQueueManager` | the manager's operations as steps of threads over an atomic queue |
| `TaskProcessor` | the processor's thread, start and stop; shared properties |
| `ProcessorSystem` | a processor with producers only, as in its unit tests |
| `Scheduler` | the processor, the scheduler's thread, its owner and the server's handlers |
| `TaskProcessorProofs` | where a task can be, and what each step of the manager and the processor does to that |
| `ProcessorSystemProofs`, `SchedulerProofs` | the inductive invariants of the two systems and the theorems |
| `TaskConversion` | one task's numbers on their way through the conversions |
| `TaskConversionProofs` | its inductive invariant and the theorems |
| `CommandService` | abstract: what the server promises about commands and connections |
| `ServerDialogue` | main, the accept loop, the handlers, and the clients that talk to them |
| `ServerDialogueProofs` | its inductive invariant and the theorems |
| `MCProcessorSystem`, `MCScheduler`, `MCTaskConversion`, `MCServerDialogue` | values of the constants for TLC, and one property of an instance |

`SegmentLifecycle` ends where `PosixSharedMemory` begins: `CreateReturnsUsable` is
what `Init` of the latter takes for granted.
`PosixSharedMemory` implements `SharedMemory` (`ImplementsInterface`, proved), so
`TaskQueueManager` takes enqueue and dequeue as one step each. `TaskProcessor`
extends it; `ProcessorSystem` and `Scheduler` extend `TaskProcessor` and both
implement `TaskLifecycle` (`ImplementsLifecycle`). `ServerDialogue` stands above: its
`HandlerAdd` is one call of `Scheduler`'s `Add` with what follows, or one that throws or
never returns. It implements `CommandService` (`ImplementsService`).

### Correspondence

- *PosixSharedMemory*. Variables are the fields of `SharedMemoryLayout` and the
  values of the semaphores; `pc` is the place of each thread in its call, `task`
  the record it carries. `EnqueueWaitSlot`, `EnqueueLock`, `EnqueueStore`,
  `EnqueueAdvance`, `EnqueueCount`, `EnqueueUnlock` and `EnqueueSignal` are the
  lines of `enqueue` in order; likewise `Dequeue...`. A task is copied in one step:
  the copy happens under the mutex, and `PrintSeesOneState` and
  `MutualExclusion` are what justifies that. The `Interrupt...` actions are
  the three `sem_wait(...) == -1` branches, possible at every wait. The relaxed
  atomics are read and written in program order: all accesses lie between
  `sem_wait` and `sem_post`, which synchronise. The totals are taken modulo
  `SizeModulus`, the width of `size_t`. The constructor accepts a capacity above
  `COUNT_TASKS`; the segment is then long enough, but slot `COUNT_TASKS` of `tasks_` lies on
  the two totals (`OnTotals`): a task stored there makes the totals any value (`Totals`),
  and an increment of a total leaves no task there (`TasksUnderTotals`).
- *SegmentLifecycle*. `shm` and `sems` are what the names refer to, `fd`, `data` and
  `sem` the fields of each object. Segments and semaphores carry the number of the
  create that made them. The three calls for the three semaphores are one action
  that runs three times (`next`); the three `sem_close` are one step, since no other
  process sees them. The stores of zero in `create` go to a segment that is new
  (`O_EXCL`) and hence zero already. Every call that the code tests may fail; removing a
  name does not. An object that threw in `create` may be attached, as `main` does,
  or destructed, as the tests do. `Die` is a process that ends without its
  destructor. `alone` and `died` only record history.
- *TaskQueueManager*. `reorder_tasks` is `ReorderTest` (the unlocked `empty()`),
  `ReorderGet` and `ReorderAdd`, with the vector `tasks` in `held`. A thread whose
  dequeue finds the queue empty has no step: it waits.
- *TaskProcessor*. `ProcessorLoop`, `ProcessorCount`, `ProcessorGet`, then one of
  `ProcessorThrow` (the handler around `UnixTask::execute`), `ProcessorFinish`
  (less than a quantum, or completed), `ProcessorExpire` (tests `running_`) and
  `ProcessorAdd`. Whether a task is finished by a quantum is a free choice.
  `dropped` and `finished` only record where a task went.

  An `enqueue` or `dequeue` whose wait fails throws and changes nothing
  (`PosixSharedMemory` shows it). `get_next_task` can also throw after its dequeue, when the
  constructor of the object cannot make the directory of its log; then the record is gone
  (`ProcessorConvertFails`, and `ScheduleFails` from `reorder_test` just after a
  `ReorderGet`). The loops of the processor and of the scheduler's thread
  catch all that and go on (`ProcessorFails`, `ScheduleFails`); the objects they had in hand
  are gone (`LetGo`): the task to be put back, or what `reorder_tasks` has in its
  vector. A wait that fails in `print()` comes after the enqueue, so it is the
  ordinary step, followed in `reorder_tasks` by the loss of the rest. An `add_task` of a
  caller that throws ends the program and is left to `ServerDialogue`.
  `TaskLifecycle` allows that loss as `Lose`: the running task, or waiting tasks, and
  one failed call for each time.
- *Scheduler*. `Main` owns the scheduler, starts and stops it any number of times;
  the other callers are handler threads, which do not care whether it runs. `todo`
  is what a caller will still add: each task is added once.
- *TaskConversion*. `where` says who has the task; `object` and `record` are the
  fields of `UnixTask` and `SharedTask` that the conversions read and write. Float
  arithmetic is done in tenths of a priority (the weights are 0.3 and 0.2 of 20
  steps), cut towards zero as the cast does. `get_total_time` of `UnixTask` and
  `IoBoundTask` has no return statement and `type_` of a completed record is not
  initialised: any value. A new object's `last_execution_time_` is the epoch, so the
  first adjustment sees full starvation (a system that is up for ten seconds).

  `process_tasks` reads `time_quantum_` twice, to compare (`CompareWithQuantum`) and to
  execute (`ExecuteQuantum`); `SetTimeQuantum` may come at any time, so between them
  too. `execute` takes some ticks and says whether it is done (`ExecuteResult`): it
  may end early or late.

  `add_task` converts before it waits: `ConvertTask` reads the object's clock for the last
  time, and only then `Enqueue` has waited for a slot and the mutex. `get_next_task` makes an
  object, whose clock starts, after its `Dequeue` (`GetNextTask`, or `ConvertThrows`). So time
  outside the queue has two parts: as an object (`Tick`, and what an execution takes), which
  the next conversion charges, and as a record in a thread's hands (`TickAsRecord`), which
  nobody charges. `TimeAsObjectIsCharged` says that the first part and nothing else is
  subtracted from the work, executed or not: the "remaining execution time" of a record shrinks
  while its object waits in a reordering for the other tasks. The model does not say that a
  task was executed for what was charged: `execute` of a CPU-intensive task ends after
  500000 * (quantum / 10) rounds however long they take, and `process_tasks` does not look at
  what `execute` for a whole total returns.

- *ServerDialogue*. `main` walks through `main()` and `start_server` (`After`), each step of
  which may fail; `accept` is the loop. A connection is the n-th command of a client; `at`
  says where it is: waiting in the backlog, or where its handler is. `open` is the
  descriptor table, so a descriptor is used again after `close`, and `fd` is the
  handler's copy of `client_socket`; a handler reads from whatever its descriptor stands
  for at that time. `accept` takes any waiting connection and any free
  descriptor, and fails at once when none is free; then `exit()` ends the process
  (`Exit`), as `std::terminate` does when `add_task` throws in a detached thread. A command
  is its operation and the numbers that follow: both, not both, or both with a second one that
  does not fit into an `int`. `send` and `read` may stop short (`Prefixes`), which may cut a
  number that is too large to one that fits; the client does not look at what `send` returns. A `socket()` that
  fails passes the test against 0 and shows in `setsockopt`. Class `Server` is the
  same program with loggers; the rows of the map point to `main.cpp`.

  In the mapping to `CommandService` the server is starting until it accepts and stopped after
  its exit (`Stage`); a connection waits while it is in the backlog, is served from the accept
  to the close of its descriptor, and has ended then (`Phase`). Short sends and reads, the
  descriptors and their numbers are not in the abstract specification: the limit on the
  connections served is the number of descriptors, and what a command adds depends on the
  command only.

## 3. What the runs check

Runs that must pass:

| Run | Instance | Shows |
|---|---|---|
| `posix` | 3 threads, 2 slots, 2 task values, `size_t` of 3 values | the accounts balance in every interleaving, with failing waits; the ring implements the bounded queue; a dequeue finds a task; print sees one state; no lost wakeup |
| `segment` | 2 processes, 3 creates | a ring has one set of semaphores; a restart finds the names free; orderly ends leave nothing |
| `processor` | 4 tasks (one a `UnixTask`), 2 producers, 2 slots | no task lost or doubled, failing waits and conversions included; the processor never waits in dequeue; the life of a task; nobody overtakes a waiting task (`TurnsInOrder`); every task is served and stop returns, except for the gridlock |
| `scheduler` | 3 tasks (one a `UnixTask`), main and a handler, 2 slots | the same for reordering threads; waits and conversions that fail in the middle of a reordering; threads that reorder are left waiting only by the end of a task (`StrandedOnlyByAnEnd`); a stopped scheduler is clean; what alone keeps stop from returning |
| `conversion` | all classes, both algorithms, durations up to 3 ticks, 5 ticks outside, a quantum of 1 or 3 that changes | record convertible, priority never rises, time as an object charged once and no other (`TimeAsObjectIsCharged`); what leaves as completed has less than a quantum not charged |
| `server` | a client with 3 commands, 2 descriptors, a backlog of 1, 2 client sockets | handlers keep to their own descriptors; tasks are what clients asked for; what clients leak; every connection is looked after; all of it implements the service of commands |

Runs that must find a violation, each against a sentence of the code's own
documentation or tests (`findings` in `PROJECT.json` quotes them):

| Run | What happens |
|---|---|
| `posix_large_ring` | with a capacity above `COUNT_TASKS`, the totals overwrite a task in the ring |
| `processor_full_queue` | producers fill the queue while a task is executed; the processor waits for a slot for ever, and `stop()` for the processor |
| `processor_stop_drops` | the task executed during `stop()` is gone, finished or not |
| `scheduler_stop_hangs` | with a single task, the thread that comes second waits in dequeue and `stop()` joins it for ever |
| `scheduler_priority` | the oldest task is executed, not the most important one: no code ever selects by priority |
| `conversion_reorder` | a reordering, which executes nothing, puts a task back with less remaining execution time than it had |

`scheduler_stop_hangs` carries a second finding: `PosixSharedMemory.hpp:120` documents an
exception for `dequeue` on an empty queue, which `TestSharedMemory.cpp` catches to try again.
The code waits instead, and the branch that throws is dead (`EmptyBranchDead`, in `posix`).
The late thread of that run is one that the documented exception would have brought back to
its loop.

What no run shows by itself but follows from them or from a theorem: a thread that comes too
late in `reorder_tasks` (`Stuck`) keeps the tasks that it took out before for as long as it
waits, which `StrandedOnlyByAnEnd` makes the doing of the task that ended. And the documents
and the code disagree about priorities: `src/README.md:10` and `Task.hpp:253` speak of an
adjustment by CPU usage and starvation, `RoundRobingScheduling.hpp:17` of an algorithm that
"does not adjust task priorities". In the code each object is new, its clock starts
at the epoch and its CPU usage at zero, so every conversion takes off the same amount
(`EveryPassLowersPriority`): neither what a task waited nor what it ran makes a difference,
and a reordering under round robin costs a task as much as a quantum. Under
`PriorityScheduling`, `update_task_priority` adjusts a second time, with the short wait since
the conversion, so a reordering costs less there.

### Bounds

Three threads are the fewest with two contending for one semaphore while a third is
in the critical section; two slots make the ring wrap, fill and run empty, with
one slot between front and rear. In `posix` two values tell tasks apart, so that
an exchange or an overwrite shows. Two processes race for each name and three creates
are a race and a restart after it (no theorem needs either bound). `SizeModulus` 3 lets
the totals overflow. The
threads of `Scheduler` are each of its kinds once: two that reorder, one that
executes, one that owns. Two slots for 3 or 4 tasks make full queues;
scripts are finite, a task that returns to the queue makes runs infinite
nevertheless. `MaxTime` and `MaxOutside` bound the clocks in `TaskConversion`:
the longest work is used up before the clock stops, with time as a record beside it. Priorities are at both ends
of the range, negative, and one that `set_static_priority` rejects. `MaxFailures` is 2: each of the two
loops may fail while it has tasks in hand, in `scheduler` also one after the other on the
same tasks; it is 0 in the runs that show a violation, which so need no failure, and the
theorems hold for any number. Quanta of 1 and 3
are one shorter than the longest work and one as long, so that a change between the two
reads matters. `posix_large_ring` has `COUNT_TASKS` 1 and capacity 2, the smallest ring with
a slot too many. In `server` one client is enough for several connections at a time, since
it does not wait for the handler: three commands keep both descriptors in use and
one connection waiting, a descriptor is used again, and `accept` finds none free. A
backlog of 1 (3 in the code) fills with that. Its commands are a known operation with a number
that is too large, which cut short is a plain command, an unknown one, and one without numbers. No property relates two clients but
`HandlersOwnTheirSockets`, which does not care whose the connections are; the theorems
need none of the bounds.
Runs switch the deadlock check off where threads may all be done or, as the
findings say, all wait.

### Fairness

`FairSpec` is weak fairness of each thread's next step: the operating system runs
a thread that can run. A waiting `sem_wait` is only weakly fair, since
semaphores are not queues and a waiter may be overtaken for ever; this is why
`CallsReturn` speaks of runs in which the calls end. Nothing obliges a thread to make a
call, `Main` to call `stop()`, or a call to fail: `ProcessorFails` and `ScheduleFails` are in
no fair action. The sleeps of 100 and 500 ms have
no duration: they end.

In `ServerDialogue`, `accept` takes the waiting connections in their order, so each is
taken if the loop goes on; a handler and a call of `send_command` go on as threads do.
`scheduler.add_task` is not fair, it may wait for a slot for ever, and no user has to
type: `ConnectionsAreHandled` therefore ends at `add_task`.

## 4. What is proved

`PosixSharedMemoryProofs`, for every finite non-empty set of threads, every
set of tasks and every capacity, above `COUNT_TASKS` too: the overlay spoils a task
(lemma `OverlayType`) but no account
(`ThreadsAssumption`, `TasksAssumption`, `CapacityAssumption`, `SizeAssumption`):

- `Inductive`: `Spec => []IInv` with
  `IInv == TypeOK /\ MutualExclusion /\ SlotsAccounted /\ TokensAccounted`.
  None of the parts is inductive alone: that `count` is touched by one thread needs
  no exclusion for the accounts, but that `count` is positive in
  `DequeueTest`, that the mutex is given back once, and that no wait leaves
  its slot behind are facts about how many threads are where. The invariant
  is therefore stated in cardinalities of sets of threads, and the central
  lemma `MoveCount` says how they change when one thread moves; every action is
  then linear arithmetic.
- `TypeCorrect`, `Exclusion`, `SlotsConserved`, `TokensConserved`: its parts.
- `RingBounded`: an enqueue that writes has a free slot, since its claim is counted.
- `NeverEmptyInside`: a dequeue with a token and the mutex finds a task, so the
  branch that throws "Queue is empty" is dead.
- `NoCircularWait`: if all threads wait, nobody holds the mutex, hence all wait for
  slots of a full or for tokens of an empty ring.
- `PrintAtomic`: the ring does not change during the walk of `print()`, as an action
  property.

`PosixSharedMemoryRefinement`, as long as `Capacity <= COUNT_TASKS` (`Fits`; above it
`posix_large_ring` shows the contrary):

- The refinement mapping reads the queue off the ring: `count` tasks from `Oldest`, which
  is `front` unless a dequeue has moved it on already. An enqueue takes effect when
  it counts its task, a dequeue when it takes it from the count.
- `View`, inductive together with `IInv`, says what the ring looks like half-way: the slot
  of `rear` follows the newest task, or the one being counted (`RearIsBehind`); a stored
  task is in the slot that it will be counted at (`StoredBehind`); a copied one is still
  the oldest (`CopiedOldest`); hands are empty or hold a task (`HandsMatch`). One
  lemma for each of the six updates of the ring says what it does to the queue:
  four nothing, one an `Append`, one a `Tail`. Indices run past the end at most
  once (`ModIsWrap`), which makes the remainders linear.
- `ImplementsTheInterface`: `Spec => ImplementsInterface`, the steps that wait for or post a
  semaphore being stutters.
- `DequeuesTakeTasks`: `Spec => []EverySlotHoldsATask`.

`SegmentLifecycleProofs`, for every set of objects and every number of creates
(`MaxCreatesAssumption`):

- `Inductive`: `Spec => []IInv`. `Own(o)` says what an object refers to at each place
  of its life; its core is that an open semaphore implies that `fd_` is still the
  segment of the same create, so no later `attach` can combine the two wrongly.
  `Undisturbed(o)` says which names a create that runs alone has freed so far, and
  `Remembered` that each name in the system has an object that will remove it: neither
  `OneRingOneGuard` nor `NothingLeftBehind` says anything about the middle of a call.
- `TypeCorrect`, `RingKeepsItsGuard`, `CreatedStaysUsable`, `RestartFindsNamesFree`,
  `NothingLeaks`: what follows from it. Most of a step is proved for any system call at
  once: it changes one object (`Local`) and leaves no name to nobody
  (`Remembers`). What a call can do to the fields that a proof looks at is said once, in
  `StepEffects`; the rest is one case per system call.
- `NoRingIsShared`, `AttachIsFutile`: a ring can be used by one object only, and an object that
  attached can never use it. `main` continues after a `create` that threw, but the first
  `enqueue` would wait on `SEM_FAILED`, and several processes, which `src/README.md` speaks of,
  cannot share a queue. They need two facts more (`AInv`): whoever threw in
  `create` lacks a semaphore until the end, as `attach` opens none (`Unguarded`), and no two
  objects have the number of one create (`IdsApart`).

`ProcessorSystemProofs` and `SchedulerProofs`, for any callers with any scripts in which
each task occurs once, any capacity and any set of `UnixTasks` (`ScriptAssumption`,
`CapacityAssumption`, `ProcessorAssumption`, `UnixTasksAssumption`, `MaxFailuresAssumption`,
`MainAssumption`, `SchedulerThreadAssumption`), on `TaskProcessorProofs`:

- A task is in a *container*: a script, the queue, a thread's hands, or one of the two ends.
  `Unique` says that each task is in one container, and once in it. Each step
  of either system moves one task from one container to another (`Moves`) or
  none, whichever threads interleave: `AddOwnTaskMoves`, `TakeMoves`, `PutMoves`, `EndMoves`.
  A move keeps `Unique` (`MovesKeepUnique`), and seen as a life of a task it is a step of
  `TaskLifecycle` or none (`LifeOfMove`). `NoTaskLostOrDoubled` counts places instead
  of relating containers and is no invariant to do induction with; `UniqueIsOnePlace`
  derives it. A failed call lets a whole vector go at once: `LetGoMoves` for the containers,
  `LetGoLoses` for the lives.
- `Inductive`: `Unique`, the types (`Lists`, `TypeOK`), what the processor holds at each place
  (`HandsFit`: one task while it executes, one that can be executed while it puts back) and
  which threads can be where while `start` and `stop` go on (`Threading`: `running_` of the
  processor outlives that of the scheduler until `stop()` has reset it; a thread that is
  joined is at its exit).
- `TypeCorrect`, `OnePlace`, `CountHolds`, `StopLeavesNothing`: what follows from it.
- `Implements`: `Spec => ImplementsLifecycle`, the refinement of `TaskLifecycle`, for both.
- `NoGridlock`, for both: with a slot for each task (`Cardinality(Tasks) <= Capacity`) no
  thread waits to put one back: the tasks in the queue and in a thread's hands are different
  ones by `Unique`, hence no more than there are slots (`UniqueLeavesRoom`). It says where the gridlock of `processor_full_queue` ends: the
  exception in `StopReturnsUnlessGridlocked` never applies then, and a thread that is `Stuck`
  in `Scheduler` waits for a task.
- `RoundRobin` (`ProcessorSystemProofs`): `Spec => TurnsInOrder`, the safety half of
  `EveryTaskServed`. An `Append` and a `Tail` keep the order of those that stay
  (`AppendOrder`, `TailOrder`); that the task which comes in is not one that waits, and so does
  not get before itself, is `Unique`.
- `ReorderingStrandsNothing` (`SchedulerProofs`): `Spec => StrandedOnlyByAnEnd`. A thread that
  takes the last task out goes on to test the queue, finds it empty and puts back: so the
  step that leaves only waiting threads with tasks is none of the reorderings'. The invariant
  is needed for the processor (it has a task when it puts one back) and for the callers (who
  have none outside the calls).

`TaskConversionProofs`, for all durations, quanta, waiting times and priorities:

- `Inductive`: beside the checked invariants, how object and record relate while the task is
  taken out (`SameAsRecord`), what an object's total is (`TotalIsLeft`) and that it is no
  older than the time spent as an object (`Younger`). Without these nothing says that what is
  charged when the task is put back is what passed since it was taken out.
- `TypeCorrect`, `TimeAsObjectCharged`, `CompletedInTime`, and `NeverMoreImportant` as an action
  property, on the arithmetic of `DynamicPriorityLowers` and `ChargesAddUp`.
- `EveryPassLowersPriority`, an equation where `NeverMoreImportant` has an inequality, for
  records put back by the processor and by reorderings under round robin. The priority is
  computed when the task is taken out and written when it is put back, so the invariant
  `LoweredByConversion` carries it from one to the other.

`ServerDialogueProofs`, for any clients, commands, descriptors, backlog and number of commands:

- `Inductive`: beside the checked invariants, that what is on the wire or was read is a prefix
  of what the client typed (`WireIsTyped`, `GotIsTyped`), and that connections of the
  future are untouched.
- `TypeCorrect`, `SocketsMatched`, `NoForeignTask`, `ClientsCloseTheirSockets`.
- `ImplementsTheService`: `Spec => ImplementsService`, the refinement of `CommandService`, with
  one case per action; reads, sends and the steps before the accept loop are stutters. `SInv`
  adds what the mapping needs: only a server in its accept loop has connections (`ServerUp`),
  and a handler has added its task only when it is about to close (`AddedLate`), so that no
  task is added twice or after the end. That no more connections are served than there are
  descriptors (`RoomToServe`) is `HandlersOwnTheirSockets` read as a bijection
  (`SameCardinality`), for which the descriptors must be finite (`DescriptorsAssumption`).

Only model-checked: liveness (`CallsReturn`, `EveryTaskServed`, `StopReturnsUnless...`,
`ConnectionsAreHandled`), which is out of the prover's reach. Of these the safety halves are
proved: `RoundRobin` for the service of tasks, `NoGridlock` and `ReorderingStrandsNothing` for
what keeps `stop()` waiting, `ImplementsTheService` for what happens to a connection. Every
invariant, action property and refinement of the passing runs is a theorem.

## 5. Not modelled, and why

- `detach` and `destroy` called on their own, and the constructor of
  `TaskQueueManager` that copies a `PosixSharedMemory` (both copies would then close and
  unlink): nothing calls them. The flag `scheduler_running_`, which the scheduler
  neither sets nor reads.
- The damage that `set_algorithm` can do to a `shared_ptr` that the scheduler's thread copies:
  undefined behaviour of the library. What the reads can give otherwise is covered by free
  choices (`Algorithms`, `SetTimeQuantum`); nothing in `src/` calls either.
- A second `start()` without `stop()` assigns to a joinable `std::thread` and ends
  the program. So does a handler's or `Main`'s `add_task` that throws, half-way through its
  reordering too; `ServerDialogue` has the throw and the end of the process, not what the
  queue looks like then, which nobody reads any more.
- `select_next_task`, `launch_process` and `check_process_status`, which nothing calls; the
  index of `RoundRobinScheduling`.
- The order in which two commands of one client are added: nothing promises one.
- Ids. `Task.hpp:140` calls the id of a task its "unique identifier", the server gives every
  task of an operation that operation's number. Nothing looks a task up by its id, so a task
  in the models is itself, not its id.
- A command that is longer than the buffer; what is printed and logged. `Logger` objects
  write to their files without a lock.

## 6. Plan

Done: `PosixSharedMemory` with `SharedMemory`, `SegmentLifecycle`, `TaskQueueManager`,
`TaskProcessor`, `ProcessorSystem` and `Scheduler` with `TaskLifecycle`, `TaskConversion`,
`ServerDialogue` with `CommandService`, and the proofs about each. What could follow: records
and numbers together, that is `TaskConversion` for several tasks in one `Scheduler`; and a
bound on how often the scheduler's thread can put a task behind others before it is executed,
which `TurnsInOrder` says of the processor alone.
