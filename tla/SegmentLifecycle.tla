-------------------------- MODULE SegmentLifecycle --------------------------
(***************************************************************************)
(* The life of PosixSharedMemory objects on one name: constructor, create, *)
(* attach and the destructor with destroy and detach in it, by several     *)
(* processes with an object each.  Callers do what main and the tests do:  *)
(* create, attach when create throws, use, destruct; detach and destroy    *)
(* have no other callers.  A step is one system call; each may fail, and a *)
(* process may die between any two.  Segments and semaphores are told      *)
(* apart by the create call that made them: the n-th makes those called n. *)
(***************************************************************************)
EXTENDS Integers

CONSTANTS
  Objects,      \* the objects, one in each process
  MaxCreates    \* bound on the number of create calls

ASSUME MaxCreatesAssumption == MaxCreates \in Nat

VARIABLES
  shm,      \* the segment that the name refers to
  sems,     \* the semaphores that the names _enq, _deq and _mut refer to
  sized,    \* the segments that went through ftruncate
  creates,  \* how many create calls were made
  fd,       \* fd_ of each object
  data,     \* data_ of each object
  sem,      \* enqueue_sem_, dequeue_sem_ and mutex_sem_ of each object
  pc,       \* where each object is in its life
  next,     \* the semaphore that comes next where all three are treated
  id,       \* the number of each object's create call
  alone,    \* the object whose create is not interleaved with others' steps
  died      \* has some process died without its destructor?

names == <<shm, sems, sized>>
fields == <<fd, data, sem>>
vars == <<names, creates, fields, pc, next, id, alone, died>>

Sems == 1..3            \* enqueue_sem_, dequeue_sem_, mutex_sem_
Ids == 1..MaxCreates
None == 0               \* no such name; -1, nullptr and SEM_FAILED
Invalid == -1           \* a closed descriptor or semaphore; MAP_FAILED

Goto(o, from, to) ==
  /\ pc[o] = from
  /\ pc' = [pc EXCEPT ![o] = to]

\* The next of three similar calls, or to after the last.
Treated(o, from, to) ==
  /\ Goto(o, from, IF next[o] = 3 THEN to ELSE from)
  /\ next' = [next EXCEPT ![o] = IF next[o] = 3 THEN 1 ELSE next[o] + 1]

-----------------------------------------------------------------------------
(* Mutants: slips that would be easy to make in the code below. *)

\* There is a fourth semaphore to unlink.
CreateUnlinksFour(o) ==
  /\ Goto(o, "unlink_sems", IF next[o] = 4 THEN "unlink_shm" ELSE "unlink_sems")
  /\ next' = [next EXCEPT ![o] = IF next[o] = 4 THEN 1 ELSE next[o] + 1]
  /\ sems' = [k \in Sems |-> IF k = next[o] THEN None ELSE sems[k]]
  /\ UNCHANGED <<shm, sized, fields, id>>

\* create leaves the semaphores of an earlier run alone.
CreateKeepsSems(o) ==
  /\ Treated(o, "unlink_sems", "unlink_shm")
  /\ UNCHANGED <<names, fields, id>>

\* A failed ftruncate resets fd_.
TruncateFailsReset(o) ==
  /\ Goto(o, "truncate", "threw")
  /\ fd' = [fd EXCEPT ![o] = None]
  /\ UNCHANGED <<names, data, sem, next, id>>

\* sem_open without O_EXCL.
OpenSemShared(o) ==
  /\ Treated(o, "open_sems", "check_sems")
  /\ sems' = [sems EXCEPT ![next[o]] = IF @ = None THEN id[o] ELSE @]
  /\ sem' = [sem EXCEPT ![o][next[o]] = sems'[next[o]]]
  /\ UNCHANGED <<shm, sized, fd, data, id>>

\* The test of what sem_open returned leaves the mutex out.
CheckTwoSems(o) ==
  /\ Goto(o, "check_sems", IF \E k \in {1, 2} : sem[o][k] = None
                           THEN "threw" ELSE "created")
  /\ UNCHANGED <<names, fields, next, id>>

-----------------------------------------------------------------------------

Init ==
  /\ shm = None
  /\ sems = [k \in Sems |-> None]
  /\ sized = {}
  /\ creates = 0
  /\ fd = [o \in Objects |-> None]
  /\ data = [o \in Objects |-> None]
  /\ sem = [o \in Objects |-> [k \in Sems |-> None]]
  /\ pc = [o \in Objects |-> "gone"]
  /\ next = [o \in Objects |-> 1]
  /\ id = [o \in Objects |-> None]
  /\ alone = {}
  /\ died = FALSE

\* A process starts and constructs its object, with a capacity in range.
Construct(o) ==
  /\ Goto(o, "gone", "constructed")
  /\ fd' = [fd EXCEPT ![o] = None]
  /\ data' = [data EXCEPT ![o] = None]
  /\ sem' = [sem EXCEPT ![o] = [k \in Sems |-> None]]
  /\ next' = [next EXCEPT ![o] = 1]
  /\ id' = [id EXCEPT ![o] = None]
  /\ UNCHANGED names

-----------------------------------------------------------------------------
(* create() *)

CallCreate(o) ==
  /\ creates < MaxCreates
  /\ Goto(o, "constructed", "unlink_sems")
  /\ creates' = creates + 1
  /\ id' = [id EXCEPT ![o] = creates + 1]
  /\ alone' = {o}
  /\ UNCHANGED <<names, fields, next, died>>

CreateUnlinkSem(o) ==
  /\ Treated(o, "unlink_sems", "unlink_shm")
  /\ sems' = [sems EXCEPT ![next[o]] = None]
  /\ UNCHANGED <<shm, sized, fields, id>>

CreateUnlinkShm(o) ==
  /\ Goto(o, "unlink_shm", "open_shm")
  /\ shm' = None
  /\ UNCHANGED <<sems, sized, fields, next, id>>

\* O_CREAT | O_EXCL: a new segment, and only if the name is free.
CreateOpenShm(o) ==
  /\ shm = None
  /\ Goto(o, "open_shm", "truncate")
  /\ shm' = id[o]
  /\ fd' = [fd EXCEPT ![o] = id[o]]
  /\ UNCHANGED <<sems, sized, data, sem, next, id>>

\* The name is taken again, or the system refuses.
CreateOpenShmFails(o) ==
  /\ Goto(o, "open_shm", "threw")
  /\ UNCHANGED <<names, fields, next, id>>

Truncate(o) ==
  /\ Goto(o, "truncate", "map")
  /\ sized' = sized \cup {fd[o]}
  /\ UNCHANGED <<shm, sems, fields, next, id>>

\* fd_ is closed and keeps its value.
TruncateFails(o) ==
  /\ Goto(o, "truncate", "threw")
  /\ fd' = [fd EXCEPT ![o] = Invalid]
  /\ UNCHANGED <<names, data, sem, next, id>>

\* attach() within create, with fd_ set.  The stores of zero that follow go to
\* a new segment, which ftruncate filled with zeros.
CreateMap(o) ==
  /\ Goto(o, "map", "open_sems")
  /\ data' = [data EXCEPT ![o] = fd[o]]
  /\ UNCHANGED <<names, fd, sem, next, id>>

CreateMapFails(o) ==
  /\ Goto(o, "map", "threw")
  /\ data' = [data EXCEPT ![o] = Invalid]
  /\ UNCHANGED <<names, fd, sem, next, id>>

\* O_CREAT | O_EXCL: a new semaphore, and only if the name is free.
OpenSem(o) ==
  /\ sems[next[o]] = None
  /\ Treated(o, "open_sems", "check_sems")
  /\ sems' = [sems EXCEPT ![next[o]] = id[o]]
  /\ sem' = [sem EXCEPT ![o][next[o]] = id[o]]
  /\ UNCHANGED <<shm, sized, fd, data, id>>

\* The others are opened all the same.
OpenSemFails(o) ==
  /\ Treated(o, "open_sems", "check_sems")
  /\ sem' = [sem EXCEPT ![o][next[o]] = None]
  /\ UNCHANGED <<names, fd, data, id>>

CheckSems(o) ==
  /\ Goto(o, "check_sems", IF \E k \in Sems : sem[o][k] = None
                           THEN "threw" ELSE "created")
  /\ UNCHANGED <<names, fields, next, id>>

-----------------------------------------------------------------------------
(* attach(), to which callers turn when create has thrown. *)

CallAttach(o) ==
  /\ Goto(o, "threw", IF fd[o] = None THEN "attach_open" ELSE "attach_map")
  /\ UNCHANGED <<names, fields, next, id>>

AttachOpen(o) ==
  /\ shm # None
  /\ Goto(o, "attach_open", "attach_map")
  /\ fd' = [fd EXCEPT ![o] = shm]
  /\ UNCHANGED <<names, data, sem, next, id>>

AttachOpenFails(o) ==
  /\ Goto(o, "attach_open", "failed")
  /\ UNCHANGED <<names, fields, next, id>>

AttachMap(o) ==
  /\ fd[o] # Invalid
  /\ Goto(o, "attach_map", "attached")
  /\ data' = [data EXCEPT ![o] = fd[o]]
  /\ UNCHANGED <<names, fd, sem, next, id>>

\* The descriptor is closed, or the system refuses.
AttachMapFails(o) ==
  /\ Goto(o, "attach_map", "failed")
  /\ data' = [data EXCEPT ![o] = Invalid]
  /\ UNCHANGED <<names, fd, sem, next, id>>

-----------------------------------------------------------------------------
(* The destructor: cleanup() calls destroy(), which calls detach(). *)

Detach(o) ==
  /\ pc[o] \in {"constructed", "created", "attached", "threw", "failed"}
  /\ Goto(o, pc[o], IF fd[o] = None THEN "close_sems" ELSE "close_shm")
  /\ data' = [data EXCEPT ![o] = None]
  /\ UNCHANGED <<names, fd, sem, next, id>>

\* The name is removed, whatever segment it refers to now.
CloseShm(o) ==
  /\ Goto(o, "close_shm", "close_sems")
  /\ shm' = None
  /\ fd' = [fd EXCEPT ![o] = None]
  /\ UNCHANGED <<sems, sized, data, sem, next, id>>

\* The pointers keep their values.  Nobody else sees the three calls.
CloseSems(o) ==
  /\ Goto(o, "close_sems", "destroy_sems")
  /\ sem' = [sem EXCEPT ![o] = [k \in Sems |-> IF @[k] = None THEN None ELSE Invalid]]
  /\ UNCHANGED <<names, fd, data, next, id>>

DestroyUnlinkSem(o) ==
  /\ Treated(o, "destroy_sems", "gone")
  /\ sems' = [sems EXCEPT ![next[o]] = None]
  /\ UNCHANGED <<shm, sized, fields, id>>

\* The process dies: the system closes what it has open and keeps the names.
Die(o) ==
  /\ pc[o] # "gone"
  /\ pc' = [pc EXCEPT ![o] = "gone"]
  /\ died' = TRUE
  /\ fd' = [fd EXCEPT ![o] = None]
  /\ data' = [data EXCEPT ![o] = None]
  /\ sem' = [sem EXCEPT ![o] = [k \in Sems |-> None]]
  /\ alone' = alone \cap {o}
  /\ UNCHANGED <<names, creates, next, id>>

-----------------------------------------------------------------------------

Create(o) ==
  \/ CreateUnlinkSem(o)
  \/ CreateUnlinkShm(o)
  \/ CreateOpenShm(o)
  \/ CreateOpenShmFails(o)
  \/ Truncate(o)
  \/ TruncateFails(o)
  \/ CreateMap(o)
  \/ CreateMapFails(o)
  \/ OpenSem(o)
  \/ OpenSemFails(o)
  \/ CheckSems(o)

Attach(o) ==
  \/ CallAttach(o)
  \/ AttachOpen(o)
  \/ AttachOpenFails(o)
  \/ AttachMap(o)
  \/ AttachMapFails(o)

Destroy(o) ==
  \/ Detach(o)
  \/ CloseShm(o)
  \/ CloseSems(o)
  \/ DestroyUnlinkSem(o)

Step(o) ==
  /\ Construct(o) \/ Create(o) \/ Attach(o) \/ Destroy(o)
  /\ alone' = alone \cap {o}
  /\ UNCHANGED <<creates, died>>

Next == \E o \in Objects : CallCreate(o) \/ Step(o) \/ Die(o)

Spec == Init /\ [][Next]_vars

-----------------------------------------------------------------------------
(* Properties *)

Places == {"gone", "constructed", "unlink_sems", "unlink_shm", "open_shm",
           "truncate", "map", "open_sems", "check_sems", "created", "threw",
           "attach_open", "attach_map", "attached", "failed",
           "close_shm", "close_sems", "destroy_sems"}

TypeOK ==
  /\ shm \in Ids \cup {None}
  /\ sems \in [Sems -> Ids \cup {None}]
  /\ sized \in SUBSET Ids
  /\ creates \in 0..MaxCreates
  /\ fd \in [Objects -> Ids \cup {None, Invalid}]
  /\ data \in [Objects -> Ids \cup {None, Invalid}]
  /\ sem \in [Objects -> [Sems -> Ids \cup {None, Invalid}]]
  /\ pc \in [Objects -> Places]
  /\ next \in [Objects -> Sems]
  /\ id \in [Objects -> 0..creates]
  /\ alone \in SUBSET Objects
  /\ died \in BOOLEAN

\* Three open semaphores and a mapping: enqueue and dequeue can be called.
Usable(o) == data[o] \in Ids /\ \A k \in Sems : sem[o][k] \in Ids

\* A ring and the semaphores that guard it stay together, however the creates,
\* destructors and deaths of several processes interleave: who can use the same
\* ring takes the same semaphores, and nobody takes a semaphore of another's ring.
OneRingOneGuard ==
  \A o, p \in Objects :
    Usable(o) /\ Usable(p) =>
      \A k \in Sems : data[o] = data[p] <=> sem[o][k] = sem[p][k]

\* A create that returned leaves a segment of full size and its own semaphores,
\* and they stay, whatever other processes do to the names: the state in which
\* PosixSharedMemory begins.
CreateReturnsUsable ==
  \A o \in Objects :
    pc[o] = "created" => /\ Usable(o)
                         /\ data[o] \in sized
                         /\ \A k \in Sems : sem[o][k] = data[o]

\* Whatever earlier processes left behind, by dying in the middle of a create or
\* of a destructor too, a create during which nobody else does anything finds
\* every name free when it opens it: it throws only if the system refuses.
RestartSucceeds ==
  \A o \in alone :
    /\ pc[o] = "open_shm" => shm = None
    /\ pc[o] = "open_sems" => \A k \in next[o]..3 : sems[k] = None

\* When every object is destructed and no process died, no name is left in the
\* system, also after creates that threw half-way and after races of creates
\* and destructors.
NothingLeftBehind ==
  (\A o \in Objects : pc[o] = "gone") /\ ~died =>
    shm = None /\ \A k \in Sems : sems[k] = None
=============================================================================
