----------------------- MODULE SegmentLifecycleProofs -----------------------
(***************************************************************************)
(* Proofs about SegmentLifecycle for every set of objects and any number   *)
(* of create calls.  The invariant has a part for each object by itself    *)
(* (Own), one for the create that runs undisturbed (Undisturbed) and one   *)
(* for who will still remove a name (Remembered).                          *)
(***************************************************************************)
EXTENDS SegmentLifecycle, TLAPS

NoSem(o) == \A k \in Sems : sem[o][k] = None

\* What an object refers to at each place of its life.  In particular it has
\* semaphores of its own create only, and those only with the segment of the
\* same create in fd_: it never attaches to another one afterwards.
Own(o) ==
  /\ pc[o] \in {"unlink_sems", "unlink_shm", "open_shm", "truncate", "map",
                "open_sems", "check_sems"} => id[o] \in Ids
  /\ pc[o] \in {"constructed", "unlink_sems", "unlink_shm", "open_shm",
                "truncate", "map"} => NoSem(o)
  /\ pc[o] \in {"truncate", "map", "open_sems", "check_sems"} => fd[o] = id[o]
  /\ pc[o] \in {"map", "open_sems", "check_sems", "created"} => id[o] \in sized
  /\ pc[o] \in {"open_sems", "check_sems", "created"} => data[o] = id[o]
  /\ pc[o] = "created" => \A k \in Sems : sem[o][k] = id[o]
  /\ pc[o] \in {"attach_open", "close_sems", "destroy_sems", "gone"}
       => fd[o] = None
  /\ \A k \in Sems :
       /\ sem[o][k] \in {None, Invalid, id[o]}
       /\ sem[o][k] = Invalid => pc[o] \in {"destroy_sems", "gone"}
       /\ sem[o][k] \in Ids => /\ pc[o] # "close_sems" => fd[o] = id[o]
                               /\ data[o] \in {id[o], None, Invalid}

\* The semaphores are treated from the first one on.
FromFirst(o) ==
  pc[o] \notin {"unlink_sems", "open_sems", "destroy_sems", "gone"} =>
    next[o] = 1

\* The names that the create of o has freed are still free while it is alone.
Undisturbed(o) ==
  /\ pc[o] = "unlink_sems" => \A k \in Sems : k < next[o] => sems[k] = None
  /\ pc[o] \in {"unlink_shm", "open_shm", "truncate", "map"}
       => \A k \in Sems : sems[k] = None
  /\ pc[o] = "open_shm" => shm = None
  /\ pc[o] = "open_sems" => \A k \in Sems : next[o] <= k => sems[k] = None

\* o has yet to remove the name of semaphore k.
WillUnlink(o, k) == pc[o] # "gone" /\ (pc[o] = "destroy_sems" => next[o] <= k)

\* A name in the system is one that some object has yet to remove.
Remembered ==
  ~died => /\ shm # None => \E o \in Objects : fd[o] # None
           /\ \A k \in Sems :
                sems[k] # None => \E o \in Objects : WillUnlink(o, k)

IInv ==
  /\ TypeOK
  /\ \A o \in Objects : Own(o) /\ FromFirst(o)
  /\ \A o \in alone : Undisturbed(o)
  /\ Remembered

\* A step of o changes no other object, and no segment shrinks.
Local(o) ==
  /\ \A p \in Objects \ {o} :
       /\ pc'[p] = pc[p] /\ fd'[p] = fd[p] /\ data'[p] = data[p]
       /\ sem'[p] = sem[p] /\ next'[p] = next[p] /\ id'[p] = id[p]
  /\ sized \subseteq sized'

\* o makes no name that it will not remove, and remains to remove those it would
\* have removed.
Remembers(o) ==
  /\ shm' # None => /\ shm # None \/ fd'[o] # None
                    /\ fd[o] # None => fd'[o] # None
  /\ \A k \in Sems :
       sems'[k] # None => /\ sems[k] # None \/ WillUnlink(o, k)'
                          /\ WillUnlink(o, k) => WillUnlink(o, k)'

-----------------------------------------------------------------------------
\* What a system call does: the values keep their types, the object that makes it
\* stays consistent and is the only one that changes, what an undisturbed create
\* has freed stays free, and no name is left that nobody will remove.
LEMMA StepEffects ==
  ASSUME NEW o \in Objects, TypeOK, Own(o), FromFirst(o), Step(o)
  PROVE  /\ TypeOK' /\ Local(o)
         /\ Own(o)' /\ FromFirst(o)'
         /\ Undisturbed(o) => Undisturbed(o)'
         /\ Remembers(o)
<1> USE MaxCreatesAssumption
    DEF TypeOK, Sems, Ids, None, Invalid, Goto, Treated, names, fields, Places, Own,
        NoSem, FromFirst, Local, Undisturbed, Remembers, WillUnlink
<1>0. alone' = alone \cap {o} /\ creates' = creates /\ died' = died
  BY DEF Step
<1>1. CASE Construct(o)
  BY <1>0, <1>1 DEF Construct
<1>2. CASE CreateUnlinkSem(o)
  BY <1>0, <1>2 DEF CreateUnlinkSem
<1>3. CASE CreateUnlinkShm(o)
  BY <1>0, <1>3 DEF CreateUnlinkShm
<1>4. CASE CreateOpenShm(o)
  BY <1>0, <1>4 DEF CreateOpenShm
<1>5. CASE CreateOpenShmFails(o)
  BY <1>0, <1>5 DEF CreateOpenShmFails
<1>6. CASE Truncate(o)
  BY <1>0, <1>6 DEF Truncate
<1>7. CASE TruncateFails(o)
  BY <1>0, <1>7 DEF TruncateFails
<1>8. CASE CreateMap(o)
  BY <1>0, <1>8 DEF CreateMap
<1>9. CASE CreateMapFails(o)
  BY <1>0, <1>9 DEF CreateMapFails
<1>10. CASE OpenSem(o)
  BY <1>0, <1>10 DEF OpenSem
<1>11. CASE OpenSemFails(o)
  BY <1>0, <1>11 DEF OpenSemFails
<1>12. CASE CheckSems(o)
  BY <1>0, <1>12 DEF CheckSems
<1>13. CASE CallAttach(o)
  BY <1>0, <1>13 DEF CallAttach
<1>14. CASE AttachOpen(o)
  BY <1>0, <1>14 DEF AttachOpen
<1>15. CASE AttachOpenFails(o)
  BY <1>0, <1>15 DEF AttachOpenFails
<1>16. CASE AttachMap(o)
  BY <1>0, <1>16 DEF AttachMap
<1>17. CASE AttachMapFails(o)
  BY <1>0, <1>17 DEF AttachMapFails
<1>18. CASE Detach(o)
  BY <1>0, <1>18 DEF Detach
<1>19. CASE CloseShm(o)
  BY <1>0, <1>19 DEF CloseShm
<1>20. CASE CloseSems(o)
  BY <1>0, <1>20 DEF CloseSems
<1>21. CASE DestroyUnlinkSem(o)
  BY <1>0, <1>21 DEF DestroyUnlinkSem
<1> QED
  BY <1>1, <1>2, <1>3, <1>4, <1>5, <1>6, <1>7, <1>8, <1>9, <1>10, <1>11,
     <1>12, <1>13, <1>14, <1>15, <1>16, <1>17, <1>18, <1>19, <1>20, <1>21
  DEF Step, Create, Attach, Destroy

\* The parts of the invariant for one object carry over to a step of another.
LEMMA OthersOwn ==
  ASSUME NEW o \in Objects, NEW p \in Objects \ {o}, Local(o), Own(p), FromFirst(p)
  PROVE  Own(p)' /\ FromFirst(p)'
BY DEF Local, Own, FromFirst, NoSem

\* Who remembered the names before still does, after a step of another object.
LEMMA OthersRemember ==
  ASSUME NEW o \in Objects, Remembered, Local(o), Remembers(o), died' = died
  PROVE  Remembered'
<1> SUFFICES ASSUME ~died'
             PROVE  /\ shm' # None => \E p \in Objects : fd'[p] # None
                    /\ \A k \in Sems :
                         sems'[k] # None => \E p \in Objects : WillUnlink(p, k)'
  BY DEF Remembered, WillUnlink
<1>1. ASSUME shm' # None PROVE \E p \in Objects : fd'[p] # None
  BY <1>1 DEF Remembered, Remembers, Local
<1>2. ASSUME NEW k \in Sems, sems'[k] # None
      PROVE  \E p \in Objects : WillUnlink(p, k)'
  <2>1. CASE WillUnlink(o, k)'
    BY <2>1
  <2>2. CASE ~WillUnlink(o, k)'
    <3>1. PICK p \in Objects : WillUnlink(p, k)
      BY <1>2, <2>2 DEF Remembered, Remembers
    <3>2. p # o
      BY <1>2, <2>2, <3>1 DEF Remembers
    <3>3. WillUnlink(p, k)'
      BY <3>1, <3>2 DEF WillUnlink, Local
    <3> QED
      BY <3>3
  <2> QED
    BY <2>1, <2>2
<1> QED
  BY <1>1, <1>2

-----------------------------------------------------------------------------
\* No object exists and no name is taken when the system starts.
LEMMA InitInvariant == Init => IInv
<1> SUFFICES ASSUME Init PROVE IInv
  OBVIOUS
<1> USE DEF Init
<1>1. TypeOK
  <2>1. creates \in 0..MaxCreates /\ 0..creates = {None} /\ 1 \in Sems
    BY MaxCreatesAssumption DEF Sems, None
  <2>2. "gone" \in Places
    BY DEF Places
  <2> QED
    BY <2>1, <2>2 DEF TypeOK
<1>2. ASSUME NEW o \in Objects PROVE Own(o) /\ FromFirst(o)
  BY <1>2 DEF Own, NoSem, FromFirst, Ids, None, Invalid
<1>3. Remembered /\ alone = {}
  BY DEF Remembered
<1> QED
  BY <1>1, <1>2, <1>3 DEF IInv

\* Every step of every process keeps the invariant.
LEMMA StepInvariant == IInv /\ [Next]_vars => IInv'
<1> SUFFICES ASSUME IInv, [Next]_vars PROVE IInv'
  OBVIOUS
<1>1. CASE UNCHANGED vars
  BY <1>1 DEF vars, names, fields, IInv, TypeOK, Own, NoSem, FromFirst,
     Undisturbed, Remembered, WillUnlink
<1>2. ASSUME NEW o \in Objects, CallCreate(o) PROVE IInv'
  <2> USE DEF CallCreate, Goto, names, fields
  <2>1. TypeOK'
    BY <1>2, MaxCreatesAssumption DEF IInv, TypeOK, Ids, Sems, None, Places
  <2>2. Own(o)' /\ FromFirst(o)' /\ Local(o)
    BY <1>2, MaxCreatesAssumption
       DEF IInv, TypeOK, Own, NoSem, FromFirst, Local, Sems, Ids, None,
          Invalid
  <2>3. alone' = {o} /\ Undisturbed(o)'
    BY <1>2 DEF IInv, TypeOK, FromFirst, Undisturbed, Sems
  <2>4. died' = died /\ Remembers(o)
    BY <1>2 DEF IInv, TypeOK, Remembers, WillUnlink
  <2> QED
    BY <2>1, <2>2, <2>3, <2>4, OthersOwn, OthersRemember DEF IInv
<1>3. ASSUME NEW o \in Objects, Die(o) PROVE IInv'
  <2> USE DEF Die, names
  <2>1. TypeOK'
    BY <1>3 DEF IInv, TypeOK, None, Places
  <2>2. Own(o)' /\ FromFirst(o)' /\ Local(o)
    BY <1>3, MaxCreatesAssumption
       DEF IInv, TypeOK, Own, NoSem, FromFirst, Local, Ids, None, Invalid
  <2>3. alone' \subseteq {o} /\ Undisturbed(o)'
    BY <1>3 DEF IInv, TypeOK, Undisturbed
  <2>4. Remembered'
    BY <1>3 DEF Remembered
  <2> QED
    BY <2>1, <2>2, <2>3, <2>4, OthersOwn DEF IInv
<1>4. ASSUME NEW o \in Objects, Step(o) PROVE IInv'
  <2>1. TypeOK /\ Own(o) /\ FromFirst(o)
    BY DEF IInv
  <2>2. TypeOK' /\ Local(o) /\ Own(o)' /\ FromFirst(o)' /\ Remembers(o)
    BY <1>4, <2>1, StepEffects
  <2>3. alone' = alone \cap {o} /\ died' = died
    BY <1>4 DEF Step
  <2>4. \A p \in alone' : Undisturbed(p)'
    BY <1>4, <2>1, <2>3, StepEffects DEF IInv
  <2> QED
    BY <2>2, <2>3, <2>4, OthersOwn, OthersRemember DEF IInv
<1> QED
  BY <1>1, <1>2, <1>3, <1>4 DEF Next

-----------------------------------------------------------------------------
\* The inductive invariant of the objects on one name.
THEOREM Inductive == Spec => []IInv
BY InitInvariant, StepInvariant, PTL DEF Spec

\* Every descriptor, mapping, semaphore and name has its type in every run.
THEOREM TypeCorrect == Spec => []TypeOK
<1>1. IInv => TypeOK
  BY DEF IInv
<1> QED
  BY <1>1, Inductive, PTL

\* Who uses a ring takes the semaphores that guard it and no others, however
\* many processes create, attach, destruct and die at the same time.
THEOREM RingKeepsItsGuard == Spec => []OneRingOneGuard
<1>1. IInv => OneRingOneGuard
  <2> SUFFICES ASSUME IInv, NEW o \in Objects, NEW p \in Objects,
                      Usable(o), Usable(p), NEW k \in Sems
               PROVE  data[o] = data[p] <=> sem[o][k] = sem[p][k]
    BY DEF OneRingOneGuard
  <2>1. ASSUME NEW x \in Objects, Usable(x)
        PROVE  data[x] = id[x] /\ sem[x][k] = id[x]
    BY <2>1, MaxCreatesAssumption DEF IInv, Own, Usable, Ids, None, Invalid
  <2> QED
    BY <2>1
<1> QED
  BY <1>1, Inductive, PTL

\* What create() returned with stays usable until the object ends: other
\* processes can take its names away but neither segment nor semaphores.
THEOREM CreatedStaysUsable == Spec => []CreateReturnsUsable
<1>1. IInv => CreateReturnsUsable
  <2> SUFFICES ASSUME IInv, NEW o \in Objects, pc[o] = "created"
               PROVE  /\ Usable(o)
                      /\ data[o] \in sized
                      /\ \A k \in Sems : sem[o][k] = data[o]
    BY DEF CreateReturnsUsable
  <2>1. data[o] = id[o] /\ id[o] \in sized /\ \A k \in Sems : sem[o][k] = id[o]
    BY DEF IInv, Own
  <2>2. id[o] \in Ids
    BY <2>1 DEF IInv, TypeOK
  <2> QED
    BY <2>1, <2>2 DEF Usable
<1> QED
  BY <1>1, Inductive, PTL

\* A create that nobody disturbs finds the names free, whatever crashes and
\* failures went before.
THEOREM RestartFindsNamesFree == Spec => []RestartSucceeds
<1>1. IInv => RestartSucceeds
  <2> SUFFICES ASSUME IInv, NEW o \in alone
               PROVE  /\ pc[o] = "open_shm" => shm = None
                      /\ pc[o] = "open_sems" =>
                           \A k \in next[o]..3 : sems[k] = None
    BY DEF RestartSucceeds
  <2>1. Undisturbed(o) /\ next[o] \in Sems
    BY DEF IInv, TypeOK
  <2>2. \A k \in next[o]..3 : k \in Sems /\ next[o] <= k
    BY <2>1 DEF Sems
  <2> QED
    BY <2>1, <2>2 DEF Undisturbed
<1> QED
  BY <1>1, Inductive, PTL

\* The last destructor leaves no name in the system.
THEOREM NothingLeaks == Spec => []NothingLeftBehind
<1>1. IInv => NothingLeftBehind
  BY DEF IInv, Own, Remembered, WillUnlink, NothingLeftBehind
<1> QED
  BY <1>1, Inductive, PTL

-----------------------------------------------------------------------------
(* What attach() is worth.  create() throws before all semaphores are open  *)
(* and attach() opens none, so that a ring is used by its creator alone.    *)

\* An object whose create threw lacks a semaphore, before and after attach.
Unguarded ==
  \A o \in Objects :
    pc[o] \in {"threw", "attach_open", "attach_map", "attached", "failed"} =>
      \E k \in Sems : sem[o][k] = None

\* Every create has a number of its own.
IdsApart ==
  \A o, p \in Objects : o # p => id[o] = None \/ id[o] # id[p]

AInv == IInv /\ Unguarded /\ IdsApart

\* No two objects can use the same ring.
RingsArePrivate ==
  \A o, p \in Objects : Usable(o) /\ Usable(p) /\ data[o] = data[p] => o = p

\* No object can use the ring that it has attached to.
AttachedCannotUse == \A o \in Objects : pc[o] = "attached" => ~Usable(o)

\* Only a create that failed leads to attach(), and only a test of the
\* semaphores that found one missing, or a failure before any was opened.
LEMMA StepUnguarded ==
  ASSUME NEW o \in Objects, IInv, Unguarded, Step(o)
  PROVE  Unguarded'
<1>1. Own(o) /\ TypeOK /\ Local(o)
  BY StepEffects DEF IInv
<1>2. pc'[o] \in {"threw", "attach_open", "attach_map", "attached", "failed"} =>
        \E k \in Sems : sem'[o][k] = None
  <2> USE <1>1 DEF TypeOK, Goto, Treated, names, fields
  <2>1. CASE CreateOpenShmFails(o) \/ TruncateFails(o) \/ CreateMapFails(o)
    BY <2>1 DEF CreateOpenShmFails, TruncateFails, CreateMapFails, Own, NoSem, Sems
  <2>2. CASE CheckSems(o)
    BY <2>2 DEF CheckSems
  <2>3. CASE Attach(o)
    BY <2>3
    DEF Attach, CallAttach, AttachOpen, AttachOpenFails, AttachMap, AttachMapFails,
        Unguarded
  <2>4. CASE Destroy(o) \/ Construct(o)
    BY <2>4 DEF Destroy, Detach, CloseShm, CloseSems, DestroyUnlinkSem, Construct
  <2>5. CASE \/ CreateUnlinkSem(o) \/ CreateUnlinkShm(o) \/ CreateOpenShm(o)
             \/ Truncate(o) \/ CreateMap(o) \/ OpenSem(o) \/ OpenSemFails(o)
    BY <2>5
    DEF CreateUnlinkSem, CreateUnlinkShm, CreateOpenShm, Truncate, CreateMap,
        OpenSem, OpenSemFails
  <2> QED
    BY <2>1, <2>2, <2>3, <2>4, <2>5 DEF Step, Create
<1> QED
  BY <1>1, <1>2 DEF Unguarded, Local

\* A system call keeps the number of its object's create or clears it.
LEMMA StepIds ==
  ASSUME NEW o \in Objects, IInv, IdsApart, Step(o)
  PROVE  IdsApart'
<1>1. Local(o)
  BY StepEffects DEF IInv
<1>2. id'[o] \in {id[o], None}
  BY DEF IInv, TypeOK, Step, Construct, Create, CreateUnlinkSem, CreateUnlinkShm,
         CreateOpenShm, CreateOpenShmFails, Truncate, TruncateFails, CreateMap,
         CreateMapFails, OpenSem, OpenSemFails, CheckSems, Attach, CallAttach,
         AttachOpen, AttachOpenFails, AttachMap, AttachMapFails, Destroy, Detach,
         CloseShm, CloseSems, DestroyUnlinkSem
<1> QED
  BY <1>1, <1>2 DEF Local, IdsApart

\* create() takes a number that is higher than all before.
LEMMA StepApart == AInv /\ [Next]_vars => AInv'
<1> SUFFICES ASSUME AInv, [Next]_vars PROVE Unguarded' /\ IdsApart'
  BY StepInvariant DEF AInv
<1>1. CASE UNCHANGED vars
  BY <1>1 DEF vars, names, fields, AInv, Unguarded, IdsApart
<1>2. ASSUME NEW o \in Objects, CallCreate(o) PROVE Unguarded' /\ IdsApart'
  <2>1. Unguarded'
    BY <1>2 DEF CallCreate, Goto, fields, AInv, IInv, TypeOK, Unguarded
  <2>2. \A p \in Objects : id'[p] = IF p = o THEN creates + 1 ELSE id[p]
    BY <1>2 DEF CallCreate, AInv, IInv, TypeOK
  <2>3. \A p \in Objects : id[p] \in Nat /\ id[p] < creates + 1
    BY MaxCreatesAssumption DEF AInv, IInv, TypeOK
  <2> QED
    BY <2>1, <2>2, <2>3 DEF AInv, IdsApart
<1>3. ASSUME NEW o \in Objects, Die(o) PROVE Unguarded' /\ IdsApart'
  BY <1>3 DEF Die, AInv, IInv, TypeOK, Unguarded, IdsApart
<1>4. ASSUME NEW o \in Objects, Step(o) PROVE Unguarded' /\ IdsApart'
  BY <1>4, StepUnguarded, StepIds DEF AInv
<1> QED
  BY <1>1, <1>2, <1>3, <1>4 DEF Next

\* The facts about attach() hold in every run.
THEOREM AttachInvariant == Spec => []AInv
<1>1. Init => AInv
  BY InitInvariant DEF AInv, Unguarded, IdsApart, Init
<1> QED
  BY <1>1, StepApart, PTL DEF Spec

\* The queue is never shared: however many processes create, attach, destruct
\* and die on one name, a ring can be used by one object only.
THEOREM NoRingIsShared == Spec => []RingsArePrivate
<1>1. AInv => RingsArePrivate
  <2> SUFFICES ASSUME AInv, NEW o \in Objects, NEW p \in Objects,
                      Usable(o), Usable(p), data[o] = data[p]
               PROVE  o = p
    BY DEF RingsArePrivate
  <2>1. ASSUME NEW x \in Objects, Usable(x)
        PROVE  data[x] = id[x] /\ id[x] # None
    BY <2>1, MaxCreatesAssumption DEF AInv, IInv, Own, Usable, Sems, Ids, None, Invalid
  <2> QED
    BY <2>1 DEF AInv, IdsApart
<1> QED
  BY <1>1, AttachInvariant, PTL

\* An attach() that returned leaves an object with which no enqueue and no
\* dequeue can be called: what main and the tests fall back to is of no use.
THEOREM AttachIsFutile == Spec => []AttachedCannotUse
<1>1. AInv => AttachedCannotUse
  BY DEF AInv, Unguarded, AttachedCannotUse, Usable, Ids, None
<1> QED
  BY <1>1, AttachInvariant, PTL
=============================================================================
