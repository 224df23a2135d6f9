------------------------ MODULE TaskProcessorProofs ------------------------
(***************************************************************************)
(* That a task is in one place, for both systems that TaskProcessor is a   *)
(* part of: each of their steps moves one task from one container (a list  *)
(* of tasks or an end) to another, or none.                                *)
(***************************************************************************)
EXTENDS TaskProcessor, FiniteSetTheorems, TLAPS

In(s, t) == \E i \in DOMAIN s : s[i] = t

Once(s, t) == \A i, j \in DOMAIN s : s[i] = t /\ s[j] = t => i = j

Todo(th) == <<"todo", th>>
Held(th) == <<"held", th>>
Queue == <<"all", "queue">>
Finished == <<"all", "finished">>
Dropped == <<"all", "dropped">>

Containers ==
  {Todo(th) : th \in Callers} \cup {Held(th) : th \in DOMAIN held}
    \cup {Queue, Finished, Dropped}

Contains(c, t) ==
  \/ c[1] = "todo" /\ In(todo[c[2]], t)
  \/ c[1] = "held" /\ In(held[c[2]], t)
  \/ c = Queue /\ In(queue, t)
  \/ c = Finished /\ t \in finished
  \/ c = Dropped /\ t \in dropped

OnceEverywhere(t) ==
  /\ Once(queue, t)
  /\ \A th \in Callers : Once(todo[th], t)
  /\ \A th \in DOMAIN held : Once(held[th], t)

InOneContainer(t) ==
  \E c \in Containers :
    Contains(c, t) /\ \A d \in Containers : Contains(d, t) => d = c

Unique == \A t \in Tasks : OnceEverywhere(t) /\ InOneContainer(t)

\* The types that the lemmas need.
Lists ==
  /\ queue \in Seq(Tasks)
  /\ todo \in [Callers -> Seq(Tasks)]
  /\ held \in [DOMAIN held -> Seq(Tasks)]
  /\ Processor \in DOMAIN held

\* A step that takes task u out of container a and puts it into container b.
Moves(u, a, b) ==
  /\ u \in Tasks /\ a \in Containers /\ b \in Containers /\ a # b
  /\ Contains(a, u)
  /\ Containers' = Containers
  /\ \A t \in Tasks : OnceEverywhere(t)'
  /\ \A t \in Tasks, c \in Containers :
       Contains(c, t)' <=> IF t = u THEN c = b ELSE Contains(c, t)

-----------------------------------------------------------------------------
(* Lists *)

\* Taking the first element out of a list.
LEMMA HeadAndTail ==
  ASSUME NEW S, NEW s \in Seq(S), s # <<>>
  PROVE  /\ Head(s) \in S /\ Tail(s) \in Seq(S)
         /\ In(s, Head(s))
         /\ \A t : In(s, t) <=> t = Head(s) \/ In(Tail(s), t)
         /\ \A t : Once(s, t) => Once(Tail(s), t)
         /\ Once(s, Head(s)) => ~In(Tail(s), Head(s))
  <1>1. /\ Len(s) \in Nat \ {0} /\ DOMAIN s = 1 .. Len(s)
        /\ DOMAIN Tail(s) = 1 .. (Len(s) - 1)
        /\ \A i \in 1 .. (Len(s) - 1) : Tail(s)[i] = s[i + 1]
        /\ Head(s) = s[1]
    OBVIOUS
  <1>2. Head(s) \in S /\ Tail(s) \in Seq(S) /\ In(s, Head(s))
    BY <1>1 DEF In
  <1>3. ASSUME NEW t PROVE In(s, t) <=> t = Head(s) \/ In(Tail(s), t)
    <2>1. ASSUME NEW i \in DOMAIN s, s[i] = t, t # Head(s) PROVE In(Tail(s), t)
      <3>1. i - 1 \in 1 .. (Len(s) - 1)
        BY <1>1, <2>1
      <3>2. Tail(s)[i - 1] = s[(i - 1) + 1]
        BY <1>1, <3>1
      <3> QED
        BY <1>1, <2>1, <3>1, <3>2 DEF In
    <2>2. ASSUME NEW i \in DOMAIN Tail(s), Tail(s)[i] = t PROVE In(s, t)
      <3>1. i + 1 \in DOMAIN s /\ s[i + 1] = t
        BY <1>1, <2>2
      <3> QED
        BY <3>1 DEF In
    <2> QED
      BY <1>2, <2>1, <2>2 DEF In
  <1>4. ASSUME NEW t, Once(s, t) PROVE Once(Tail(s), t)
    <2> SUFFICES ASSUME NEW i \in DOMAIN Tail(s), NEW j \in DOMAIN Tail(s),
                        Tail(s)[i] = t, Tail(s)[j] = t
                 PROVE  i = j
      BY DEF Once
    <2>1. i + 1 \in DOMAIN s /\ j + 1 \in DOMAIN s /\ s[i + 1] = t /\ s[j + 1] = t
      BY <1>1
    <2>2. i + 1 = j + 1
      BY <1>4, <2>1 DEF Once
    <2> QED
      BY <1>1, <2>2
  <1>5. ASSUME Once(s, Head(s)), In(Tail(s), Head(s)) PROVE FALSE
    <2>1. PICK i \in DOMAIN Tail(s) : Tail(s)[i] = Head(s)
      BY <1>5 DEF In
    <2>2. i + 1 \in DOMAIN s /\ s[i + 1] = s[1] /\ 1 \in DOMAIN s
      BY <1>1, <2>1
    <2>3. i + 1 = 1
      BY <1>1, <1>5, <2>2 DEF Once
    <2> QED
      BY <1>1, <2>3
  <1> QED
    BY <1>2, <1>3, <1>4, <1>5

\* Putting an element at the end of a list.
LEMMA Appending ==
  ASSUME NEW S, NEW s \in Seq(S), NEW u \in S
  PROVE  /\ Append(s, u) \in Seq(S)
         /\ \A t : In(Append(s, u), t) <=> t = u \/ In(s, t)
         /\ \A t : Once(s, t) /\ (t = u => ~In(s, t)) => Once(Append(s, u), t)
  <1>1. /\ Len(s) \in Nat /\ DOMAIN s = 1 .. Len(s)
        /\ DOMAIN Append(s, u) = 1 .. (Len(s) + 1)
        /\ \A i \in 1 .. Len(s) : Append(s, u)[i] = s[i]
        /\ Append(s, u)[Len(s) + 1] = u
    OBVIOUS
  <1>2. \A i \in DOMAIN Append(s, u) : i = Len(s) + 1 \/ i \in DOMAIN s
    BY <1>1
  <1> QED
    BY <1>1, <1>2 DEF In, Once

\* A list that something was put into is not empty.
LEMMA AppendIsNotEmpty ==
  ASSUME NEW S, NEW s \in Seq(S), NEW u \in S
  PROVE  Append(s, u) # <<>>
  <1>1. Len(Append(s, u)) = Len(s) + 1 /\ Len(s) \in Nat
    OBVIOUS
  <1>2. Len(<<>>) = 0
    OBVIOUS
  <1> QED
    BY <1>1, <1>2

-----------------------------------------------------------------------------
(* Containers *)

\* The containers are different from each other.
LEMMA ContainerFacts ==
  /\ \A th \in Callers : Todo(th) \in Containers
  /\ \A th \in DOMAIN held : Held(th) \in Containers
  /\ {Queue, Finished, Dropped} \subseteq Containers
  /\ \A th, o : Todo(th) # Held(o)
  /\ \A th, c : c \in {Queue, Finished, Dropped} => Todo(th) # c /\ Held(th) # c
  /\ Queue # Finished /\ Queue # Dropped /\ Finished # Dropped
  /\ \A th, o : (Todo(th) = Todo(o) => th = o) /\ (Held(th) = Held(o) => th = o)
  BY DEF Containers, Todo, Held, Queue, Finished, Dropped

\* What each container contains.
LEMMA ContainsFacts ==
  ASSUME NEW t
  PROVE  /\ \A th : Contains(Todo(th), t) <=> In(todo[th], t)
         /\ \A th : Contains(Held(th), t) <=> In(held[th], t)
         /\ Contains(Queue, t) <=> In(queue, t)
         /\ Contains(Finished, t) <=> t \in finished
         /\ Contains(Dropped, t) <=> t \in dropped
  BY DEF Contains, Todo, Held, Queue, Finished, Dropped

\* The same after a step.
LEMMA ContainsNextFacts ==
  ASSUME NEW t
  PROVE  /\ \A th : Contains(Todo(th), t)' <=> In(todo'[th], t)
         /\ \A th : Contains(Held(th), t)' <=> In(held'[th], t)
         /\ Contains(Queue, t)' <=> In(queue', t)
         /\ Contains(Finished, t)' <=> t \in finished'
         /\ Contains(Dropped, t)' <=> t \in dropped'
  BY DEF Contains, Todo, Held, Queue, Finished, Dropped

\* A move leaves every task in one container.
LEMMA MovesKeepUnique ==
  ASSUME Unique, NEW u, NEW a, NEW b, Moves(u, a, b)
  PROVE  Unique'
  <1> SUFFICES ASSUME NEW t \in Tasks PROVE InOneContainer(t)'
    BY DEF Moves, Unique
  <1>1. CASE t = u
    BY <1>1 DEF Moves, InOneContainer
  <1>2. CASE t # u
    BY <1>2 DEF Moves, Unique, InOneContainer
  <1> QED
    BY <1>1, <1>2

\* So does a step that touches no container.
LEMMA StutterKeepsUnique ==
  ASSUME Unique, UNCHANGED <<queue, todo, held, finished, dropped>>
  PROVE  Unique'
  BY DEF Unique, OnceEverywhere, InOneContainer, Contains, Containers

\* A container that a unique task is in is the only one.
LEMMA OnlyThere ==
  ASSUME Unique, NEW u \in Tasks, NEW a \in Containers, Contains(a, u)
  PROVE  \A c \in Containers : Contains(c, u) <=> c = a
  BY DEF Unique, InOneContainer

\* What has to be shown of a move: container a loses u, container b gets it, and
\* nothing else changes.
Changed(u, a, b, c, t, before, after) ==
  after <=> (c = b /\ t = u) \/ (before /\ ~(c = a /\ t = u))

\* A step is a move if it changes each container as a move does.
LEMMA MoveByCases ==
  ASSUME Unique, NEW u \in Tasks, NEW a \in Containers, NEW b \in Containers,
         a # b, Contains(a, u),
         DOMAIN held' = DOMAIN held,
         \A t \in Tasks : OnceEverywhere(t)',
         \A t \in Tasks : \A th \in Callers :
           Changed(u, a, b, Todo(th), t, In(todo[th], t), In(todo'[th], t)),
         \A t \in Tasks : \A th \in DOMAIN held :
           Changed(u, a, b, Held(th), t, In(held[th], t), In(held'[th], t)),
         \A t \in Tasks :
           /\ Changed(u, a, b, Queue, t, In(queue, t), In(queue', t))
           /\ Changed(u, a, b, Finished, t, t \in finished, t \in finished')
           /\ Changed(u, a, b, Dropped, t, t \in dropped, t \in dropped')
  PROVE  Moves(u, a, b)
  <1>1. Containers' = Containers
    BY DEF Containers
  <1>2. ASSUME NEW t \in Tasks, NEW c \in Containers
        PROVE  Changed(u, a, b, c, t, Contains(c, t), Contains(c, t)')
    <2>1. ASSUME NEW th \in Callers, c = Todo(th)
          PROVE  Changed(u, a, b, c, t, Contains(c, t), Contains(c, t)')
      BY <2>1, ContainsFacts, ContainsNextFacts DEF Changed
    <2>2. ASSUME NEW th \in DOMAIN held, c = Held(th)
          PROVE  Changed(u, a, b, c, t, Contains(c, t), Contains(c, t)')
      BY <2>2, ContainsFacts, ContainsNextFacts DEF Changed
    <2>3. CASE c \in {Queue, Finished, Dropped}
      BY <2>3, ContainsFacts, ContainsNextFacts DEF Changed
    <2> QED
      BY <2>1, <2>2, <2>3 DEF Containers
  <1>3. \A c \in Containers : Contains(c, u) <=> c = a
    BY OnlyThere
  <1> QED
    BY <1>1, <1>2, <1>3 DEF Moves, Changed

-----------------------------------------------------------------------------
(* The steps *)

\* add_task by a caller moves the head of its script into the queue.
LEMMA AddOwnTaskMoves ==
  ASSUME Unique, Lists, NEW th \in Callers, AddOwnTask(th),
         UNCHANGED <<held, finished, dropped>>
  PROVE  Lists' /\ \E u \in Tasks : Moves(u, Todo(th), Queue)
  <1>1. /\ todo[th] \in Seq(Tasks) /\ todo[th] # <<>> /\ queue \in Seq(Tasks)
        /\ queue' = Append(queue, Head(todo[th]))
        /\ todo' = [todo EXCEPT ![th] = Tail(todo[th])]
    BY DEF Lists, AddOwnTask, AddTask
  <1>2. PICK u \in Tasks : u = Head(todo[th])
    BY <1>1
  <1>3. /\ In(todo[th], u) /\ Tail(todo[th]) \in Seq(Tasks)
        /\ \A t : In(todo[th], t) <=> t = u \/ In(Tail(todo[th]), t)
        /\ \A t : Once(todo[th], t) => Once(Tail(todo[th]), t)
        /\ Once(todo[th], u) => ~In(Tail(todo[th]), u)
    BY <1>1, <1>2, HeadAndTail
  <1>4. /\ queue' \in Seq(Tasks)
        /\ \A t : In(queue', t) <=> t = u \/ In(queue, t)
        /\ \A t : Once(queue, t) /\ (t = u => ~In(queue, t)) => Once(queue', t)
    BY <1>1, <1>2, Appending
  <1>5. /\ todo' \in [Callers -> Seq(Tasks)] /\ todo'[th] = Tail(todo[th])
        /\ \A o \in Callers \ {th} : todo'[o] = todo[o]
        /\ held' = held /\ finished' = finished /\ dropped' = dropped
    BY <1>1, <1>3 DEF Lists
  <1>6. Contains(Todo(th), u) /\ ~In(queue, u) /\ Once(todo[th], u)
    BY <1>3, OnlyThere, ContainsFacts, ContainerFacts DEF Unique, OnceEverywhere
  <1>7. Lists'
    BY <1>4, <1>5 DEF Lists
  <1>8. \A t \in Tasks : OnceEverywhere(t)'
    BY <1>3, <1>4, <1>5, <1>6 DEF Unique, OnceEverywhere
  <1>9. \A t \in Tasks : \A o \in Callers :
          Changed(u, Todo(th), Queue, Todo(o), t, In(todo[o], t), In(todo'[o], t))
    BY <1>3, <1>5, <1>6, ContainerFacts DEF Changed
  <1>10. \A t \in Tasks : \A o \in DOMAIN held :
           Changed(u, Todo(th), Queue, Held(o), t, In(held[o], t), In(held'[o], t))
    BY <1>5, ContainerFacts DEF Changed
  <1>11. \A t \in Tasks :
           /\ Changed(u, Todo(th), Queue, Queue, t, In(queue, t), In(queue', t))
           /\ Changed(u, Todo(th), Queue, Finished, t, t \in finished, t \in finished')
           /\ Changed(u, Todo(th), Queue, Dropped, t, t \in dropped, t \in dropped')
    BY <1>4, <1>5, ContainerFacts DEF Changed
  <1>12. Moves(u, Todo(th), Queue)
    BY <1>5, <1>6, <1>8, <1>9, <1>10, <1>11, MoveByCases, ContainerFacts
  <1> QED
    BY <1>7, <1>12

\* get_next_task, by a reordering or by the processor with empty hands.
LEMMA TakeMoves ==
  ASSUME Unique, Lists, NEW th \in DOMAIN held, NEW u \in Tasks, GetNextTask(u),
         held' = [held EXCEPT ![th] = Append(@, u)],
         UNCHANGED <<todo, finished, dropped>>
  PROVE  Lists' /\ Moves(u, Queue, Held(th))
  <1>1. /\ queue \in Seq(Tasks) /\ queue # <<>> /\ u = Head(queue)
        /\ queue' = Tail(queue) /\ held[th] \in Seq(Tasks)
    BY DEF Lists, GetNextTask
  <1>2. /\ In(queue, u) /\ queue' \in Seq(Tasks)
        /\ \A t : In(queue, t) <=> t = u \/ In(queue', t)
        /\ \A t : Once(queue, t) => Once(queue', t)
        /\ Once(queue, u) => ~In(queue', u)
    BY <1>1, HeadAndTail
  <1>3. /\ Append(held[th], u) \in Seq(Tasks)
        /\ \A t : In(Append(held[th], u), t) <=> t = u \/ In(held[th], t)
        /\ \A t : Once(held[th], t) /\ (t = u => ~In(held[th], t))
                 => Once(Append(held[th], u), t)
    BY <1>1, Appending
  <1>4. /\ held' \in [DOMAIN held -> Seq(Tasks)] /\ DOMAIN held' = DOMAIN held
        /\ held'[th] = Append(held[th], u)
        /\ \A o \in DOMAIN held \ {th} : held'[o] = held[o]
        /\ todo' = todo /\ finished' = finished /\ dropped' = dropped
    BY <1>3 DEF Lists
  <1>5. Contains(Queue, u) /\ ~In(held[th], u) /\ Once(queue, u)
    <2>1. Contains(Queue, u) /\ Once(queue, u)
      BY <1>2, ContainsFacts DEF Unique, OnceEverywhere
    <2>2. ~Contains(Held(th), u)
      BY <2>1, OnlyThere, ContainerFacts
    <2> QED
      BY <2>1, <2>2, ContainsFacts
  <1>6. Lists'
    BY <1>2, <1>4 DEF Lists
  <1>7. \A t \in Tasks : OnceEverywhere(t)'
    BY <1>2, <1>3, <1>4, <1>5 DEF Unique, OnceEverywhere
  <1>8. \A t \in Tasks : \A o \in Callers :
          Changed(u, Queue, Held(th), Todo(o), t, In(todo[o], t), In(todo'[o], t))
    BY <1>4, ContainerFacts DEF Changed
  <1>9. \A t \in Tasks : \A o \in DOMAIN held :
          Changed(u, Queue, Held(th), Held(o), t, In(held[o], t), In(held'[o], t))
    BY <1>3, <1>4, ContainerFacts DEF Changed
  <1>10. \A t \in Tasks :
           /\ Changed(u, Queue, Held(th), Queue, t, In(queue, t), In(queue', t))
           /\ Changed(u, Queue, Held(th), Finished, t, t \in finished, t \in finished')
           /\ Changed(u, Queue, Held(th), Dropped, t, t \in dropped, t \in dropped')
    BY <1>2, <1>4, <1>5, ContainerFacts DEF Changed
  <1>11. Moves(u, Queue, Held(th))
    BY <1>4, <1>5, <1>7, <1>8, <1>9, <1>10, MoveByCases, ContainerFacts
  <1> QED
    BY <1>6, <1>11

\* add_task with the first of the tasks in hand.
LEMMA PutMoves ==
  ASSUME Unique, Lists, NEW th \in DOMAIN held, held[th] # <<>>,
         AddTask(Head(held[th])),
         held' = [held EXCEPT ![th] = Tail(@)],
         UNCHANGED <<todo, finished, dropped>>
  PROVE  Lists' /\ \E u \in Tasks : u = Head(held[th]) /\ Moves(u, Held(th), Queue)
  <1>1. /\ held[th] \in Seq(Tasks) /\ queue \in Seq(Tasks)
        /\ queue' = Append(queue, Head(held[th]))
    BY DEF Lists, AddTask
  <1>2. PICK u \in Tasks : u = Head(held[th])
    BY <1>1
  <1>3. /\ In(held[th], u) /\ Tail(held[th]) \in Seq(Tasks)
        /\ \A t : In(held[th], t) <=> t = u \/ In(Tail(held[th]), t)
        /\ \A t : Once(held[th], t) => Once(Tail(held[th]), t)
        /\ Once(held[th], u) => ~In(Tail(held[th]), u)
    BY <1>1, <1>2, HeadAndTail
  <1>4. /\ queue' \in Seq(Tasks)
        /\ \A t : In(queue', t) <=> t = u \/ In(queue, t)
        /\ \A t : Once(queue, t) /\ (t = u => ~In(queue, t)) => Once(queue', t)
    BY <1>1, <1>2, Appending
  <1>5. /\ held' \in [DOMAIN held -> Seq(Tasks)] /\ DOMAIN held' = DOMAIN held
        /\ held'[th] = Tail(held[th])
        /\ \A o \in DOMAIN held \ {th} : held'[o] = held[o]
        /\ todo' = todo /\ finished' = finished /\ dropped' = dropped
    BY <1>3 DEF Lists
  <1>6. Contains(Held(th), u) /\ ~In(queue, u) /\ Once(held[th], u)
    BY <1>3, OnlyThere, ContainsFacts, ContainerFacts DEF Unique, OnceEverywhere
  <1>7. Lists'
    BY <1>4, <1>5 DEF Lists
  <1>8. \A t \in Tasks : OnceEverywhere(t)'
    BY <1>3, <1>4, <1>5, <1>6 DEF Unique, OnceEverywhere
  <1>9. \A t \in Tasks : \A o \in Callers :
          Changed(u, Held(th), Queue, Todo(o), t, In(todo[o], t), In(todo'[o], t))
    BY <1>5, ContainerFacts DEF Changed
  <1>10. \A t \in Tasks : \A o \in DOMAIN held :
           Changed(u, Held(th), Queue, Held(o), t, In(held[o], t), In(held'[o], t))
    BY <1>3, <1>5, <1>6, ContainerFacts DEF Changed
  <1>11. \A t \in Tasks :
           /\ Changed(u, Held(th), Queue, Queue, t, In(queue, t), In(queue', t))
           /\ Changed(u, Held(th), Queue, Finished, t, t \in finished, t \in finished')
           /\ Changed(u, Held(th), Queue, Dropped, t, t \in dropped, t \in dropped')
    BY <1>4, <1>5, ContainerFacts DEF Changed
  <1>12. Moves(u, Held(th), Queue)
    BY <1>5, <1>6, <1>8, <1>9, <1>10, <1>11, MoveByCases, ContainerFacts
  <1> QED
    BY <1>2, <1>7, <1>12

\* The processor's task comes to one of the two ends.
LEMMA EndMoves ==
  ASSUME Unique, Lists, NEW u \in Tasks, held[Processor] = <<u>>,
         held' = [held EXCEPT ![Processor] = <<>>],
         NEW end \in {Finished, Dropped},
         finished' = IF end = Finished THEN finished \cup {u} ELSE finished,
         dropped' = IF end = Dropped THEN dropped \cup {u} ELSE dropped,
         UNCHANGED <<queue, todo>>
  PROVE  Lists' /\ Moves(u, Held(Processor), end)
  <1>1. /\ held' \in [DOMAIN held -> Seq(Tasks)] /\ DOMAIN held' = DOMAIN held
        /\ held'[Processor] = <<>> /\ Processor \in DOMAIN held
        /\ \A o \in DOMAIN held \ {Processor} : held'[o] = held[o]
        /\ queue' = queue /\ todo' = todo
    BY DEF Lists
  <1>9. /\ \A t : In(held[Processor], t) <=> t = u
        /\ \A t : ~In(held'[Processor], t) /\ Once(held'[Processor], t)
    BY <1>1 DEF In, Once
  <1>2. Contains(Held(Processor), u)
    BY <1>9, ContainsFacts
  <1>3. Lists'
    BY <1>1 DEF Lists
  <1>4. \A t \in Tasks : OnceEverywhere(t)'
    BY <1>1, <1>9 DEF Unique, OnceEverywhere
  <1>5. \A t \in Tasks : \A o \in Callers :
          Changed(u, Held(Processor), end, Todo(o), t, In(todo[o], t), In(todo'[o], t))
    BY <1>1, ContainerFacts DEF Changed
  <1>6. \A t \in Tasks : \A o \in DOMAIN held :
          Changed(u, Held(Processor), end, Held(o), t, In(held[o], t), In(held'[o], t))
    BY <1>1, <1>9, ContainerFacts DEF Changed
  <1>7. \A t \in Tasks :
          /\ Changed(u, Held(Processor), end, Queue, t, In(queue, t), In(queue', t))
          /\ Changed(u, Held(Processor), end, Finished, t, t \in finished, t \in finished')
          /\ Changed(u, Held(Processor), end, Dropped, t, t \in dropped, t \in dropped')
    BY <1>1, ContainerFacts DEF Changed
  <1>8. Moves(u, Held(Processor), end)
    BY <1>1, <1>2, <1>4, <1>5, <1>6, <1>7, MoveByCases, ContainerFacts
  <1> QED
    BY <1>3, <1>8

-----------------------------------------------------------------------------
(* The places of a task *)

\* An element of a list has a position.
LEMMA InPositions ==
  ASSUME NEW s, NEW t
  PROVE  In(s, t) <=> Positions(s, t) # {}
  BY DEF In, Positions

\* The places of a task, one kind after the other.
LEMMA PlacesAre ==
  ASSUME NEW t, NEW p
  PROVE  p \in Places(t) <=>
           \/ \E th \in Callers : \E i \in Positions(todo[th], t) : p = <<"todo", th, i>>
           \/ \E th \in DOMAIN held : \E i \in Positions(held[th], t) : p = <<"held", th, i>>
           \/ \E i \in Positions(queue, t) : p = <<"all", "queue", i>>
           \/ t \in finished /\ p = <<"all", "finished", t>>
           \/ t \in dropped /\ p = <<"all", "dropped", t>>
  <1>1. (\E th \in Callers : p \in {"todo"} \X {th} \X Positions(todo[th], t)) <=>
          \E th \in Callers : \E i \in Positions(todo[th], t) : p = <<"todo", th, i>>
    OBVIOUS
  <1>2. (\E th \in DOMAIN held : p \in {"held"} \X {th} \X Positions(held[th], t)) <=>
          \E th \in DOMAIN held : \E i \in Positions(held[th], t) : p = <<"held", th, i>>
    OBVIOUS
  <1>3. p \in {"all"} \X {"queue"} \X Positions(queue, t) <=>
          \E i \in Positions(queue, t) : p = <<"all", "queue", i>>
    OBVIOUS
  <1>4. p \in {"all"} \X {"finished"} \X (finished \cap {t}) <=>
          t \in finished /\ p = <<"all", "finished", t>>
    OBVIOUS
  <1>5. p \in {"all"} \X {"dropped"} \X (dropped \cap {t}) <=>
          t \in dropped /\ p = <<"all", "dropped", t>>
    OBVIOUS
  <1> QED
    BY <1>1, <1>2, <1>3, <1>4, <1>5 DEF Places

\* One container, and once in it, is one place.
LEMMA UniqueIsOnePlace == Unique => NoTaskLostOrDoubled
  <1> SUFFICES ASSUME Unique, NEW t \in Tasks
               PROVE  Cardinality(Places(t)) = 1
    BY DEF NoTaskLostOrDoubled
  <1>1. PICK c \in Containers :
          Contains(c, t) /\ \A d \in Containers : Contains(d, t) => d = c
    BY DEF Unique, InOneContainer
  <1>2. /\ \A th \in Callers : In(todo[th], t) => c = Todo(th)
        /\ \A th \in DOMAIN held : In(held[th], t) => c = Held(th)
        /\ In(queue, t) => c = Queue
        /\ t \in finished => c = Finished
        /\ t \in dropped => c = Dropped
    BY <1>1, ContainsFacts, ContainerFacts
  <1>3. /\ \A th \in Callers : \A i, j \in Positions(todo[th], t) : i = j
        /\ \A th \in DOMAIN held : \A i, j \in Positions(held[th], t) : i = j
        /\ \A i, j \in Positions(queue, t) : i = j
    BY DEF Unique, OnceEverywhere, Once, Positions
  <1>4. \E p : p \in Places(t)
    <2>1. \/ \E th \in Callers : In(todo[th], t)
          \/ \E th \in DOMAIN held : In(held[th], t)
          \/ In(queue, t) \/ t \in finished \/ t \in dropped
      BY <1>1, ContainsFacts DEF Containers
    <2>2. ASSUME NEW th \in Callers, In(todo[th], t) PROVE \E p : p \in Places(t)
      <3>1. PICK i \in Positions(todo[th], t) : TRUE
        BY <2>2, InPositions
      <3>2. <<"todo", th, i>> \in Places(t)
        BY PlacesAre
      <3> QED
        BY <3>2
    <2>3. ASSUME NEW th \in DOMAIN held, In(held[th], t) PROVE \E p : p \in Places(t)
      <3>1. PICK i \in Positions(held[th], t) : TRUE
        BY <2>3, InPositions
      <3>2. <<"held", th, i>> \in Places(t)
        BY PlacesAre
      <3> QED
        BY <3>2
    <2>4. CASE In(queue, t)
      BY <2>4, InPositions, PlacesAre
    <2>5. CASE t \in finished
      BY <2>5, PlacesAre
    <2>6. CASE t \in dropped
      BY <2>6, PlacesAre
    <2> QED
      BY <2>1, <2>2, <2>3, <2>4, <2>5, <2>6
  <1>5. ASSUME NEW p \in Places(t), NEW q \in Places(t) PROVE p = q
    <2> DEFINE InTodo(r) == \E th \in Callers : c = Todo(th) /\
                              \E i \in Positions(todo[th], t) : r = <<"todo", th, i>>
               InHeld(r) == \E th \in DOMAIN held : c = Held(th) /\
                              \E i \in Positions(held[th], t) : r = <<"held", th, i>>
               InQueue(r) == c = Queue /\
                               \E i \in Positions(queue, t) : r = <<"all", "queue", i>>
               AtEnd(r) == \/ c = Finished /\ r = <<"all", "finished", t>>
                           \/ c = Dropped /\ r = <<"all", "dropped", t>>
    <2>1. ASSUME NEW r \in Places(t) PROVE InTodo(r) \/ InHeld(r) \/ InQueue(r) \/ AtEnd(r)
      <3>1. /\ \A th \in Callers : Positions(todo[th], t) # {} => c = Todo(th)
            /\ \A th \in DOMAIN held : Positions(held[th], t) # {} => c = Held(th)
            /\ Positions(queue, t) # {} => c = Queue
        BY <1>2, InPositions
      <3>2. \/ \E th \in Callers : \E i \in Positions(todo[th], t) : r = <<"todo", th, i>>
            \/ \E th \in DOMAIN held : \E i \in Positions(held[th], t) : r = <<"held", th, i>>
            \/ \E i \in Positions(queue, t) : r = <<"all", "queue", i>>
            \/ t \in finished /\ r = <<"all", "finished", t>>
            \/ t \in dropped /\ r = <<"all", "dropped", t>>
        BY <2>1, PlacesAre
      <3> QED
        BY <1>2, <3>1, <3>2
    <2>2. CASE InTodo(p)
      <3>1. InTodo(q)
        BY <2>1, <2>2, ContainerFacts
      <3> QED
        BY <1>3, <2>2, <3>1, ContainerFacts
    <2>3. CASE InHeld(p)
      <3>1. InHeld(q)
        BY <2>1, <2>3, ContainerFacts
      <3> QED
        BY <1>3, <2>3, <3>1, ContainerFacts
    <2>4. CASE InQueue(p)
      <3>1. InQueue(q)
        BY <2>1, <2>4, ContainerFacts
      <3> QED
        BY <1>3, <2>4, <3>1
    <2>5. CASE AtEnd(p)
      <3>1. AtEnd(q)
        BY <2>1, <2>5, ContainerFacts
      <3> QED
        BY <2>5, <3>1, ContainerFacts
    <2> QED
      BY <2>1, <2>2, <2>3, <2>4, <2>5
  <1>6. PICK p : Places(t) = {p}
    BY <1>4, <1>5
  <1> QED
    BY <1>6, FS_Singleton


\* Two lists without repetitions or common elements are no longer than a set
\* that has all their elements.
LEMMA ListsFitIntoSet ==
  ASSUME NEW S, NEW F, IsFiniteSet(F), NEW s \in Seq(S), NEW r \in Seq(S),
         \A x \in S : Once(s, x) /\ Once(r, x) /\ ~(In(s, x) /\ In(r, x)),
         \A x \in S : In(s, x) \/ In(r, x) => x \in F
  PROVE  Len(s) + Len(r) <= Cardinality(F)
  <1> DEFINE n == Len(s)
             m == Len(r)
             f == [i \in 1 .. (n + m) |-> IF i <= n THEN s[i] ELSE r[i - n]]
  <1>1. /\ n \in Nat /\ m \in Nat
        /\ \A i \in 1 .. n : s[i] \in S /\ In(s, s[i])
        /\ \A i \in 1 .. m : r[i] \in S /\ In(r, r[i])
        /\ DOMAIN s = 1 .. n /\ DOMAIN r = 1 .. m
    BY DEF In
  <1>2. \A i \in 1 .. (n + m) :
          IF i <= n THEN i \in 1 .. n /\ f[i] = s[i]
                    ELSE i - n \in 1 .. m /\ f[i] = r[i - n]
    BY <1>1
  <1>3. f \in [1 .. (n + m) -> F]
    BY <1>1, <1>2
  <1>4. ASSUME NEW i \in 1 .. (n + m), NEW j \in 1 .. (n + m), f[i] = f[j]
        PROVE  i = j
    <2>1. CASE i <= n /\ j <= n
      BY <1>1, <1>2, <1>4, <2>1 DEF Once
    <2>2. CASE ~(i <= n) /\ ~(j <= n)
      <3>1. i - n = j - n
        BY <1>1, <1>2, <1>4, <2>2 DEF Once
      <3> QED
        BY <1>1, <3>1
    <2>3. CASE (i <= n) # (j <= n)
      BY <1>1, <1>2, <1>4, <2>3
    <2> QED
      BY <2>1, <2>2, <2>3
  <1> HIDE DEF f
  <1>5. f \in Injection(1 .. (n + m), F)
    BY <1>3, <1>4 DEF Injection, IsInjective
  <1>6. Cardinality(1 .. (n + m)) <= Cardinality(F)
    BY <1>5, FS_Injection
  <1>7. \A k \in Nat : Cardinality(1 .. k) = k
    BY FS_Interval
  <1> HIDE DEF n, m
  <1> QED
    BY <1>1, <1>6, <1>7

\* The tasks that are in the queue or in some thread's hands.
InSystem ==
  {t \in Tasks : \/ Positions(queue, t) # {}
                 \/ \E th \in DOMAIN held : Positions(held[th], t) # {}}

\* As long as no more tasks are in the system than the segment holds, a thread
\* finds slots for all it has in hand, however many threads have taken tasks out
\* and put some back in the meantime: only tasks that were added while others
\* were out can keep a put-back waiting.
RoomToPutBack ==
  Cardinality(InSystem) <= Capacity =>
    \A th \in DOMAIN held : Len(queue) + Len(held[th]) <= Capacity

\* Tasks that are in one place each need no more slots than there are tasks.
LEMMA UniqueLeavesRoom == Unique /\ Lists => RoomToPutBack
  <1> SUFFICES ASSUME Unique, Lists, Cardinality(InSystem) <= Capacity,
                      NEW th \in DOMAIN held
               PROVE  Len(queue) + Len(held[th]) <= Capacity
    BY DEF RoomToPutBack
  <1>1. queue \in Seq(Tasks) /\ held[th] \in Seq(Tasks)
    BY DEF Lists
  <1>2. IsFiniteSet(InSystem) /\ Cardinality(InSystem) \in Nat
    BY TasksAssumption, FS_Subset, FS_CardinalityType DEF InSystem
  <1>3. \A t \in Tasks :
          Once(queue, t) /\ Once(held[th], t) /\ ~(In(queue, t) /\ In(held[th], t))
    BY ContainsFacts, ContainerFacts, OnlyThere DEF Unique, OnceEverywhere
  <1>4. \A t \in Tasks : In(queue, t) \/ In(held[th], t) => t \in InSystem
    BY InPositions DEF InSystem
  <1>5. Len(queue) + Len(held[th]) <= Cardinality(InSystem)
    BY <1>1, <1>2, <1>3, <1>4, ListsFitIntoSet
  <1> QED
    BY <1>1, <1>2, <1>5, CapacityAssumption

\* With a slot for each task there is always one for a task that is in hand.
LEMMA SlotForEachTask ==
  ASSUME Unique, Lists, Cardinality(Tasks) <= Capacity,
         NEW th \in DOMAIN held, held[th] # <<>>
  PROVE  Len(queue) < Capacity
  <1>1. InSystem \in SUBSET Tasks
    BY DEF InSystem
  <1>2. Cardinality(InSystem) \in Nat /\ Cardinality(Tasks) \in Nat
        /\ Cardinality(InSystem) <= Cardinality(Tasks)
    BY <1>1, TasksAssumption, FS_Subset, FS_CardinalityType
  <1>3. Len(queue) + Len(held[th]) <= Capacity
    BY <1>2, UniqueLeavesRoom, CapacityAssumption DEF RoomToPutBack
  <1>4. Len(queue) \in Nat /\ Len(held[th]) \in Nat \ {0}
    BY DEF Lists
  <1> QED
    BY <1>3, <1>4, CapacityAssumption

-----------------------------------------------------------------------------
(* The life of a task *)

StatusIn(c) ==
  IF c \in {Todo(th) : th \in Callers} THEN "new"
  ELSE IF c = Finished THEN "finished"
  ELSE IF c = Dropped THEN "dropped"
  ELSE IF c = Held(Processor) THEN "running"
  ELSE "waiting"

\* The container of a task says where it is in its life.
LEMMA StatusByContainer ==
  ASSUME Unique, Processor \in DOMAIN held, NEW t \in Tasks,
         NEW c \in Containers, Contains(c, t)
  PROVE  statusBar[t] = StatusIn(c)
  <1>1. \A d \in Containers : Contains(d, t) <=> d = c
    BY OnlyThere
  <1>2. /\ \A th \in Callers : Positions(todo[th], t) # {} <=> c = Todo(th)
        /\ Positions(held[Processor], t) # {} <=> c = Held(Processor)
        /\ t \in finished <=> c = Finished
        /\ t \in dropped <=> c = Dropped
    BY <1>1, ContainsFacts, ContainerFacts, InPositions
  <1> QED
    BY <1>2 DEF statusBar, StatusIn

\* The same after a step.
LEMMA StatusByContainerNext ==
  ASSUME Unique', Processor \in DOMAIN held', NEW t \in Tasks,
         NEW c \in Containers', Contains(c, t)'
  PROVE  statusBar'[t] = StatusIn(c)
  <1>1. \A d \in Containers' : Contains(d, t)' <=> d = c
    BY DEF Unique, InOneContainer
  <1>2. /\ \A th \in Callers : Todo(th) \in Containers'
        /\ Held(Processor) \in Containers'
        /\ {Finished, Dropped} \subseteq Containers'
    BY DEF Containers
  <1>3. /\ \A th \in Callers : Positions(todo'[th], t) # {} <=> c = Todo(th)
        /\ Positions(held'[Processor], t) # {} <=> c = Held(Processor)
        /\ t \in finished' <=> c = Finished
        /\ t \in dropped' <=> c = Dropped
    BY <1>1, <1>2, ContainsNextFacts, InPositions
  <1> QED
    BY <1>3 DEF statusBar, StatusIn

\* A move changes the status of the moved task only.
LEMMA StatusOfMove ==
  ASSUME Unique, Unique', Processor \in DOMAIN held, Processor \in DOMAIN held',
         NEW u, NEW a, NEW b, Moves(u, a, b)
  PROVE  /\ statusBar[u] = StatusIn(a)
         /\ statusBar' = [statusBar EXCEPT ![u] = StatusIn(b)]
  <1>1. statusBar[u] = StatusIn(a)
    BY StatusByContainer DEF Moves
  <1>3. statusBar'[u] = StatusIn(b)
    BY StatusByContainerNext DEF Moves
  <1>4. ASSUME NEW t \in Tasks, t # u PROVE statusBar'[t] = statusBar[t]
    <2>1. PICK c \in Containers : Contains(c, t)
      BY DEF Unique, InOneContainer
    <2>2. Contains(c, t)' /\ c \in Containers'
      BY <1>4, <2>1 DEF Moves
    <2> QED
      BY <2>1, <2>2, StatusByContainer, StatusByContainerNext
  <1>5. /\ statusBar = [t \in Tasks |-> statusBar[t]]
        /\ statusBar' = [t \in Tasks |-> statusBar'[t]]
    BY DEF statusBar
  <1> QED
    BY <1>1, <1>3, <1>4, <1>5 DEF Moves

\* The status that goes with each container.
LEMMA StatusFacts ==
  /\ \A th \in Callers : StatusIn(Todo(th)) = "new"
  /\ StatusIn(Queue) = "waiting"
  /\ StatusIn(Held(Processor)) = "running"
  /\ \A th : th # Processor => StatusIn(Held(th)) = "waiting"
  /\ StatusIn(Finished) = "finished"
  /\ StatusIn(Dropped) = "dropped"
  BY ContainerFacts DEF StatusIn

\* What the moves are in the life of a task.
LEMMA LifeOfMove ==
  ASSUME Unique, Unique', Lists, Lists', NEW u, NEW a, NEW b, Moves(u, a, b),
         UNCHANGED <<processing, failures>>
  PROVE  /\ \A th \in Callers : a = Todo(th) /\ b = Queue => Lifecycle!Add(u)
         /\ a = Queue /\ b = Held(Processor) /\ held[Processor] = <<>>
              => Lifecycle!Run(u)
         /\ a = Held(Processor) /\ b = Queue /\ u \notin UnixTasks
              => Lifecycle!Requeue(u)
         /\ a = Held(Processor) /\ b = Finished /\ u \notin UnixTasks
              => Lifecycle!Finish(u)
         /\ a = Held(Processor) /\ b = Dropped /\ (u \in UnixTasks \/ ~processing)
              => Lifecycle!Drop(u)
         /\ \A th : th # Processor /\ {a, b} = {Queue, Held(th)}
              => UNCHANGED Lifecycle!vars
  <1>1. /\ statusBar[u] = StatusIn(a)
        /\ statusBar' = [statusBar EXCEPT ![u] = StatusIn(b)]
    BY StatusOfMove DEF Lists
  <1>2. held[Processor] = <<>> => \A t \in Tasks : statusBar[t] # "running"
    BY DEF statusBar, Positions
  <1>3. statusBar = [t \in Tasks |-> statusBar[t]]
    BY DEF statusBar
  <1>4. ASSUME NEW th, th # Processor, {a, b} = {Queue, Held(th)}
        PROVE  statusBar' = statusBar
    <2>1. StatusIn(a) = "waiting" /\ StatusIn(b) = "waiting"
      BY <1>4, StatusFacts
    <2> QED
      BY <1>1, <1>3, <2>1
  <1>5. \A th \in Callers : a = Todo(th) /\ b = Queue => Lifecycle!Add(u)
    BY <1>1, StatusFacts DEF Lifecycle!Add, Lifecycle!Become
  <1>6. a = Queue /\ b = Held(Processor) /\ held[Processor] = <<>> => Lifecycle!Run(u)
    BY <1>1, <1>2, StatusFacts DEF Lifecycle!Run, Lifecycle!Become
  <1>7. a = Held(Processor) /\ b = Queue /\ u \notin UnixTasks => Lifecycle!Requeue(u)
    BY <1>1, StatusFacts DEF Lifecycle!Requeue, Lifecycle!Become
  <1>8. a = Held(Processor) /\ b = Finished /\ u \notin UnixTasks => Lifecycle!Finish(u)
    BY <1>1, StatusFacts DEF Lifecycle!Finish, Lifecycle!Become
  <1>9. a = Held(Processor) /\ b = Dropped /\ (u \in UnixTasks \/ ~processing)
          => Lifecycle!Drop(u)
    BY <1>1, StatusFacts DEF Lifecycle!Drop, Lifecycle!Become
  <1> QED
    BY <1>4, <1>5, <1>6, <1>7, <1>8, <1>9 DEF Lifecycle!vars

\* A step that touches no container changes no status.
LEMMA StutterKeepsStatus ==
  UNCHANGED <<queue, todo, held, finished, dropped>> => statusBar' = statusBar
  BY DEF statusBar

-----------------------------------------------------------------------------
(* Failing waits *)

\* A thread that lets go of what it has in hand moves all of it to one end.
LEMMA LetGoMoves ==
  ASSUME Unique, Lists, NEW th \in DOMAIN held, LetGo(th)
  PROVE  /\ Lists' /\ Unique' /\ InHand(th) \subseteq Tasks
         /\ Containers' = Containers
         /\ \A t \in Tasks : t \in InHand(th) <=> Contains(Held(th), t)
         /\ \A t \in Tasks, c \in Containers :
              Contains(c, t)' <=> IF t \in InHand(th) THEN c = Dropped ELSE Contains(c, t)
  <1>1. /\ held' \in [DOMAIN held -> Seq(Tasks)] /\ DOMAIN held' = DOMAIN held
        /\ held'[th] = <<>> /\ \A o \in DOMAIN held \ {th} : held'[o] = held[o]
        /\ dropped' = dropped \cup InHand(th)
        /\ queue' = queue /\ todo' = todo /\ finished' = finished
    BY DEF LetGo, Lists
  <1>2. \A t : t \in InHand(th) <=> In(held[th], t)
    BY DEF InHand, In
  <1>3. InHand(th) \subseteq Tasks
    <2>1. held[th] \in Seq(Tasks)
      BY DEF Lists
    <2> QED
      BY <2>1 DEF InHand
  <1>4. Lists'
    BY <1>1 DEF Lists
  <1>5. Containers' = Containers
    BY <1>1 DEF Containers
  <1>6. ASSUME NEW t \in Tasks, NEW c \in Containers
        PROVE  Contains(c, t)' <=> IF t \in InHand(th) THEN c = Dropped ELSE Contains(c, t)
    <2>1. t \in InHand(th) => \A d \in Containers : Contains(d, t) <=> d = Held(th)
      BY <1>2, OnlyThere, ContainsFacts, ContainerFacts
    <2>2. ASSUME NEW o \in Callers, c = Todo(o)
          PROVE  Contains(c, t)' <=> IF t \in InHand(th) THEN c = Dropped ELSE Contains(c, t)
      BY <1>1, <2>1, <2>2, ContainsFacts, ContainsNextFacts, ContainerFacts
    <2>3. ASSUME NEW o \in DOMAIN held, c = Held(o)
          PROVE  Contains(c, t)' <=> IF t \in InHand(th) THEN c = Dropped ELSE Contains(c, t)
      <3>1. CASE o = th
        <4>1. ~In(held'[th], t)
          BY <1>1 DEF In
        <4> QED
          BY <1>2, <2>3, <3>1, <4>1, ContainsFacts, ContainsNextFacts, ContainerFacts
      <3>2. CASE o # th
        BY <1>1, <2>1, <2>3, <3>2, ContainsFacts, ContainsNextFacts, ContainerFacts
      <3> QED
        BY <3>1, <3>2
    <2>4. CASE c \in {Queue, Finished}
      <3>1. Contains(c, t)' <=> Contains(c, t)
        BY <1>1, <2>4, ContainsFacts, ContainsNextFacts
      <3>2. c # Dropped /\ c # Held(th)
        BY <2>4, ContainerFacts
      <3> QED
        BY <2>1, <3>1, <3>2
    <2>5. CASE c = Dropped
      BY <1>1, <2>5, ContainsFacts, ContainsNextFacts
    <2> QED
      BY <2>2, <2>3, <2>4, <2>5 DEF Containers
  <1>7. ASSUME NEW t \in Tasks PROVE OnceEverywhere(t)' /\ InOneContainer(t)'
    <2>1. OnceEverywhere(t)'
      <3>1. Once(held'[th], t)
        BY <1>1 DEF Once
      <3> QED
        BY <1>1, <3>1 DEF Unique, OnceEverywhere
    <2>2. CASE t \in InHand(th)
      BY <1>5, <1>6, <2>1, <2>2, ContainerFacts DEF InOneContainer
    <2>3. CASE t \notin InHand(th)
      BY <1>5, <1>6, <2>1, <2>3 DEF Unique, InOneContainer
    <2> QED
      BY <2>1, <2>2, <2>3
  <1>8. Unique'
    BY <1>7 DEF Unique
  <1>9. \A t \in Tasks : t \in InHand(th) <=> Contains(Held(th), t)
    BY <1>2, ContainsFacts
  <1> QED
    BY <1>3, <1>4, <1>5, <1>6, <1>8, <1>9

\* What is let go was running, one task, or was waiting.
LEMMA LetGoLoses ==
  ASSUME Unique, Lists, NEW th \in DOMAIN held, LetGo(th), failures' = failures + 1,
         th = Processor => \E t \in Tasks : held[th] = <<t>>
  PROVE  Unique' /\ Lists' /\ Lifecycle!Next
  <1> DEFINE lost == InHand(th)
  <1>1. /\ Lists' /\ Unique' /\ lost \subseteq Tasks
        /\ Containers' = Containers
        /\ \A t \in Tasks : t \in lost <=> Contains(Held(th), t)
        /\ \A t \in Tasks, c \in Containers :
             Contains(c, t)' <=> IF t \in lost THEN c = Dropped ELSE Contains(c, t)
    BY LetGoMoves
  <1>2. ASSUME NEW t \in Tasks, t \in lost
        PROVE  statusBar[t] = StatusIn(Held(th)) /\ statusBar'[t] = "dropped"
    <2>1. statusBar[t] = StatusIn(Held(th))
      BY <1>1, <1>2, StatusByContainer, ContainerFacts DEF Lists
    <2>2. Contains(Dropped, t)' /\ Dropped \in Containers'
      BY <1>1, <1>2, ContainerFacts
    <2>3. statusBar'[t] = StatusIn(Dropped)
      BY <1>1, <2>2, StatusByContainerNext DEF Lists
    <2> QED
      BY <2>1, <2>3, StatusFacts
  <1>3. ASSUME NEW t \in Tasks, t \notin lost PROVE statusBar'[t] = statusBar[t]
    <2>1. PICK c \in Containers : Contains(c, t)
      BY DEF Unique, InOneContainer
    <2>2. Contains(c, t)' /\ c \in Containers'
      BY <1>1, <1>3, <2>1
    <2> QED
      BY <1>1, <2>1, <2>2, StatusByContainer, StatusByContainerNext DEF Lists
  <1>4. statusBar' = [t \in Tasks |-> IF t \in lost THEN "dropped" ELSE statusBar[t]]
    <2>1. statusBar' = [t \in Tasks |-> statusBar'[t]]
      BY DEF statusBar
    <2> QED
      BY <1>2, <1>3, <2>1
  <1>5. Lifecycle!InOneHand(lost)
    <2>1. CASE th = Processor
      <3>1. PICK t \in Tasks : held[th] = <<t>>
        BY <2>1
      <3>2. lost = {t}
        BY <3>1 DEF InHand
      <3> QED
        BY <1>2, <2>1, <3>2, StatusFacts DEF Lifecycle!InOneHand
    <2>2. CASE th # Processor
      BY <1>1, <1>2, <2>2, StatusFacts DEF Lifecycle!InOneHand
    <2> QED
      BY <2>1, <2>2
  <1>6. Lifecycle!Lose(lost)
    BY <1>4, <1>5 DEF Lifecycle!Lose, LetGo
  <1> QED
    BY <1>1, <1>6 DEF Lifecycle!Next

-----------------------------------------------------------------------------
(* The steps of the processor *)

\* The processor has a task in its hands while it executes it and puts it back.
HandsFit ==
  /\ pc[Processor] = "execute" => \E t \in Tasks : held[Processor] = <<t>>
  /\ pc[Processor] = "add" => \E t \in Tasks \ UnixTasks : held[Processor] = <<t>>
  /\ pc[Processor] \notin {"execute", "add"} => held[Processor] = <<>>

\* Every step of process_tasks moves a task or none, and is a step of its life.
LEMMA ProcessorStep ==
  ASSUME Unique, Lists, HandsFit, Processor \in DOMAIN pc, ProcessTasks
  PROVE  Unique' /\ Lists' /\ HandsFit' /\ [Lifecycle!Next]_(Lifecycle!vars)
  <1>1. ASSUME ProcessorLoop \/ ProcessorCount
        PROVE  Unique' /\ Lists' /\ HandsFit' /\ UNCHANGED Lifecycle!vars
    BY <1>1, StutterKeepsUnique, StutterKeepsStatus
    DEF ProcessorLoop, ProcessorCount, Goto, processorVars, Lists, HandsFit,
        Lifecycle!vars
  <1>2. ASSUME ProcessorGet
        PROVE  Unique' /\ Lists' /\ HandsFit' /\ Lifecycle!Next
    <2>1. PICK u \in Tasks :
            /\ pc[Processor] = "get" /\ pc' = [pc EXCEPT ![Processor] = "execute"]
            /\ GetNextTask(u)
            /\ held' = [held EXCEPT ![Processor] = <<u>>]
            /\ UNCHANGED <<todo, processing, finished, dropped, failures>>
      BY <1>2 DEF ProcessorGet, Goto, processorVars
    <2>2. held[Processor] = <<>>
      BY <2>1 DEF HandsFit
    <2>3. held' = [held EXCEPT ![Processor] = Append(@, u)]
      BY <2>1, <2>2
    <2>4. Lists' /\ Moves(u, Queue, Held(Processor))
      BY <2>1, <2>3, TakeMoves DEF Lists
    <2>5. Unique' /\ Lifecycle!Run(u)
      BY <2>1, <2>2, <2>4, MovesKeepUnique, LifeOfMove
    <2>6. HandsFit'
      BY <2>1 DEF HandsFit, Lists
    <2> QED
      BY <2>4, <2>5, <2>6 DEF Lifecycle!Next
  <1>3. ASSUME NEW u \in Tasks, NEW end \in {Finished, Dropped},
               held[Processor] = <<u>>,
               Goto(Processor, "execute", "loop"),
               held' = [held EXCEPT ![Processor] = <<>>],
               finished' = IF end = Finished THEN finished \cup {u} ELSE finished,
               dropped' = IF end = Dropped THEN dropped \cup {u} ELSE dropped,
               UNCHANGED <<queue, todo, processing, failures>>,
               end = Finished => u \notin UnixTasks,
               end = Dropped => u \in UnixTasks \/ ~processing
        PROVE  Unique' /\ Lists' /\ HandsFit' /\ Lifecycle!Next
    <2>1. Lists' /\ Moves(u, Held(Processor), end)
      BY <1>3, EndMoves
    <2>2. Unique'
      BY <2>1, MovesKeepUnique
    <2>3. Lifecycle!Finish(u) \/ Lifecycle!Drop(u)
      BY <1>3, <2>1, <2>2, LifeOfMove
    <2>4. HandsFit'
      BY <1>3 DEF HandsFit, Lists, Goto
    <2> QED
      BY <2>1, <2>2, <2>3, <2>4 DEF Lifecycle!Next
  <1>4. ASSUME ProcessorThrow
        PROVE  Unique' /\ Lists' /\ HandsFit' /\ Lifecycle!Next
    BY <1>3, <1>4, UnixTasksAssumption, ContainerFacts DEF ProcessorThrow
  <1>5. ASSUME ProcessorFinish
        PROVE  Unique' /\ Lists' /\ HandsFit' /\ Lifecycle!Next
    BY <1>3, <1>5, ContainerFacts DEF ProcessorFinish
  <1>6. ASSUME ProcessorExpire
        PROVE  Unique' /\ Lists' /\ HandsFit' /\ [Lifecycle!Next]_(Lifecycle!vars)
    <2>1. PICK u \in Tasks \ UnixTasks : held[Processor] = <<u>>
      BY <1>6 DEF ProcessorExpire
    <2>2. CASE processing
      BY <1>6, <2>1, <2>2, StutterKeepsUnique, StutterKeepsStatus
      DEF ProcessorExpire, Goto, Lists, HandsFit, Lifecycle!vars
    <2>3. CASE ~processing
      <3>1. /\ Goto(Processor, "execute", "loop")
            /\ held' = [held EXCEPT ![Processor] = <<>>]
            /\ dropped' = dropped \cup {u}
            /\ UNCHANGED <<queue, todo, processing, finished, failures>>
        BY <1>6, <2>1, <2>3 DEF ProcessorExpire
      <3> QED
        BY <1>3, <2>1, <2>3, <3>1, ContainerFacts
    <2> QED
      BY <2>2, <2>3
  <1>7. ASSUME ProcessorAdd
        PROVE  Unique' /\ Lists' /\ HandsFit' /\ Lifecycle!Next
    <2>1. /\ pc[Processor] = "add" /\ pc' = [pc EXCEPT ![Processor] = "loop"]
          /\ AddTask(Head(held[Processor]))
          /\ held' = [held EXCEPT ![Processor] = <<>>]
          /\ UNCHANGED <<todo, processing, finished, dropped, failures>>
      BY <1>7 DEF ProcessorAdd, Goto, processorVars
    <2>2. PICK t \in Tasks \ UnixTasks : held[Processor] = <<t>>
      BY <2>1 DEF HandsFit
    <2>3. Head(held[Processor]) = t /\ Tail(held[Processor]) = <<>>
            /\ held[Processor] # <<>>
      BY <2>2
    <2>4. held' = [held EXCEPT ![Processor] = Tail(@)]
      BY <2>1, <2>3
    <2>5. Lists' /\ Moves(t, Held(Processor), Queue)
      BY <2>1, <2>3, <2>4, PutMoves DEF Lists
    <2>6. Unique' /\ Lifecycle!Requeue(t)
      BY <2>1, <2>2, <2>5, MovesKeepUnique, LifeOfMove
    <2>7. HandsFit'
      BY <2>1 DEF HandsFit, Lists
    <2> QED
      BY <2>2, <2>5, <2>6, <2>7 DEF Lifecycle!Next
  <1> QED
    BY <1>1, <1>2, <1>4, <1>5, <1>6, <1>7 DEF ProcessTasks

\* A call of the processor that fails.
LEMMA ProcessorFailsStep ==
  ASSUME Unique, Lists, HandsFit, Processor \in DOMAIN pc, ProcessorFails
  PROVE  Unique' /\ Lists' /\ HandsFit' /\ Lifecycle!Next
  <1>1. CASE ProcessorGetFails
    <2>1. /\ UNCHANGED <<queue, held, todo, processing, finished, dropped>>
          /\ failures' = failures + 1
      BY <1>1 DEF ProcessorGetFails, CallFails
    <2>2. Unique' /\ Lists' /\ statusBar' = statusBar
      BY <2>1, StutterKeepsUnique, StutterKeepsStatus DEF Lists
    <2>3. HandsFit'
      BY <1>1, <2>1 DEF ProcessorGetFails, Goto, HandsFit
    <2>4. Lifecycle!Lose({})
      <3>1. statusBar' = [t \in Tasks |-> statusBar[t]]
        BY <2>2 DEF statusBar
      <3> QED
        BY <2>1, <3>1 DEF Lifecycle!Lose, Lifecycle!InOneHand
    <2> QED
      BY <2>2, <2>3, <2>4 DEF Lifecycle!Next
  <1>2. CASE ProcessorConvertFails \/ ProcessorAddFails
    <2>1. /\ pc[Processor] \in {"execute", "add"}
          /\ pc' = [pc EXCEPT ![Processor] = "loop"]
          /\ failures' = failures + 1 /\ LetGo(Processor)
      BY <1>2 DEF ProcessorConvertFails, ProcessorAddFails, CallFails, Goto
    <2>2. \E t \in Tasks : held[Processor] = <<t>>
      BY <2>1 DEF HandsFit
    <2>3. Unique' /\ Lists' /\ Lifecycle!Next
      BY <2>1, <2>2, LetGoLoses DEF Lists
    <2>4. HandsFit'
      BY <2>1 DEF HandsFit, LetGo, Lists
    <2> QED
      BY <2>3, <2>4
  <1> QED
    BY <1>1, <1>2 DEF ProcessorFails

\* A caller adds the next task of its script.
LEMMA AddStep ==
  ASSUME Unique, Lists, NEW th \in Callers, AddOwnTask(th),
         UNCHANGED <<held, finished, dropped, processing, failures>>
  PROVE  Unique' /\ Lists' /\ Lifecycle!Next
  <1>1. PICK u \in Tasks : Lists' /\ Moves(u, Todo(th), Queue)
    BY AddOwnTaskMoves
  <1>2. Unique' /\ Lifecycle!Add(u)
    BY <1>1, MovesKeepUnique, LifeOfMove
  <1> QED
    BY <1>1, <1>2 DEF Lifecycle!Next

\* At the start each task is in one script, once.
LEMMA UniqueAtStart ==
  ASSUME queue = <<>>, todo = Script, finished = {}, dropped = {},
         \A th \in DOMAIN held : held[th] = <<>>
  PROVE  Unique
  <1> SUFFICES ASSUME NEW t \in Tasks PROVE OnceEverywhere(t) /\ InOneContainer(t)
    BY DEF Unique
  <1>1. PICK th \in Callers : \E i \in DOMAIN Script[th] :
          \A o \in Callers : Positions(Script[o], t) = IF o = th THEN {i} ELSE {}
    BY ScriptAssumption
  <1>2. PICK i \in DOMAIN Script[th] :
          \A o \in Callers : Positions(Script[o], t) = IF o = th THEN {i} ELSE {}
    BY <1>1
  <1>3. /\ \A o \in Callers : Once(todo[o], t) /\ (In(todo[o], t) <=> o = th)
    BY <1>2 DEF Positions, Once, In
  <1>4. ~In(queue, t) /\ Once(queue, t)
        /\ \A o \in DOMAIN held : ~In(held[o], t) /\ Once(held[o], t)
    BY DEF In, Once
  <1>5. OnceEverywhere(t)
    BY <1>3, <1>4 DEF OnceEverywhere
  <1>6. Contains(Todo(th), t) /\ Todo(th) \in Containers
    BY <1>3, ContainsFacts, ContainerFacts
  <1>7. ASSUME NEW d \in Containers, Contains(d, t) PROVE d = Todo(th)
    BY <1>3, <1>4, <1>7, ContainsFacts DEF Containers
  <1> QED
    BY <1>5, <1>6, <1>7 DEF InOneContainer

-----------------------------------------------------------------------------
(* Types *)

\* add_task and get_next_task keep the queue within the capacity.
LEMMA QueueBounded ==
  ASSUME queue \in Seq(Tasks), Len(queue) <= Capacity, NEW t \in Tasks,
         AddTask(t) \/ GetNextTask(t)
  PROVE  Len(queue') <= Capacity
  <1>1. CASE AddTask(t)
    <2>1. Len(queue') = Len(queue) + 1 /\ Len(queue) < Capacity /\ Len(queue) \in Nat
      BY <1>1 DEF AddTask
    <2> QED
      BY <2>1, CapacityAssumption
  <1>2. CASE GetNextTask(t)
    <2>1. Len(queue') = Len(queue) - 1 /\ Len(queue) \in Nat
      BY <1>2 DEF GetNextTask
    <2> QED
      BY <2>1, CapacityAssumption
  <1> QED
    BY <1>1, <1>2

\* process_tasks touches its own place and its own hands, and not running_.
LEMMA ProcessorFrame ==
  ASSUME Lists, Processor \in DOMAIN pc, pc = [th \in DOMAIN pc |-> pc[th]], ProcessTasks
  PROVE  /\ pc' = [pc EXCEPT ![Processor] = pc'[Processor]]
         /\ held' = [held EXCEPT ![Processor] = held'[Processor]]
         /\ UNCHANGED <<todo, processing, failures>>
  <1>1. UNCHANGED <<todo, processing, failures>>
    BY DEF ProcessTasks, ProcessorLoop, ProcessorCount, ProcessorGet, ProcessorThrow,
           ProcessorFinish, ProcessorExpire, ProcessorAdd, processorVars
  <1>2. \E at : pc' = [pc EXCEPT ![Processor] = at]
    BY DEF ProcessTasks, ProcessorLoop, ProcessorCount, ProcessorGet, ProcessorThrow,
           ProcessorFinish, ProcessorExpire, ProcessorAdd, Goto
  <1>3. \E hands : held' = [held EXCEPT ![Processor] = hands]
    <2>1. CASE UNCHANGED held
      <3>1. held = [held EXCEPT ![Processor] = held[Processor]]
        BY DEF Lists
      <3> QED
        BY <2>1, <3>1
    <2>2. CASE ~UNCHANGED held
      BY <2>2 DEF ProcessTasks, ProcessorLoop, ProcessorCount, ProcessorGet,
         ProcessorThrow, ProcessorFinish, ProcessorExpire, ProcessorAdd, processorVars
    <2> QED
      BY <2>1, <2>2
  <1> QED
    BY <1>1, <1>2, <1>3 DEF Lists

\* The processor's variables keep their types while it runs.
LEMMA ProcessorKeepsTypes ==
  ASSUME ProcessorTypeOK, Lists, Lists', HandsFit, Processor \in DOMAIN pc,
         pc = [th \in DOMAIN pc |-> pc[th]], ProcessTasks
  PROVE  ProcessorTypeOK'
  <1>1. Len(queue') <= Capacity
    <2>1. CASE UNCHANGED queue
      BY <2>1 DEF ProcessorTypeOK
    <2>2. ASSUME NEW t \in Tasks, AddTask(t) \/ GetNextTask(t)
          PROVE  Len(queue') <= Capacity
      BY <2>2, QueueBounded DEF ProcessorTypeOK
    <2>3. CASE ProcessorGet
      BY <2>2, <2>3 DEF ProcessorGet
    <2>4. CASE ProcessorAdd
      <3>1. PICK t \in Tasks : held[Processor] = <<t>>
        BY <2>4 DEF ProcessorAdd, Goto, HandsFit
      <3> QED
        BY <2>2, <2>4, <3>1 DEF ProcessorAdd
    <2> QED
      BY <2>1, <2>3, <2>4
      DEF ProcessTasks, ProcessorLoop, ProcessorCount, ProcessorThrow,
          ProcessorFinish, ProcessorExpire, processorVars
  <1>2. pc'[Processor] \in {"loop", "count", "get", "execute", "add", "exit"}
    BY DEF ProcessTasks, ProcessorLoop, ProcessorCount, ProcessorGet, ProcessorThrow,
           ProcessorFinish, ProcessorExpire, ProcessorAdd, Goto, processorVars
  <1>3. finished' \subseteq Tasks \ UnixTasks /\ dropped' \subseteq Tasks
    BY UnixTasksAssumption
    DEF ProcessorTypeOK, ProcessTasks, ProcessorLoop, ProcessorCount, ProcessorGet,
        ProcessorThrow, ProcessorFinish, ProcessorExpire, ProcessorAdd, processorVars
  <1> QED
    BY <1>1, <1>2, <1>3, ProcessorFrame DEF ProcessorTypeOK, Lists

\* And when one of its calls fails.
LEMMA ProcessorFailsKeepsTypes ==
  ASSUME ProcessorTypeOK, Lists', HandsFit, Processor \in DOMAIN pc, ProcessorFails
  PROVE  ProcessorTypeOK'
  <1>1. dropped' \subseteq Tasks
    <2>1. CASE ProcessorGetFails
      BY <2>1 DEF ProcessorGetFails, ProcessorTypeOK
    <2>2. CASE ProcessorConvertFails \/ ProcessorAddFails
      <3>1. PICK t \in Tasks : held[Processor] = <<t>>
        BY <2>2 DEF ProcessorConvertFails, ProcessorAddFails, Goto, HandsFit
      <3>2. InHand(Processor) = {t}
        BY <3>1 DEF InHand
      <3> QED
        BY <2>2, <3>2 DEF ProcessorConvertFails, ProcessorAddFails, LetGo, ProcessorTypeOK
    <2> QED
      BY <2>1, <2>2 DEF ProcessorFails
  <1>2. /\ pc'[Processor] = "loop" /\ failures' \in 0..MaxFailures
        /\ UNCHANGED <<queue, todo, processing, finished>>
    BY MaxFailuresAssumption
    DEF ProcessorFails, ProcessorGetFails, ProcessorConvertFails, ProcessorAddFails,
        Goto, CallFails, LetGo,
        ProcessorTypeOK
  <1> QED
    BY <1>1, <1>2 DEF ProcessorTypeOK, Lists

\* And while a caller adds a task.
LEMMA AddKeepsTypes ==
  ASSUME ProcessorTypeOK, Lists', NEW th \in Callers, AddOwnTask(th),
         pc'[Processor] = pc[Processor], UNCHANGED <<held, processorVars>>
  PROVE  ProcessorTypeOK'
  <1>1. Head(todo[th]) \in Tasks /\ AddTask(Head(todo[th]))
    BY DEF AddOwnTask, ProcessorTypeOK
  <1>2. Len(queue') <= Capacity
    BY <1>1, QueueBounded DEF ProcessorTypeOK
  <1> QED
    BY <1>2 DEF ProcessorTypeOK, Lists, processorVars
=============================================================================
