-------------------------- MODULE ProcessorSystem --------------------------
(***************************************************************************)
(* A TaskProcessor without a scheduler, as its tests use it: Main adds     *)
(* tasks and starts and stops the processor, as often as it likes; the     *)
(* other callers add tasks all the while.  Nobody reorders the queue.      *)
(***************************************************************************)
EXTENDS TaskProcessor

CONSTANT Main   \* the caller that starts and stops the processor

ASSUME MainAssumption == Main \in Callers

vars == <<queueVars, processorVars>>

Add(th) ==
  /\ pc[th] \in {"idle", "started"}
  /\ AddOwnTask(th)
  /\ UNCHANGED <<pc, held, processorVars>>

\* A start() of a processor that is started ends the program; a stop() of one
\* that is not does nothing.
Start == StartProcessor(Main, "idle", "started")

Stop == StopProcessor(Main, "started", "join")

Join == JoinProcessor(Main, "join", "idle")

Init ==
  /\ queue = <<>>
  /\ pc = [th \in Callers \cup {Processor} |->
             IF th = Processor THEN "exit" ELSE "idle"]
  /\ held = [th \in {Processor} |-> <<>>]
  /\ todo = Script
  /\ processing = FALSE
  /\ finished = {}
  /\ dropped = {}
  /\ failures = 0

Next ==
  \/ ProcessTasks
  \/ ProcessorFails
  \/ \E th \in Callers : Add(th)
  \/ Start
  \/ Stop
  \/ Join

Spec == Init /\ [][Next]_vars

\* Every thread that can run does.  Main need not call stop(), no wait need fail.
FairSpec ==
  /\ Spec
  /\ WF_vars(ProcessTasks)
  /\ \A th \in Callers : WF_vars(Add(th))
  /\ WF_vars(Join)

-----------------------------------------------------------------------------
(* Properties *)

TypeOK ==
  /\ ProcessorTypeOK
  /\ pc[Main] \in {"idle", "started", "join"}
  /\ \A th \in Callers \ {Main} : pc[th] = "idle"

\* Between task_count() > 0 and get_next_task() the queue cannot run empty:
\* nobody else takes from it, so the processor never blocks in dequeue.
CountStillTrue == pc[Processor] = "get" => queue # <<>>

\* The processor waits to put a task back into a queue that stays full.
Gridlocked == pc[Processor] = "add" /\ Len(queue) = Capacity

\* A started processor executes every task that is in the queue, whatever the
\* callers add behind it, unless it is stopped or gridlocked.
EveryTaskServed ==
  \A t \in Tasks :
    (processing /\ Positions(queue, t) # {})
      ~> (held[Processor] = <<t>> \/ ~processing \/ []Gridlocked)

\* The tasks that are executed before t is.
Before(s, t) == {s[i] : i \in {n \in DOMAIN s : \E j \in Positions(s, t) : n < j}}

\* Round robin: a task that is added or put back gets behind all that wait, so
\* that fewer and fewer tasks are before a waiting one, and it leaves the queue
\* as the first.  Its turn comes after one quantum of each of them at most.
TurnsInOrder ==
  [][\A t \in Tasks :
       Positions(queue, t) # {} =>
         IF Positions(queue', t) # {}
         THEN Before(queue', t) \subseteq Before(queue, t)
         ELSE Before(queue, t) = {}]_vars

\* TaskProcessor::stop() returns: the loop ends and the thread is joined.
StopReturns == (pc[Main] = "join") ~> (pc[Main] = "idle")

\* A full queue is the one thing that keeps stop() from returning.
StopReturnsUnlessGridlocked ==
  (pc[Main] = "join") ~> (pc[Main] = "idle" \/ []Gridlocked)
=============================================================================
