--------------------------- MODULE TaskLifecycle ---------------------------
(***************************************************************************)
(* What the scheduler promises for a task: it is added once, waits, runs   *)
(* for a quantum while no other task does, waits again or ends, and leaves *)
(* no other way.  A task ends unfinished only when its class cannot be     *)
(* executed, when the processor is being stopped, or when a call of the    *)
(* thread that has it in hand fails: the wait for a semaphore or the        *)
(* conversion of a record.                                                 *)
(***************************************************************************)
EXTENDS Naturals

CONSTANTS
  Tasks,
  UnixTasks   \* tasks that cannot be executed

VARIABLES
  status,      \* where each task is in its life
  processing,  \* whether the processor is started and not stopped
  failures     \* the calls that failed

vars == <<status, processing, failures>>

Statuses == {"new", "waiting", "running", "finished", "dropped"}

Init ==
  /\ status = [t \in Tasks |-> "new"]
  /\ processing = FALSE
  /\ failures = 0

Become(t, from, to) ==
  /\ status[t] = from
  /\ status' = [status EXCEPT ![t] = to]
  /\ UNCHANGED <<processing, failures>>

Add(t) == Become(t, "new", "waiting")

Run(t) ==
  /\ \A u \in Tasks : status[u] # "running"
  /\ Become(t, "waiting", "running")

Requeue(t) ==
  /\ t \notin UnixTasks
  /\ Become(t, "running", "waiting")

Finish(t) ==
  /\ t \notin UnixTasks
  /\ Become(t, "running", "finished")

Drop(t) ==
  /\ t \in UnixTasks \/ ~processing
  /\ Become(t, "running", "dropped")

Start == ~processing /\ processing' = TRUE /\ UNCHANGED <<status, failures>>

Stop == processing /\ processing' = FALSE /\ UNCHANGED <<status, failures>>

\* What one thread has in hand: the running task, or tasks being reordered.
InOneHand(lost) ==
  \/ \E t \in Tasks : lost = {t} /\ status[t] = "running"
  \/ \A t \in lost : status[t] = "waiting"

Lose(lost) ==
  /\ InOneHand(lost)
  /\ status' = [t \in Tasks |-> IF t \in lost THEN "dropped" ELSE status[t]]
  /\ failures' = failures + 1
  /\ UNCHANGED processing

Next ==
  \/ \E t \in Tasks : Add(t) \/ Run(t) \/ Requeue(t) \/ Finish(t) \/ Drop(t)
  \/ Start
  \/ Stop
  \/ \E lost \in SUBSET Tasks : Lose(lost)

Spec == Init /\ [][Next]_vars
=============================================================================
