---------------------------- MODULE MCScheduler ----------------------------
(* Small instances of Scheduler for TLC. *)
EXTENDS Scheduler, TLC

CONSTANTS client, t1, t2, t3

\* Main adds two tasks as the server's main does, a client one UnixTask.
ScriptOfThree == (Main :> <<t1, t2>>) @@ (client :> <<t3>>)

\* One task, added by Main; no client.
ScriptOfOne == Main :> <<t1>>

\* Two tasks of Main; no client.
ScriptOfTwo == Main :> <<t1, t2>>

\* No pass through the queue raises a priority (TaskConversion), and t1 goes
\* through no fewer of them than t2, which therefore stays ahead.
Priority == (t1 :> 0) @@ (t2 :> 10) @@ (t3 :> 0)

\* Under PriorityScheduling the processor takes a task of the highest priority
\* among those in the queue, at least when no reordering is under way.
HighestPriorityFirst ==
  [][\A t \in Tasks :
       (/\ pc[Processor] = "get" /\ held'[Processor] = <<t>>
        /\ \A th \in Threads : pc[th] \notin Reordering)
         => \A u \in Tasks : Positions(queue, u) # {} => Priority[u] <= Priority[t]]_vars
=============================================================================
