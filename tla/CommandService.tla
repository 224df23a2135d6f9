--------------------------- MODULE CommandService ---------------------------
(***************************************************************************)
(* What the server and its clients promise about commands, without         *)
(* descriptors, reads and threads.  A command is entered, its connection   *)
(* waits to be accepted, is served and ends; a few may wait and a few may  *)
(* be served at a time.  While it is served, an acceptable command adds    *)
(* its own task, once.  The service may stop at any time, which ends all   *)
(* connections.                                                            *)
(***************************************************************************)
EXTENDS FiniteSets, Naturals

CONSTANTS
  Connections,
  Requests,    \* the commands
  TaskOf,      \* the task of each acceptable command
  Backlog,     \* connections that may wait
  Limit,       \* connections that may be served at a time
  None

VARIABLES
  up,       \* whether the service is starting, serving or stopped
  status,   \* where each connection is in its life
  asked,    \* the command of a connection
  added     \* the task that it has added

vars == <<up, status, asked, added>>

Init ==
  /\ up = "starting"
  /\ status = [k \in Connections |-> "none"]
  /\ asked = [k \in Connections |-> None]
  /\ added = [k \in Connections |-> None]

InState(s) == {k \in Connections : status[k] = s}

Open == up = "starting" /\ up' = "serving" /\ UNCHANGED <<status, asked, added>>

Enter(k) ==
  /\ status[k] = "none"
  /\ asked[k] = None
  /\ \E request \in Requests : asked' = [asked EXCEPT ![k] = request]
  /\ UNCHANGED <<up, status, added>>

Become(k, from, to) ==
  /\ up = "serving"
  /\ status[k] = from
  /\ status' = [status EXCEPT ![k] = to]
  /\ UNCHANGED <<up, asked, added>>

Connect(k) ==
  /\ asked[k] # None
  /\ Cardinality(InState("waiting")) < Backlog
  /\ Become(k, "none", "waiting")

Accept(k) ==
  /\ Cardinality(InState("served")) < Limit
  /\ Become(k, "waiting", "served")

AddTask(k) ==
  /\ up = "serving"
  /\ status[k] = "served"
  /\ asked[k] \in DOMAIN TaskOf
  /\ added[k] = None
  /\ added' = [added EXCEPT ![k] = TaskOf[asked[k]]]
  /\ UNCHANGED <<up, status, asked>>

Finish(k) == Become(k, "served", "ended")

Stop ==
  /\ up # "stopped"
  /\ up' = "stopped"
  /\ status' = [k \in Connections |-> IF status[k] = "none" THEN "none" ELSE "ended"]
  /\ UNCHANGED <<asked, added>>

Next ==
  \/ Open \/ Stop
  \/ \E k \in Connections :
       Enter(k) \/ Connect(k) \/ Accept(k) \/ AddTask(k) \/ Finish(k)

Spec == Init /\ [][Next]_vars

=============================================================================
