--------------------------- MODULE ServerDialogue ---------------------------
(***************************************************************************)
(* ServerDialogue and its clients: main() starts a scheduler and accepts   *)
(* connections for ever, a detached thread handles each of them.  A client *)
(* opens one connection for each command, sends the command and closes.    *)
(* Class Server has the same handle_client and start_server with loggers.  *)
(*                                                                         *)
(* What a command says is abstracted to its operation and to the numbers   *)
(* that follow it: both, not both, or both with a second one that is too    *)
(* large for an int, which handle_client rejects unless it is cut short.    *)
(***************************************************************************)
EXTENDS Integers, FiniteSets

CONSTANTS
  Clients,      \* the processes that run ClientDialogue
  Commands,     \* what their users type
  Descriptors,  \* the descriptors that accept() can return
  MaxSockets,   \* the sockets that a client can have open
  Backlog,      \* connections that wait for accept(), 3 in the code
  MaxCommands,  \* bound: commands of one client
  None

operations == [add |-> 19, sub |-> 18, mul |-> 15, del |-> 16]

\* What a command can be cut to, by its numbers.
Cuts == [none |-> {"none"}, both |-> {"both", "none"},
         overflow |-> {"overflow", "both", "none"}]

Command == [op : STRING, numbers : DOMAIN Cuts]

ASSUME CommandsAssumption == Commands \subseteq Command
ASSUME NoneAssumption ==
  None \notin Command /\ None \notin {operations[o] : o \in DOMAIN operations}

ASSUME BoundAssumption == MaxCommands \in Nat

ASSUME DescriptorsAssumption == IsFiniteSet(Descriptors)

\* The connection of the n-th command of a client.
Connections == Clients \X (1 .. MaxCommands)

ASSUME FreeAssumption == None \notin Connections

VARIABLES
  main,     \* where main() is
  open,     \* the descriptors of the server: the connection of each
  at,       \* where a connection, and then its handler, is
  fd,       \* client_socket of the handler
  got,      \* what the handler has read
  task,     \* the id and static priority of the task the handler has added
  wire,     \* what the client has sent and the server has not read
  client,   \* where send_command is
  count,    \* the number of commands of a client
  typed,    \* the command of a connection
  sockets   \* the connections whose client has its socket open

serverVars == <<main, open, fd, got, task>>
clientVars == <<client, count, typed, sockets>>
vars == <<serverVars, at, wire, clientVars>>

-----------------------------------------------------------------------------
(* main() up to the accept loop.  The result of socket() is tested against *)
(* 0, which a closed stdin would give: the -1 of a failure passes, and then *)
(* setsockopt() fails.                                                      *)

After ==
  [create |-> {"start", "attach"}, attach |-> {"start"}, start |-> {"add_cpu"},
   add_cpu |-> {"add_io"}, add_io |-> {"socket"},
   socket |-> {"setsockopt", "setsockopt_bad"}, setsockopt |-> {"bind"},
   setsockopt_bad |-> {}, bind |-> {"listen"}, listen |-> {"accept"}]

Setup ==
  /\ main \in DOMAIN After
  /\ main' \in After[main]
  /\ UNCHANGED <<open, fd, got, task, at, wire, clientVars>>

\* exit() or an exception that nobody catches: all threads and descriptors go.
Exit ==
  /\ main' = "exit"
  /\ open' = [f \in Descriptors |-> None]
  /\ at' = [k \in Connections |-> IF at[k] = "none" THEN "none" ELSE "done"]
  /\ UNCHANGED <<fd, got, task, wire, clientVars>>

SetupFails == main \in DOMAIN After \ {"create"} /\ Exit

-----------------------------------------------------------------------------
(* The accept loop *)

Queued == {k \in Connections : at[k] = "queued"}
FreeDescriptors == {f \in Descriptors : open[f] = None}

\* Mutant of Accept: the threads capture new_socket by reference.
AcceptByReference(k) ==
  /\ main = "accept"
  /\ at[k] = "queued"
  /\ \E f \in FreeDescriptors :
       /\ open' = [open EXCEPT ![f] = k]
       /\ fd' = [j \in Connections |->
                   IF j = k \/ at[j] = "read" THEN f ELSE fd[j]]
  /\ at' = [at EXCEPT ![k] = "read"]
  /\ UNCHANGED <<main, got, task, wire, clientVars>>

\* Mutant of Accept: what accept() returns is not tested.
AcceptUntested(k) ==
  /\ main = "accept"
  /\ at[k] = "queued"
  /\ \E f \in FreeDescriptors \cup {-1} :
       /\ open' = [open EXCEPT ![f] = k]
       /\ fd' = [fd EXCEPT ![k] = f]
  /\ at' = [at EXCEPT ![k] = "read"]
  /\ UNCHANGED <<main, got, task, wire, clientVars>>

Accept(k) ==
  /\ main = "accept"
  /\ at[k] = "queued"
  /\ \E f \in FreeDescriptors :
       /\ open' = [open EXCEPT ![f] = k]
       /\ fd' = [fd EXCEPT ![k] = f]
  /\ at' = [at EXCEPT ![k] = "read"]
  /\ UNCHANGED <<main, got, task, wire, clientVars>>

\* Mutant of AcceptFails: only the loop ends, main() goes on to stop the scheduler
\* and the handlers to read and add.
AcceptFailsBreaks ==
  /\ main = "accept"
  /\ Queued # {} \/ FreeDescriptors = {}
  /\ main' = "exit"
  /\ UNCHANGED <<open, at, fd, got, task, wire, clientVars>>

\* accept() or the construction of the thread fails; accept() does at once when
\* no descriptor is left.
AcceptFails ==
  /\ main = "accept"
  /\ Queued # {} \/ FreeDescriptors = {}
  /\ Exit

-----------------------------------------------------------------------------
(* handle_client *)

\* A read or a send may stop short.  Without its numbers a command is rejected
\* whatever is left of the operation, which need not be told apart.
Prefixes(command) ==
  {[op |-> command.op, numbers |-> numbers] : numbers \in Cuts[command.numbers]}

\* Where a handler goes with a command that has both numbers.
Lookup(command) == IF command.op \in DOMAIN operations THEN "add" ELSE "close"

Receive(k, command) ==
  /\ got' = [got EXCEPT ![k] = command]
  /\ at' = [at EXCEPT ![k] = IF command # None /\ command.numbers = "both"
                               THEN Lookup(command) ELSE "reject"]
  /\ UNCHANGED <<main, open, fd, task, clientVars>>

\* The connection is the one that the descriptor stands for now.  read() waits
\* until something was sent or the client has closed.
HandlerRead(k) ==
  /\ at[k] = "read"
  /\ LET j == open[fd[k]] IN
       \/ /\ j \in Connections
          /\ wire[j] # None
          /\ \E command \in Prefixes(wire[j]) : Receive(k, command)
          /\ wire' = [wire EXCEPT ![j] = None]
       \/ /\ j = None \/ (j \notin sockets /\ wire[j] = None)
          /\ Receive(k, None)
          /\ UNCHANGED wire

CloseDescriptor(k) == open' = [open EXCEPT ![fd[k]] = None]

\* Mutant of HandlerReject: the branch does not return.
HandlerRejectFallsThrough(k) ==
  /\ at[k] = "reject"
  /\ CloseDescriptor(k)
  /\ at' = [at EXCEPT ![k] = IF got[k] = None THEN "close" ELSE Lookup(got[k])]
  /\ UNCHANGED <<main, fd, got, task, wire, clientVars>>

HandlerReject(k) ==
  /\ at[k] = "reject"
  /\ CloseDescriptor(k)
  /\ at' = [at EXCEPT ![k] = "done"]
  /\ UNCHANGED <<main, fd, got, task, wire, clientVars>>

\* The task's id and its static priority are the number of the operation.
\* scheduler.add_task may wait in enqueue, for ever if the queue stays full.
HandlerAdd(k) ==
  /\ at[k] = "add"
  /\ task' = [task EXCEPT ![k] = operations[got[k].op]]
  /\ at' = [at EXCEPT ![k] = "close"]
  /\ UNCHANGED <<main, open, fd, got, wire, clientVars>>

HandlerAddThrows(k) == at[k] = "add" /\ Exit

HandlerClose(k) ==
  /\ at[k] = "close"
  /\ CloseDescriptor(k)
  /\ at' = [at EXCEPT ![k] = "done"]
  /\ UNCHANGED <<main, fd, got, task, wire, clientVars>>

-----------------------------------------------------------------------------
(* ClientDialogue and send_command *)

Current(c) == <<c, count[c]>>

ClientGoto(c, from, to) ==
  /\ client[c] = from
  /\ client' = [client EXCEPT ![c] = to]

\* An empty line is asked for again, which changes nothing.
ClientEnter(c) ==
  /\ count[c] < MaxCommands
  /\ ClientGoto(c, "prompt", "socket")
  /\ count' = [count EXCEPT ![c] = @ + 1]
  /\ \E command \in Commands :
       typed' = [typed EXCEPT ![<<c, count[c] + 1>>] = command]
  /\ UNCHANGED <<serverVars, at, wire, sockets>>

OpenSockets(c) == {k \in sockets : k[1] = c}

ClientSocket(c) ==
  /\ Cardinality(OpenSockets(c)) < MaxSockets
  /\ ClientGoto(c, "socket", "connect")
  /\ sockets' = sockets \cup {Current(c)}
  /\ UNCHANGED <<serverVars, at, wire, count, typed>>

ClientConnect(c) ==
  /\ main = "accept"
  /\ Cardinality(Queued) < Backlog
  /\ ClientGoto(c, "connect", "send")
  /\ at' = [at EXCEPT ![Current(c)] = "queued"]
  /\ UNCHANGED <<serverVars, wire, count, typed, sockets>>

\* Both return without close(): a socket that did not connect stays open.
ClientFails(c) ==
  /\ ClientGoto(c, "socket", "prompt") \/ ClientGoto(c, "connect", "prompt")
  /\ UNCHANGED <<serverVars, at, wire, count, typed, sockets>>

\* What send() returns is not looked at.
ClientSend(c) ==
  /\ ClientGoto(c, "send", "close")
  /\ \/ \E command \in Prefixes(typed[Current(c)]) :
          wire' = [wire EXCEPT ![Current(c)] = command]
     \/ UNCHANGED wire
  /\ UNCHANGED <<serverVars, at, count, typed, sockets>>

\* Mutant of ClientClose: the socket stays open here as well.
ClientKeepsSocket(c) ==
  /\ ClientGoto(c, "close", "prompt")
  /\ UNCHANGED <<serverVars, at, wire, count, typed, sockets>>

ClientClose(c) ==
  /\ ClientGoto(c, "close", "prompt")
  /\ sockets' = sockets \ {Current(c)}
  /\ UNCHANGED <<serverVars, at, wire, count, typed>>

-----------------------------------------------------------------------------

Init ==
  /\ main = "create"
  /\ open = [f \in Descriptors |-> None]
  /\ at = [k \in Connections |-> "none"]
  /\ fd = [k \in Connections |-> None]
  /\ got = [k \in Connections |-> None]
  /\ task = [k \in Connections |-> None]
  /\ wire = [k \in Connections |-> None]
  /\ client = [c \in Clients |-> "prompt"]
  /\ count = [c \in Clients |-> 0]
  /\ typed = [k \in Connections |-> None]
  /\ sockets = {}

\* The steps of a handler that nothing but its client can delay.
HandlerStep(k) == HandlerRead(k) \/ HandlerReject(k) \/ HandlerClose(k)

\* The rest of a call of send_command.
ClientStep(c) == ClientSocket(c) \/ ClientConnect(c) \/ ClientFails(c)
                   \/ ClientSend(c) \/ ClientClose(c)

Next ==
  \/ Setup \/ SetupFails \/ AcceptFails
  \/ \E k \in Connections :
       Accept(k) \/ HandlerStep(k) \/ HandlerAdd(k) \/ HandlerAddThrows(k)
  \/ \E c \in Clients : ClientEnter(c) \/ ClientStep(c)

Spec == Init /\ [][Next]_vars

\* accept() takes the connections in their order, threads and clients go on.
\* add_task may wait for ever, and a user need not type.
FairSpec ==
  /\ Spec
  /\ \A k \in Connections : /\ WF_vars(Accept(k) \/ AcceptFails)
                            /\ WF_vars(HandlerStep(k))
  /\ \A c \in Clients : WF_vars(ClientStep(c))

-----------------------------------------------------------------------------
(* Properties *)

Handling == {"read", "reject", "add", "close"}
Connecting == {"connect", "send", "close"}

\* The types of all variables; a handler with an operation to add has read one.
TypeOK ==
  /\ main \in DOMAIN After \cup {"accept", "exit"}
  /\ open \in [Descriptors -> Connections \cup {None}]
  /\ at \in [Connections -> {"none", "queued", "done"} \cup Handling]
  /\ fd \in [Connections -> Descriptors \cup {None}]
  /\ got \in [Connections -> Command \cup {None}]
  /\ task \in [Connections -> {operations[o] : o \in DOMAIN operations} \cup {None}]
  /\ wire \in [Connections -> Command \cup {None}]
  /\ client \in [Clients -> {"prompt", "socket"} \cup Connecting]
  /\ count \in [Clients -> 0 .. MaxCommands]
  /\ typed \in [Connections -> Command \cup {None}]
  /\ sockets \subseteq Connections

\* The descriptors in use and the handlers at work belong together one to one:
\* no handler reads or closes the connection of another, and none leaves its
\* descriptor open.  (new_socket goes to the thread by value; handle_client
\* closes once on every path.)
HandlersOwnTheirSockets ==
  /\ \A k \in Connections :
       at[k] \in Handling => fd[k] \in Descriptors /\ open[fd[k]] = k
  /\ \A f \in Descriptors :
       open[f] # None => at[open[f]] \in Handling /\ fd[open[f]] = f

\* A task that a handler has added is the one its own client asked for, with a
\* command of a known operation and two numbers, however short the reads and sends
\* were.  (A second number out of range makes no command, but cut short it does.)
TaskIsOfItsCommand ==
  \A k \in Connections :
    task[k] # None =>
      /\ typed[k] # None /\ typed[k].numbers # "none"
      /\ typed[k].op \in DOMAIN operations
      /\ task[k] = operations[typed[k].op]

\* What CommandService sees of the server and of a connection.
Stage(m) ==
  CASE m = "exit" -> "stopped" [] m = "accept" -> "serving" [] OTHER -> "starting"

Phase(a) ==
  CASE a = "none" -> "none" [] a = "queued" -> "waiting" [] a = "done" -> "ended"
    [] OTHER -> "served"

\* The commands that handle_client accepts, some of them only cut short.
Acceptable == [op : DOMAIN operations, numbers : {"both", "overflow"}]

Service == INSTANCE CommandService WITH
  Requests <- Commands,
  TaskOf <- [command \in Acceptable |-> operations[command.op]],
  Limit <- Cardinality(Descriptors),
  up <- Stage(main), status <- [k \in Connections |-> Phase(at[k])],
  asked <- typed, added <- task

\* The server, its handlers and its clients implement the service: connections
\* wait and are served within the limits, a command adds no task but its own and
\* only while its connection is served, and an exit ends them all, whatever
\* descriptor numbers are used again and however short reads and sends are.
ImplementsService == Service!Spec

\* A client has only the socket of its present call open and those of calls
\* that did not connect, which stay open.
OnlyFailedConnectsLeak ==
  \A k \in sockets :
    \/ k = Current(k[1]) /\ client[k[1]] \in Connecting
    \/ at[k] = "none"

\* Every connection gets a handler that closes it or comes as far as add_task,
\* unless the server exits.
ConnectionsAreHandled ==
  \A k \in Connections :
    at[k] = "queued" ~> (at[k] \in {"add", "done"} \/ main = "exit")

=============================================================================
