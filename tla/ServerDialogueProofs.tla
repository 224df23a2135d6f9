------------------------ MODULE ServerDialogueProofs ------------------------
(***************************************************************************)
(* The sockets and commands of ServerDialogue for any number of clients,   *)
(* commands, descriptors and any backlog.  A command is followed from the  *)
(* user over the wire to the handler; what arrives is a prefix of it.      *)
(***************************************************************************)
EXTENDS ServerDialogue, FiniteSetTheorems, TLAPS

\* part is what is left of the command that was typed on k.
PrefixOfTyped(part, k) ==
  /\ typed[k] # None
  /\ part.op = typed[k].op
  /\ part.numbers # "none" => typed[k].numbers # "none"

WireIsTyped == \A k \in Connections : wire[k] # None => PrefixOfTyped(wire[k], k)

GotIsTyped == \A k \in Connections : got[k] # None => PrefixOfTyped(got[k], k)

OnlyKnownAreAdded ==
  \A k \in Connections :
    at[k] = "add" =>
      got[k] # None /\ got[k].numbers = "both" /\ got[k].op \in DOMAIN operations

Calling == {"socket"} \cup Connecting

\* The call of send_command in progress has a command and a connection of its own.
CallHasCommand ==
  \A c \in Clients :
    client[c] \in Calling => Current(c) \in Connections /\ typed[Current(c)] # None

NotYetConnected ==
  \A c \in Clients :
    client[c] \in {"socket", "connect"} => at[Current(c)] = "none"

\* Nothing has happened on the connections of later commands.
LaterUntouched ==
  \A k \in Connections :
    k[2] > count[k[1]] => typed[k] = None /\ at[k] = "none" /\ k \notin sockets

IInv ==
  /\ TypeOK
  /\ HandlersOwnTheirSockets
  /\ WireIsTyped
  /\ GotIsTyped
  /\ OnlyKnownAreAdded
  /\ TaskIsOfItsCommand
  /\ CallHasCommand
  /\ NotYetConnected
  /\ LaterUntouched
  /\ OnlyFailedConnectsLeak

-----------------------------------------------------------------------------
(* Facts about the constants *)

\* A connection is a client with the number of its command.
LEMMA ConnectionFacts ==
  /\ \A k \in Connections : k[1] \in Clients /\ k[2] \in 1 .. MaxCommands
                              /\ k = <<k[1], k[2]>>
  /\ \A c \in Clients, n \in 1 .. MaxCommands :
       <<c, n>> \in Connections /\ <<c, n>>[1] = c /\ <<c, n>>[2] = n
  BY DEF Connections


\* Each step of start_server leads to another one, or to the accept loop.
LEMMA Steps ==
  /\ DOMAIN After = {"create", "attach", "start", "add_cpu", "add_io", "socket",
                     "setsockopt", "setsockopt_bad", "bind", "listen"}
  /\ \A m \in DOMAIN After : After[m] \subseteq DOMAIN After \cup {"accept"}
  BY DEF After

\* What read() gets of a command names the same operation, and has no numbers
\* unless the command has.
LEMMA PrefixFacts ==
  ASSUME NEW command \in Command, NEW part \in Prefixes(command)
  PROVE  /\ part \in Command
         /\ part.op = command.op
         /\ part.numbers # "none" => command.numbers # "none"
  <1>1. command.numbers \in {"none", "both", "overflow"} /\ command.op \in STRING
    BY DEF Command, Cuts
  <1>2. PICK numbers \in Cuts[command.numbers] :
          part = [op |-> command.op, numbers |-> numbers]
    BY DEF Prefixes
  <1>3. numbers \in DOMAIN Cuts /\ (numbers # "none" => command.numbers # "none")
    BY <1>1, <1>2 DEF Cuts
  <1> QED
    BY <1>1, <1>2, <1>3 DEF Command

\* Nothing is open, typed or on its way at the start.
LEMMA InitIInv == Init => IInv
  <1> SUFFICES ASSUME Init PROVE IInv
    OBVIOUS
  <1>1. TypeOK
    BY Steps, BoundAssumption DEF Init, TypeOK, Handling, Connecting
  <1> QED
    BY <1>1, ConnectionFacts
    DEF Init, IInv, HandlersOwnTheirSockets, WireIsTyped, GotIsTyped,
        OnlyKnownAreAdded, TaskIsOfItsCommand, CallHasCommand, NotYetConnected,
        LaterUntouched, OnlyFailedConnectsLeak, Handling, Calling, Connecting

\* exit() and std::terminate stop the server; the clients keep what they have.
LEMMA ExitKeeps == IInv /\ Exit => IInv'
  <1> SUFFICES ASSUME IInv, Exit PROVE IInv'
    OBVIOUS
  <1>1. TypeOK'
    BY DEF IInv, TypeOK, Exit, serverVars, clientVars
  <1>2. HandlersOwnTheirSockets'
    BY DEF IInv, TypeOK, HandlersOwnTheirSockets, Exit, Handling
  <1>3. /\ WireIsTyped' /\ GotIsTyped' /\ OnlyKnownAreAdded' /\ TaskIsOfItsCommand'
        /\ CallHasCommand'
    BY DEF IInv, WireIsTyped, GotIsTyped, PrefixOfTyped, OnlyKnownAreAdded,
        TaskIsOfItsCommand, CallHasCommand, Exit, clientVars, Current
  <1>4. NotYetConnected' /\ LaterUntouched' /\ OnlyFailedConnectsLeak'
    BY ConnectionFacts
    DEF IInv, TypeOK, NotYetConnected, LaterUntouched, OnlyFailedConnectsLeak,
        CallHasCommand, Calling, Connecting, Exit, clientVars, Current
  <1> QED
    BY <1>1, <1>2, <1>3, <1>4 DEF IInv

\* start_server up to the accept loop touches no connection.
LEMMA SetupKeeps == IInv /\ Setup => IInv'
  <1> SUFFICES ASSUME IInv, Setup PROVE IInv'
    OBVIOUS
  <1>1. TypeOK'
    BY Steps DEF IInv, TypeOK, Setup, clientVars
  <1> QED
    BY <1>1
    DEF IInv, HandlersOwnTheirSockets, WireIsTyped, GotIsTyped, PrefixOfTyped,
        OnlyKnownAreAdded, TaskIsOfItsCommand, CallHasCommand, NotYetConnected,
        LaterUntouched, OnlyFailedConnectsLeak, Setup, clientVars, Current

-----------------------------------------------------------------------------
(* The server's steps *)

\* accept() gives the connection a descriptor that was free.
LEMMA AcceptKeeps == ASSUME NEW k \in Connections, IInv, Accept(k) PROVE IInv'
  <1>1. PICK f \in Descriptors :
          /\ open[f] = None
          /\ open' = [open EXCEPT ![f] = k]
          /\ fd' = [fd EXCEPT ![k] = f]
    BY DEF Accept, FreeDescriptors
  <1>2. TypeOK'
    BY <1>1 DEF IInv, TypeOK, Accept, clientVars, Handling
  <1>3. HandlersOwnTheirSockets'
    BY <1>1, FreeAssumption DEF IInv, TypeOK, HandlersOwnTheirSockets, Accept, Handling
  <1>4. /\ WireIsTyped' /\ GotIsTyped' /\ OnlyKnownAreAdded' /\ TaskIsOfItsCommand'
        /\ CallHasCommand'
    BY DEF IInv, TypeOK, WireIsTyped, GotIsTyped, PrefixOfTyped, OnlyKnownAreAdded,
        TaskIsOfItsCommand, CallHasCommand, Accept, clientVars, Current
  <1>5. NotYetConnected' /\ LaterUntouched' /\ OnlyFailedConnectsLeak'
    BY ConnectionFacts
    DEF IInv, TypeOK, NotYetConnected, LaterUntouched, OnlyFailedConnectsLeak,
        Accept, clientVars, Current
  <1> QED
    BY <1>2, <1>3, <1>4, <1>5 DEF IInv

\* With the descriptors kept apart, a handler reads what its own client sent.
LEMMA HandlerReadKeeps == ASSUME NEW k \in Connections, IInv, HandlerRead(k) PROVE IInv'
  <1>1. at[k] = "read" /\ open[fd[k]] = k
    BY DEF IInv, HandlersOwnTheirSockets, HandlerRead, Handling
  <1>2. PICK command \in Command \cup {None} :
          /\ Receive(k, command)
          /\ command # None => PrefixOfTyped(command, k)
    <2>1. CASE wire[k] # None /\ \E command \in Prefixes(wire[k]) : Receive(k, command)
      <3>1. PICK command \in Prefixes(wire[k]) : Receive(k, command)
        BY <2>1
      <3>2. wire[k] \in Command /\ PrefixOfTyped(wire[k], k)
        BY <2>1 DEF IInv, TypeOK, WireIsTyped
      <3>3. command \in Command /\ PrefixOfTyped(command, k)
        BY <3>2, PrefixFacts DEF PrefixOfTyped
      <3> QED
        BY <3>1, <3>3
    <2>2. CASE Receive(k, None)
      BY <2>2
    <2> QED
      BY <1>1, <2>1, <2>2 DEF HandlerRead
  <1>3. wire' \in [Connections -> Command \cup {None}]
          /\ \A j \in Connections : wire'[j] # None => wire'[j] = wire[j]
    BY <1>1 DEF IInv, TypeOK, HandlerRead
  <1>4. /\ UNCHANGED <<main, open, fd, task, clientVars>>
        /\ got' = [got EXCEPT ![k] = command]
        /\ at' = [at EXCEPT ![k] = at'[k]]
        /\ at'[k] \in {"add", "close", "reject"}
        /\ at'[k] = "add" => command # None /\ command.numbers = "both"
                               /\ command.op \in DOMAIN operations
    BY <1>2 DEF Receive, Lookup, IInv, TypeOK
  <1>5. TypeOK'
    BY <1>3, <1>4 DEF IInv, TypeOK, clientVars, Handling
  <1>6. HandlersOwnTheirSockets'
    BY <1>1, <1>4 DEF IInv, TypeOK, HandlersOwnTheirSockets, Handling
  <1>7. WireIsTyped' /\ GotIsTyped' /\ OnlyKnownAreAdded'
    BY <1>2, <1>3, <1>4
    DEF IInv, TypeOK, WireIsTyped, GotIsTyped, PrefixOfTyped, OnlyKnownAreAdded,
        clientVars
  <1>8. TaskIsOfItsCommand' /\ CallHasCommand'
    BY <1>4 DEF IInv, TaskIsOfItsCommand, CallHasCommand, clientVars, Current
  <1>9. NotYetConnected' /\ LaterUntouched' /\ OnlyFailedConnectsLeak'
    BY <1>1, <1>4, ConnectionFacts
    DEF IInv, TypeOK, NotYetConnected, LaterUntouched, OnlyFailedConnectsLeak,
        CallHasCommand, Calling, Connecting, clientVars, Current
  <1> QED
    BY <1>5, <1>6, <1>7, <1>8, <1>9 DEF IInv

\* Both ways out of handle_client close the handler's own descriptor.
LEMMA HandlerCloseKeeps ==
  ASSUME NEW k \in Connections, IInv, HandlerReject(k) \/ HandlerClose(k)
  PROVE  IInv'
  <1>1. /\ at[k] \in {"reject", "close"}
        /\ open' = [open EXCEPT ![fd[k]] = None]
        /\ at' = [at EXCEPT ![k] = "done"]
        /\ UNCHANGED <<main, fd, got, task, wire, clientVars>>
    BY DEF HandlerReject, HandlerClose, CloseDescriptor
  <1>2. TypeOK'
    BY <1>1 DEF IInv, TypeOK, clientVars
  <1>3. HandlersOwnTheirSockets'
    BY <1>1, FreeAssumption DEF IInv, TypeOK, HandlersOwnTheirSockets, Handling
  <1>4. /\ WireIsTyped' /\ GotIsTyped' /\ OnlyKnownAreAdded' /\ TaskIsOfItsCommand'
        /\ CallHasCommand'
    BY <1>1
    DEF IInv, TypeOK, WireIsTyped, GotIsTyped, PrefixOfTyped, OnlyKnownAreAdded,
        TaskIsOfItsCommand, CallHasCommand, clientVars, Current
  <1>5. NotYetConnected' /\ LaterUntouched' /\ OnlyFailedConnectsLeak'
    BY <1>1, ConnectionFacts
    DEF IInv, TypeOK, NotYetConnected, LaterUntouched, OnlyFailedConnectsLeak,
        clientVars, Current
  <1> QED
    BY <1>2, <1>3, <1>4, <1>5 DEF IInv

\* scheduler.add_task runs for a command with both numbers and a known operation.
LEMMA HandlerAddKeeps == ASSUME NEW k \in Connections, IInv, HandlerAdd(k) PROVE IInv'
  <1>1. /\ got[k] # None /\ got[k].op \in DOMAIN operations
        /\ PrefixOfTyped(got[k], k) /\ typed[k].numbers # "none"
    BY DEF IInv, HandlerAdd, OnlyKnownAreAdded, GotIsTyped, PrefixOfTyped
  <1>2. TypeOK'
    BY <1>1 DEF IInv, TypeOK, HandlerAdd, clientVars, Handling
  <1>3. HandlersOwnTheirSockets'
    BY DEF IInv, TypeOK, HandlersOwnTheirSockets, HandlerAdd, Handling
  <1>4. TaskIsOfItsCommand'
    BY <1>1 DEF IInv, TypeOK, TaskIsOfItsCommand, PrefixOfTyped, HandlerAdd, clientVars
  <1>5. WireIsTyped' /\ GotIsTyped' /\ OnlyKnownAreAdded' /\ CallHasCommand'
    BY DEF IInv, TypeOK, WireIsTyped, GotIsTyped, PrefixOfTyped, OnlyKnownAreAdded,
        CallHasCommand, HandlerAdd, clientVars, Current
  <1>6. NotYetConnected' /\ LaterUntouched' /\ OnlyFailedConnectsLeak'
    BY ConnectionFacts
    DEF IInv, TypeOK, NotYetConnected, LaterUntouched, OnlyFailedConnectsLeak,
        HandlerAdd, clientVars, Current
  <1> QED
    BY <1>2, <1>3, <1>4, <1>5, <1>6 DEF IInv

-----------------------------------------------------------------------------
(* The client's steps *)

\* The command that a client types has not been used before.
LEMMA ClientEnterKeeps == ASSUME NEW c \in Clients, IInv, ClientEnter(c) PROVE IInv'
  <1> DEFINE k == <<c, count[c] + 1>>
  <1>1. k \in Connections /\ k[1] = c /\ k[2] = count[c] + 1
    BY ConnectionFacts, BoundAssumption DEF IInv, TypeOK, ClientEnter
  <1>2. typed[k] = None /\ at[k] = "none" /\ k \notin sockets
    BY <1>1, BoundAssumption DEF IInv, TypeOK, LaterUntouched
  <1>3. PICK command \in Command : typed' = [typed EXCEPT ![k] = command]
    BY CommandsAssumption DEF ClientEnter
  <1>4. /\ client[c] = "prompt" /\ client' = [client EXCEPT ![c] = "socket"]
        /\ count' = [count EXCEPT ![c] = count[c] + 1]
        /\ UNCHANGED <<main, open, fd, got, task, at, wire, sockets>>
        /\ count[c] < MaxCommands
    BY DEF ClientEnter, ClientGoto, serverVars
  <1>5. TypeOK'
    BY <1>1, <1>3, <1>4, BoundAssumption DEF IInv, TypeOK
  <1>6. HandlersOwnTheirSockets' /\ OnlyKnownAreAdded'
    BY <1>4 DEF IInv, HandlersOwnTheirSockets, OnlyKnownAreAdded
  <1>7. WireIsTyped' /\ GotIsTyped' /\ TaskIsOfItsCommand'
    BY <1>1, <1>2, <1>3, <1>4
    DEF IInv, TypeOK, WireIsTyped, GotIsTyped, TaskIsOfItsCommand, PrefixOfTyped
  <1>8. Current(c)' = k /\ \A d \in Clients \ {c} : Current(d)' = Current(d)
    BY <1>4 DEF Current, IInv, TypeOK
  <1>9. CallHasCommand'
    BY <1>1, <1>3, <1>4, <1>8, NoneAssumption DEF IInv, TypeOK, CallHasCommand, Calling
  <1>10. NotYetConnected'
    BY <1>2, <1>4, <1>8 DEF IInv, TypeOK, NotYetConnected
  <1>11. LaterUntouched'
    BY <1>1, <1>3, <1>4, ConnectionFacts, BoundAssumption
    DEF IInv, TypeOK, LaterUntouched
  <1>12. OnlyFailedConnectsLeak'
    BY <1>4, <1>8, ConnectionFacts
    DEF IInv, TypeOK, OnlyFailedConnectsLeak, Connecting
  <1> QED
    BY <1>5, <1>6, <1>7, <1>9, <1>10, <1>11, <1>12 DEF IInv

\* The steps of a call leave the handlers' variables and the commands alone.
LEMMA ClientStepKeeps == ASSUME NEW c \in Clients, IInv, ClientStep(c) PROVE IInv'
  <1> DEFINE k == Current(c)
  <1>1. client[c] \in Calling /\ k \in Connections /\ typed[k] \in Command
          /\ k[1] = c /\ k[2] = count[c]
    <2>1. client[c] \in Calling
      BY DEF ClientStep, ClientSocket, ClientConnect, ClientFails, ClientSend,
             ClientClose, ClientGoto, Calling, Connecting
    <2> QED
      BY <2>1 DEF IInv, TypeOK, CallHasCommand, Current
  <1>2. UNCHANGED <<main, open, fd, got, task, count, typed>>
    BY DEF ClientStep, ClientSocket, ClientConnect, ClientFails, ClientSend,
           ClientClose, serverVars
  <1>3. \A d \in Clients : Current(d)' = Current(d)
    BY <1>2 DEF Current
  <1>4. /\ at' \in [Connections -> {"none", "queued", "done"} \cup Handling]
        /\ \A j \in Connections : at'[j] = at[j]
             \/ (j = k /\ at[j] = "none" /\ at'[j] = "queued" /\ client[c] = "connect"
                   /\ client'[c] = "send")
    BY <1>1
    DEF IInv, TypeOK, NotYetConnected, ClientStep, ClientSocket, ClientConnect,
        ClientFails, ClientSend, ClientClose, ClientGoto
  <1>5. /\ wire' \in [Connections -> Command \cup {None}]
        /\ \A j \in Connections : wire'[j] = wire[j]
             \/ (j = k /\ wire'[j] \in Prefixes(typed[k]))
    <2>1. CASE UNCHANGED wire
      BY <2>1 DEF IInv, TypeOK
    <2>2. CASE \E command \in Prefixes(typed[k]) : wire' = [wire EXCEPT ![k] = command]
      BY <1>1, <2>2, PrefixFacts DEF IInv, TypeOK
    <2> QED
      BY <2>1, <2>2
      DEF ClientStep, ClientSocket, ClientConnect, ClientFails, ClientSend, ClientClose
  <1>6. /\ client' \in [Clients -> {"prompt"} \cup Calling]
        /\ \A d \in Clients \ {c} : client'[d] = client[d]
        /\ client'[c] = "connect" => client[c] = "socket"
        /\ client'[c] # "socket"
    BY <1>1
    DEF IInv, TypeOK, ClientStep, ClientSocket, ClientConnect, ClientFails,
        ClientSend, ClientClose, ClientGoto, Calling, Connecting
  <1>7. TypeOK'
    <2>1. sockets' \subseteq Connections
      BY <1>1
      DEF IInv, TypeOK, ClientStep, ClientSocket, ClientConnect, ClientFails,
          ClientSend, ClientClose
    <2> QED
      BY <1>2, <1>4, <1>5, <1>6, <2>1 DEF IInv, TypeOK, Calling
  <1>8. HandlersOwnTheirSockets' /\ OnlyKnownAreAdded'
    BY <1>2, <1>4
    DEF IInv, TypeOK, HandlersOwnTheirSockets, OnlyKnownAreAdded, Handling
  <1>9. WireIsTyped'
    BY <1>1, <1>2, <1>5, NoneAssumption, PrefixFacts
    DEF IInv, WireIsTyped, PrefixOfTyped
  <1>10. GotIsTyped' /\ TaskIsOfItsCommand'
    BY <1>2 DEF IInv, GotIsTyped, TaskIsOfItsCommand, PrefixOfTyped
  <1>11. CallHasCommand'
    BY <1>1, <1>2, <1>3, <1>6, NoneAssumption DEF IInv, TypeOK, CallHasCommand
  <1>12. NotYetConnected'
    <2> SUFFICES ASSUME NEW d \in Clients, client'[d] \in {"socket", "connect"}
                 PROVE  at'[Current(d)] = "none"
      BY <1>3 DEF NotYetConnected
    <2>1. client[d] \in {"socket", "connect"}
      BY <1>6
    <2>2. Current(d) \in Connections /\ at[Current(d)] = "none"
      BY <2>1 DEF IInv, CallHasCommand, NotYetConnected, Calling, Connecting
    <2>3. d # c => Current(d) # k
      BY DEF Current
    <2>4. d = c => at'[k] = at[k]
      BY <1>1, <1>4
    <2> QED
      BY <1>4, <2>2, <2>3, <2>4
  <1>13. sockets' \in {sockets, sockets \cup {k}, sockets \ {k}}
    BY DEF ClientStep, ClientSocket, ClientConnect, ClientFails, ClientSend,
           ClientClose
  <1>14. LaterUntouched'
    BY <1>1, <1>2, <1>4, <1>13 DEF IInv, TypeOK, LaterUntouched
  <1>15. OnlyFailedConnectsLeak'
    <2> SUFFICES ASSUME NEW j \in Connections, j \in sockets'
                 PROVE  \/ j = Current(j[1])' /\ client'[j[1]] \in Connecting
                        \/ at'[j] = "none"
      BY <1>7 DEF OnlyFailedConnectsLeak, TypeOK
    <2>1. CASE j # k
      <3>1. j \in sockets /\ at'[j] = at[j]
        BY <1>4, <1>13, <2>1
      <3>2. CASE j[1] = c
        BY <1>1, <2>1, <3>1, <3>2 DEF IInv, OnlyFailedConnectsLeak
      <3>3. CASE j[1] # c
        BY <1>3, <1>6, <3>1, <3>3, ConnectionFacts DEF IInv, OnlyFailedConnectsLeak
      <3> QED
        BY <3>2, <3>3
    <2>2. CASE j = k
      <3>1. CASE client'[c] \in Connecting
        BY <1>1, <1>3, <2>2, <3>1
      <3>2. CASE client[c] \in {"socket", "connect"} /\ client'[c] = "prompt"
        BY <1>1, <1>4, <2>2, <3>2 DEF IInv, NotYetConnected
      <3>3. CASE client[c] = "close" /\ k \notin sockets'
        BY <2>2, <3>3
      <3> QED
        BY <1>1, <3>1, <3>2, <3>3
        DEF IInv, TypeOK, ClientStep, ClientSocket, ClientConnect, ClientFails,
            ClientSend, ClientClose, ClientGoto, Connecting
    <2> QED
      BY <2>1, <2>2
  <1> QED
    BY <1>7, <1>8, <1>9, <1>10, <1>11, <1>12, <1>14, <1>15 DEF IInv

\* One step for each action.
LEMMA NextIInv == IInv /\ [Next]_vars => IInv'
  <1> SUFFICES ASSUME IInv, [Next]_vars PROVE IInv'
    OBVIOUS
  <1>1. CASE UNCHANGED vars
    BY <1>1
    DEF IInv, TypeOK, HandlersOwnTheirSockets, WireIsTyped, GotIsTyped, PrefixOfTyped,
        OnlyKnownAreAdded, TaskIsOfItsCommand, CallHasCommand, NotYetConnected,
        LaterUntouched, OnlyFailedConnectsLeak, Current, vars, serverVars, clientVars
  <1>2. CASE Exit
    BY <1>2, ExitKeeps
  <1>3. CASE \E k \in Connections : HandlerStep(k)
    BY <1>3, HandlerReadKeeps, HandlerCloseKeeps DEF HandlerStep
  <1> QED
    BY <1>1, <1>2, <1>3, SetupKeeps, AcceptKeeps, HandlerAddKeeps, ClientEnterKeeps,
       ClientStepKeeps
    DEF Next, SetupFails, AcceptFails, HandlerAddThrows

-----------------------------------------------------------------------------
(* What follows. *)

\* The invariant follows every command from the user to the scheduler.
THEOREM Inductive == Spec => []IInv
  BY InitIInv, NextIInv, PTL DEF Spec

\* Every variable keeps its type.
THEOREM TypeCorrect == Spec => []TypeOK
  <1>1. IInv => TypeOK
    BY DEF IInv
  <1> QED
    BY <1>1, Inductive, PTL

\* However many handlers run, each works on its own socket and closes it once.
THEOREM SocketsMatched == Spec => []HandlersOwnTheirSockets
  <1>1. IInv => HandlersOwnTheirSockets
    BY DEF IInv
  <1> QED
    BY <1>1, Inductive, PTL

\* No task but those that the clients asked for, whatever is cut or lost.
THEOREM NoForeignTask == Spec => []TaskIsOfItsCommand
  <1>1. IInv => TaskIsOfItsCommand
    BY DEF IInv
  <1> QED
    BY <1>1, Inductive, PTL

\* send_command loses a descriptor only where a connect failed.
THEOREM ClientsCloseTheirSockets == Spec => []OnlyFailedConnectsLeak
  <1>1. IInv => OnlyFailedConnectsLeak
    BY DEF IInv
  <1> QED
    BY <1>1, Inductive, PTL

-----------------------------------------------------------------------------
(* The server implements the service.  Two more facts are needed: only a    *)
(* server that accepts has connections, and a task is added at the end of   *)
(* a handler.                                                               *)

ServerUp ==
  \A k \in Connections : at[k] \in {"queued"} \cup Handling => main = "accept"

AddedLate == \A k \in Connections : task[k] # None => at[k] \in {"close", "done"}

SInv == IInv /\ ServerUp /\ AddedLate

\* What connections and the server are seen as.
LEMMA Phases ==
  /\ Phase("none") = "none" /\ Phase("queued") = "waiting" /\ Phase("done") = "ended"
  /\ \A a \in Handling : Phase(a) = "served"
  /\ Stage("exit") = "stopped" /\ Stage("accept") = "serving"
  /\ \A m \in DOMAIN After : Stage(m) = "starting"
  BY Steps DEF Phase, Stage, Handling

\* A step of a handler that reads goes on to one of three places.
LEMMA ReadGoesOn ==
  ASSUME NEW k \in Connections, IInv, HandlerRead(k)
  PROVE  /\ at[k] = "read" /\ at'[k] \in {"add", "close", "reject"}
         /\ at' = [at EXCEPT ![k] = at'[k]]
         /\ UNCHANGED <<main, open, fd, task, clientVars>>
  BY DEF HandlerRead, Receive, Lookup, IInv, TypeOK

\* No step leaves a connection to a server that does not accept.
LEMMA NextSInv == SInv /\ [Next]_vars => SInv'
  <1> SUFFICES ASSUME SInv, [Next]_vars PROVE ServerUp' /\ AddedLate'
    BY NextIInv DEF SInv
  <1> USE DEF ServerUp, AddedLate, Handling
  <1>1. CASE UNCHANGED vars
    BY <1>1 DEF SInv, vars, serverVars, clientVars
  <1>2. CASE Exit
    BY <1>2 DEF SInv, Exit
  <1>3. CASE Setup
    BY <1>3, Steps DEF SInv, Setup
  <1>4. ASSUME NEW k \in Connections, Accept(k)
        PROVE  ServerUp' /\ AddedLate'
    BY <1>4 DEF SInv, IInv, TypeOK, Accept
  <1>5. ASSUME NEW k \in Connections, HandlerStep(k)
        PROVE  ServerUp' /\ AddedLate'
    <2>1. CASE HandlerRead(k)
      BY <2>1, ReadGoesOn DEF SInv, IInv, TypeOK
    <2>2. CASE HandlerReject(k) \/ HandlerClose(k)
      BY <2>2 DEF SInv, IInv, TypeOK, HandlerReject, HandlerClose
    <2> QED
      BY <1>5, <2>1, <2>2 DEF HandlerStep
  <1>6. ASSUME NEW k \in Connections, HandlerAdd(k)
        PROVE  ServerUp' /\ AddedLate'
    BY <1>6 DEF SInv, IInv, TypeOK, HandlerAdd
  <1>7. ASSUME NEW c \in Clients, ClientEnter(c)
        PROVE  ServerUp' /\ AddedLate'
    BY <1>7 DEF SInv, ClientEnter, serverVars
  <1>8. ASSUME NEW c \in Clients, ClientStep(c)
        PROVE  ServerUp' /\ AddedLate'
    <2>1. CASE ClientConnect(c)
      BY <1>8, <2>1
      DEF SInv, IInv, TypeOK, NotYetConnected, ClientConnect, ClientGoto, serverVars
    <2>2. CASE UNCHANGED <<main, task, at>>
      BY <2>2 DEF SInv
    <2> QED
      BY <1>8, <2>1, <2>2
      DEF ClientStep, ClientSocket, ClientFails, ClientSend, ClientClose, serverVars
  <1> QED
    BY <1>1, <1>2, <1>3, <1>4, <1>5, <1>6, <1>7, <1>8
    DEF Next, SetupFails, AcceptFails, HandlerAddThrows

\* The handlers that run, each with a descriptor of its own, leave room for one
\* more as long as a descriptor is free.
LEMMA RoomToServe ==
  ASSUME IInv, NEW f \in Descriptors, open[f] = None
  PROVE  LET serving == {k \in Connections : at[k] \in Handling}
         IN  Cardinality(serving) < Cardinality(Descriptors)
  <1> DEFINE serving == {k \in Connections : at[k] \in Handling}
             others == Descriptors \ {f}
             socket == [k \in serving |-> fd[k]]
  <1>1. /\ IsFiniteSet(others) /\ Cardinality(Descriptors) \in Nat
        /\ Cardinality(others) = Cardinality(Descriptors) - 1
    BY DescriptorsAssumption, FS_RemoveElement, FS_CardinalityType
  <1>2. \A k \in serving : socket[k] \in others /\ open[socket[k]] = k
    BY FreeAssumption DEF IInv, HandlersOwnTheirSockets
  <1>3. socket \in Injection(serving, others)
    <2>1. socket \in [serving -> others]
      BY <1>2
    <2> HIDE DEF socket, serving, others
    <2> QED
      BY <1>2, <2>1 DEF Injection, IsInjective
  <1>4. IsFiniteSet(serving) /\ Cardinality(serving) <= Cardinality(others)
    BY <1>1, <1>3, FS_Injection
  <1>5. Cardinality(serving) \in Nat /\ Cardinality(others) \in Nat
    BY <1>1, <1>4, FS_CardinalityType
  <1> HIDE DEF serving, others
  <1> QED
    BY <1>1, <1>4, <1>5 DEF serving

\* The service counts as the server does.
LEMMA SameCardinality == \A S : Service!Cardinality(S) = Cardinality(S)
  BY DEF Cardinality, Service!Cardinality

\* A server that has not started serves nobody.
LEMMA InitService == Init => Service!Init
  BY Phases, Steps DEF Init, Service!Init

\* Each step of the program is a step of the service or changes nothing of it.
LEMMA NextService == SInv /\ [Next]_vars => [Service!Next]_(Service!vars)
  <1> SUFFICES ASSUME SInv, [Next]_vars
               PROVE  Service!Next \/ UNCHANGED Service!vars
    OBVIOUS
  <1> DEFINE status == [k \in Connections |-> Phase(at[k])]
  <1> USE DEF SInv, IInv, TypeOK
  <1>1. CASE UNCHANGED vars
    BY <1>1 DEF vars, serverVars, clientVars, Service!vars
  <1>2. CASE Exit /\ main # "exit"
    <2>1. Stage(main) # "stopped" /\ Stage(main') = "stopped"
      BY <1>2, Phases DEF Exit
    <2>2. status' = [k \in Connections |-> IF status[k] = "none" THEN "none" ELSE "ended"]
      BY <1>2, Phases DEF Exit, Handling
    <2>3. UNCHANGED <<typed, task>>
      BY <1>2 DEF Exit, clientVars
    <2> QED
      BY <2>1, <2>2, <2>3 DEF Service!Stop, Service!Next
  <1>3. CASE Setup
    <2>1. UNCHANGED <<at, typed, task>>
      BY <1>3 DEF Setup, clientVars
    <2>2. Stage(main) = "starting" /\ Stage(main') \in {"starting", "serving"}
      BY <1>3, Phases, Steps DEF Setup
    <2> QED
      BY <2>1, <2>2 DEF Service!Open, Service!Next, Service!vars
  <1>4. ASSUME NEW k \in Connections, Accept(k)
        PROVE  Service!Accept(k)
    <2>1. PICK f \in Descriptors : open[f] = None
      BY <1>4 DEF Accept, FreeDescriptors
    <2>2. Service!InState("served") = {j \in Connections : at[j] \in Handling}
      BY Phases DEF Service!InState, Handling
    <2>3. Cardinality(Service!InState("served")) < Cardinality(Descriptors)
      BY <2>1, <2>2, RoomToServe
    <2>4. status[k] = "waiting" /\ status' = [status EXCEPT ![k] = "served"]
      BY <1>4, Phases DEF Accept, Handling
    <2>5. UNCHANGED <<main, typed, task>> /\ Stage(main) = "serving"
      BY <1>4, Phases DEF Accept, clientVars
    <2> QED
      BY <2>3, <2>4, <2>5, SameCardinality DEF Service!Accept, Service!Become
  <1>5. ASSUME NEW k \in Connections, HandlerRead(k)
        PROVE  UNCHANGED Service!vars
    <2>1. status' = status
      BY <1>5, ReadGoesOn, Phases DEF Handling
    <2> QED
      BY <1>5, <2>1, ReadGoesOn DEF clientVars, Service!vars
  <1>6. ASSUME NEW k \in Connections, HandlerReject(k) \/ HandlerClose(k)
        PROVE  Service!Finish(k)
    <2>1. status[k] = "served" /\ status' = [status EXCEPT ![k] = "ended"]
      BY <1>6, Phases DEF HandlerReject, HandlerClose, Handling
    <2>2. UNCHANGED <<main, typed, task>> /\ Stage(main) = "serving"
      BY <1>6, Phases DEF HandlerReject, HandlerClose, clientVars, ServerUp, Handling
    <2> QED
      BY <2>1, <2>2 DEF Service!Finish, Service!Become
  <1>7. ASSUME NEW k \in Connections, HandlerAdd(k)
        PROVE  Service!AddTask(k)
    <2>1. /\ typed[k] # None /\ typed[k].numbers # "none" /\ typed[k].op \in DOMAIN operations
          /\ got[k].op = typed[k].op
      BY <1>7 DEF HandlerAdd, OnlyKnownAreAdded, GotIsTyped, PrefixOfTyped
    <2>2. typed[k] \in Acceptable
      BY <2>1 DEF Acceptable, Command, Cuts
    <2>3. task[k] = None /\ task' = [task EXCEPT ![k] = operations[typed[k].op]]
      BY <1>7, <2>1 DEF HandlerAdd, AddedLate
    <2>4. status[k] = "served" /\ status' = status
      BY <1>7, Phases DEF HandlerAdd, Handling
    <2>5. UNCHANGED <<main, typed>> /\ Stage(main) = "serving"
      BY <1>7, Phases DEF HandlerAdd, clientVars, ServerUp, Handling
    <2> QED
      BY <2>2, <2>3, <2>4, <2>5 DEF Service!AddTask
  <1>8. ASSUME NEW c \in Clients, ClientEnter(c)
        PROVE  \E k \in Connections : Service!Enter(k)
    <2> DEFINE k == <<c, count[c] + 1>>
    <2>1. k \in Connections /\ typed[k] = None /\ at[k] = "none"
      BY <1>8, ConnectionFacts, BoundAssumption DEF ClientEnter, LaterUntouched
    <2>2. \E command \in Commands : typed' = [typed EXCEPT ![k] = command]
      BY <1>8 DEF ClientEnter
    <2>3. UNCHANGED <<main, at, task>>
      BY <1>8 DEF ClientEnter, serverVars
    <2>4. Service!Enter(k)
      BY <2>1, <2>2, <2>3, Phases DEF Service!Enter
    <2> QED
      BY <2>1, <2>4
  <1>9. ASSUME NEW c \in Clients, ClientConnect(c)
        PROVE  \E k \in Connections : Service!Connect(k)
    <2> DEFINE k == Current(c)
    <2>1. k \in Connections /\ typed[k] # None /\ at[k] = "none"
      BY <1>9
      DEF ClientConnect, ClientGoto, CallHasCommand, NotYetConnected, Calling, Connecting
    <2>2. Service!InState("waiting") = Queued
      BY Phases DEF Service!InState, Queued, Handling
    <2>3. status[k] = "none" /\ status' = [status EXCEPT ![k] = "waiting"]
      BY <1>9, <2>1, Phases DEF ClientConnect
    <2>4. UNCHANGED <<main, typed, task>> /\ Stage(main) = "serving"
      BY <1>9, Phases DEF ClientConnect, serverVars
    <2>5. Service!Connect(k)
      BY <1>9, <2>1, <2>2, <2>3, <2>4, SameCardinality
      DEF ClientConnect, Service!Connect, Service!Become
    <2> QED
      BY <2>1, <2>5
  <1>10. ASSUME NEW c \in Clients, ClientStep(c), ~ ClientConnect(c)
         PROVE  UNCHANGED Service!vars
    BY <1>10
    DEF ClientStep, ClientSocket, ClientFails, ClientSend, ClientClose, serverVars,
        Service!vars
  <1>11. main # "exit" \/ ~(SetupFails \/ AcceptFails
                            \/ \E k \in Connections : HandlerAddThrows(k))
    BY Steps DEF SetupFails, AcceptFails, HandlerAddThrows, ServerUp, Handling
  <1> QED
    BY <1>1, <1>2, <1>3, <1>4, <1>5, <1>6, <1>7, <1>8, <1>9, <1>10, <1>11
    DEF Next, SetupFails, AcceptFails, HandlerAddThrows, HandlerStep, Service!Next

\* Whatever the interleaving of the accept loop, the handlers and the clients,
\* connections wait, are served and end within the limits, and a command adds
\* its own task or none: for any number of clients and descriptors, any backlog.
THEOREM ImplementsTheService == Spec => ImplementsService
  <1>1. Init => SInv
    BY InitIInv DEF SInv, ServerUp, AddedLate, Init, Handling
  <1>2. Spec => []SInv
    BY <1>1, NextSInv, PTL DEF Spec
  <1> QED
    BY <1>2, InitService, NextService, PTL DEF Spec, ImplementsService, Service!Spec
=============================================================================
