SPECIFICATION FairSpec
CONSTANTS
  Clients = {c1}
  Commands <- MCCommands
  Descriptors = {1, 2}
  MaxSockets = 2
  Backlog = 1
  MaxCommands = 3
  None = None
INVARIANTS
  TypeOK
  HandlersOwnTheirSockets
  TaskIsOfItsCommand
  OnlyFailedConnectsLeak
PROPERTIES
  ConnectionsAreHandled
  ImplementsService
CHECK_DEADLOCK FALSE
