\* All classes of tasks, the algorithm changed at will.
CONSTANTS
  NiceValues <- SomePriorities
  Starvations = {0, 5, 31, 60}
  InitialTypes = {"cpu", "io", "unix"}
  Algorithms = {"round_robin", "priority"}
  Works = {0, 1, 3}
  Quanta = {1, 3}
  MaxTime = 3
  MaxOutside = 5
SPECIFICATION Spec
CHECK_DEADLOCK FALSE
INVARIANTS
  TypeOK
  LessThanAQuantumLeft
  TimeAsObjectIsCharged
PROPERTIES
  PriorityNeverRises
