\* CPU-intensive tasks under RoundRobinScheduling.
CONSTANTS
  NiceValues <- SomePriorities
  Starvations = {0, 5, 31, 60}
  InitialTypes = {"cpu"}
  Algorithms = {"round_robin"}
  Works = {0, 1, 3}
  Quanta = {1, 3}
  MaxTime = 3
  MaxOutside = 5
SPECIFICATION Spec
CHECK_DEADLOCK FALSE
PROPERTIES
  ReorderKeepsRemaining
