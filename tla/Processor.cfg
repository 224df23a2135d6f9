\* A processor, a producer and the main thread on a queue that may be full.
CONSTANTS
  Main = Main
  Processor = Processor
  prod = prod
  t1 = t1
  t2 = t2
  t3 = t3
  t4 = t4
  Callers = {Main, prod}
  Tasks = {t1, t2, t3, t4}
  UnixTasks = {t3}
  Script <- ScriptOfFour
  Capacity = 2
  MaxFailures = 2
SPECIFICATION FairSpec
CHECK_DEADLOCK FALSE
INVARIANTS
  TypeOK
  NoTaskLostOrDoubled
  CountStillTrue
PROPERTIES
  ImplementsLifecycle
  TurnsInOrder
  EveryTaskServed
  StopReturnsUnlessGridlocked
