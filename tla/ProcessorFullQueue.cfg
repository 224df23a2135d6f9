\* The producer takes the slot of the task that the processor executes.
CONSTANTS
  Main = Main
  Processor = Processor
  prod = prod
  t1 = t1
  t2 = t2
  t3 = t3
  t4 = t4
  Callers = {Main, prod}
  Tasks = {t1, t2}
  UnixTasks = {}
  Script <- ScriptOfTwo
  Capacity = 1
  MaxFailures = 0
SPECIFICATION FairSpec
CHECK_DEADLOCK FALSE
PROPERTIES
  StopReturns
