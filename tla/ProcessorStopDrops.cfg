\* stop() while a task is being executed.
CONSTANTS
  Main = Main
  Processor = Processor
  prod = prod
  t1 = t1
  t2 = t2
  t3 = t3
  t4 = t4
  Callers = {Main, prod}
  Tasks = {t1, t2}
  UnixTasks = {}
  Script <- ScriptOfTwo
  Capacity = 2
  MaxFailures = 0
SPECIFICATION Spec
CHECK_DEADLOCK FALSE
INVARIANTS
  UnfinishedTasksKept
