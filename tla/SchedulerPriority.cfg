\* Two tasks under PriorityScheduling, the second more important.
CONSTANTS
  Main = Main
  Processor = Processor
  SchedulerThread = SchedulerThread
  client = client
  t1 = t1
  t2 = t2
  t3 = t3
  Callers = {Main}
  Tasks = {t1, t2}
  UnixTasks = {}
  Script <- ScriptOfTwo
  Capacity = 2
  MaxFailures = 0
SPECIFICATION Spec
CHECK_DEADLOCK FALSE
PROPERTIES
  HighestPriorityFirst
