\* One task and the scheduler's own threads.
CONSTANTS
  Main = Main
  Processor = Processor
  SchedulerThread = SchedulerThread
  client = client
  t1 = t1
  t2 = t2
  t3 = t3
  Callers = {Main}
  Tasks = {t1}
  UnixTasks = {}
  Script <- ScriptOfOne
  Capacity = 1
  MaxFailures = 0
SPECIFICATION FairSpec
CHECK_DEADLOCK FALSE
PROPERTIES
  StopReturns
