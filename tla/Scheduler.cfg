\* Main's two tasks and one of a client, two slots.
CONSTANTS
  Main = Main
  Processor = Processor
  SchedulerThread = SchedulerThread
  client = client
  t1 = t1
  t2 = t2
  t3 = t3
  Callers = {Main, client}
  Tasks = {t1, t2, t3}
  UnixTasks = {t3}
  Script <- ScriptOfThree
  Capacity = 2
  MaxFailures = 2
SPECIFICATION FairSpec
CHECK_DEADLOCK FALSE
INVARIANTS
  TypeOK
  NoTaskLostOrDoubled
  StoppedClean
PROPERTIES
  ImplementsLifecycle
  StrandedOnlyByAnEnd
  StopReturnsUnlessStuck
