\* Three threads on a ring of two slots, all scheduled; sem_wait may fail anywhere.
CONSTANTS
  Threads = {t1, t2, t3}
  Tasks = {a, b}
  NoTask = NoTask
  Capacity = 2
  COUNT_TASKS = 2
  SizeModulus = 3
SPECIFICATION FairSpec
INVARIANTS
  TypeOK
  MutualExclusion
  SlotsAccounted
  TokensAccounted
  NoOverflow
  EmptyBranchDead
  BlockedOnlyOnEmptyOrFull
PROPERTIES
  ImplementsInterface
  PrintSeesOneState
  CallsReturn
