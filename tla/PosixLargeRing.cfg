\* Two threads, a ring of one slot more than tasks_ has.
CONSTANTS
  Threads = {t1, t2}
  Tasks = {a}
  NoTask = NoTask
  Capacity = 2
  COUNT_TASKS = 1
  SizeModulus = 3
SPECIFICATION Spec
INVARIANTS
  EverySlotHoldsATask
