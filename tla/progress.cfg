SPECIFICATION MCSpec
CONSTANTS
  Lockers = {t1, t2, t3}
  Actors = {t1, t2, t3}
  Width = 2
  MaxChanges = 2
  Workers = {w1, w2}
  Clients = {c1}
  Jobs = {j1, j2}
  Kinds <- Ordered
  MaxId = 4
  Capacity = 2
  SlotRoom = 3
  Attempts = 4
CHECK_DEADLOCK FALSE
INVARIANTS
  MutualExclusion
  IncrementsAreDistinct
  SleepersAreNotified
PROPERTIES
  NobodyIsStranded
  EveryTaskCompletes
  EveryCallReturns
