SPECIFICATION FairSpec
CONSTANTS
  Workers = {w1}
  Clients = {c1}
  Jobs = {j1, j2, j3}
  Kinds <- Waiting
  MaxId = 4
  Capacity = 2
  SlotRoom = 1
  Attempts = 4
CHECK_DEADLOCK FALSE
PROPERTIES
  EveryTaskCompletes
