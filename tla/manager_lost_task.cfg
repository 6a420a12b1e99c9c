SPECIFICATION QueueSpec
CONSTANTS
  Workers = {w1}
  Clients = {c1}
  Jobs = {j1}
  Kinds <- Loops
  MaxId = 4
  Capacity = 2
  SlotRoom = 1
  Attempts = 4
CHECK_DEADLOCK FALSE
INVARIANTS
  ReadyIsComplete
