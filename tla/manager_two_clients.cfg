SPECIFICATION Spec
CONSTANTS
  Workers = {w1}
  Clients = {c1, c2}
  Jobs = {j1, j2, j3}
  Kinds <- Waiting
  MaxId = 4
  Capacity = 2
  SlotRoom = 3
  Attempts = 4
SYMMETRY ClientSymmetry
CHECK_DEADLOCK FALSE
INVARIANTS
  EnqueueDropsNothing
