SPECIFICATION MCSpec
CONSTANTS
  Workers = {w1, w2}
  Clients = {c1}
  Jobs = {j1, j2, j3}
  Kinds <- Ordered
  MaxId = 3
  Capacity = 2
  SlotRoom = 1
  Attempts = 2
SYMMETRY Symmetry
CHECK_DEADLOCK FALSE
INVARIANTS
  PrecedenceRespected
  WaitIsHonest
  ReadyIsComplete
  EnqueueDropsNothing
  WorkIsAnnounced
