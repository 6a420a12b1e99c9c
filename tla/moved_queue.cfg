SPECIFICATION objectSpec
CONSTANTS
  QueueNames = {qa, qb}
  Items = {v1}
  Raw = Raw
  Stray = Stray
  Resources = {r1}
  ObjectCapacities = {0, 2}
  ReusedKinds = {"lock_free", "mutex"}
  MaxTurns = 3
CHECK_DEADLOCK FALSE
INVARIANTS
  CapacityClears
