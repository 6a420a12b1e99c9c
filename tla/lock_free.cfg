SPECIFICATION MCSpec
CONSTANTS
  Threads = {t1, t2}
  N = 2
  Invalid = Invalid
  Overflow = Overflow
  UpdateInterval = 1
  AMax = 0
  MaxTicket = 5
  Elements = {e1, e2, e3}
  Raw = Raw
SYMMETRY Symmetry
CHECK_DEADLOCK FALSE
INVARIANTS
  RingConserves
  TicketsAreExclusive
  RingIsFifo
  EmptyIsHonest
  QueueConserves
  SlotDiscipline
  ClearDrains
PROPERTIES
  NodeNeverDecreases
