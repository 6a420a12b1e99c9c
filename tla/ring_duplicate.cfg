SPECIFICATION Spec
CONSTANTS
  Threads = {t1, t2}
  N = 2
  Invalid = Invalid
  Overflow = Overflow
  UpdateInterval = 2
  AMax = 1
  MaxTicket = 4
CHECK_DEADLOCK FALSE
INVARIANTS
  Conservation
