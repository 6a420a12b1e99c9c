SPECIFICATION wordSpec
CONSTANTS
  Actors = {t1, t2}
  Width = 2
  MaxChanges = 2
CHECK_DEADLOCK FALSE
INVARIANTS
  FallbackIsNotified
