SPECIFICATION fixedSpec
CONSTANTS
  Requesters = {t1, t2}
  CountMax = 4
  UsedBits = 2
  MaskBits = 2
  PermuteStart <- Unspread
  Requests <- Fitting
CHECK_DEADLOCK FALSE
INVARIANTS
  CountIsUsed
