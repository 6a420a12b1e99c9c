SPECIFICATION randomSpec
CONSTANTS
  PcgSeeds = {0, 1, 42, 255}
  WordBits = 3
  ShiftA = 1
  ShiftB = 1
  ShiftC = 2
  Roots = {2, 3, 4, 9}
  PatternSeeds <- SeedPairs
  HashBits = 7
  Hashes = {0, 1, 63, 64, 126, 127}
  Float <- Random4
CHECK_DEADLOCK FALSE
INVARIANTS
  BelowUpper
