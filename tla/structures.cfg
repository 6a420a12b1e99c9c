SPECIFICATION Spec
CONSTANTS
  Users = {t1, t2}
  BlockBits = 2
  Blocks = 2
  BitSize = 3
  Values = {v1, v2}
  None = None
  QueueSizes = {0, 2, 3}
  MaxTail = 7
  Keys = {1, 2, 3, 4}
  NoKey = NoKey
  MapSizes = {0, 2, 3}
  Tenants = {t1, t2}
  Addresses = {0, 4}
  BufferRequests <- Blocks1To8
  BufferSize = 12
  MaxBlocks = 2
  Callers = {t1, t2}
  AllocRequests <- Blocks1To64
  HeaderSize = 32
  MinAlign = 8
  MaxLive = 2
  Threads = {t1, t2}
  Half = 2
  Invalid = Invalid
  Overflow = Overflow
  UpdateInterval = 2
  AMax = 1
  MaxTicket = 9
  QueueNames = {qa, qb}
  Items = {v1, v2}
  Raw = Raw
  Stray = Stray
  Resources = {r1, r2}
  ObjectCapacities = {0, 2}
  ReusedKinds = {"lock_free"}
  MaxTurns = 3
  Requesters = {t1, t2, t3}
  CountMax = 3
  UsedBits = 2
  MaskBits = 1
  PermuteStart <- Reversed
  Requests <- AnyRequest
  Narrow <- Narrow3
  Wide <- Wide4
  PcgSeeds = {0, 1, 42, 255}
  WordBits = 3
  ShiftA = 1
  ShiftB = 1
  ShiftC = 2
  Roots = {2, 3, 4, 9}
  PatternSeeds <- SeedPairs
  HashBits = 7
  Hashes = {0, 1, 63, 64, 126, 127}
  Float <- Random4
  FractionInts <- Fraction6
  UnitBase = 10
  UnitExponents = {0, 1, 3}
  PowerBases <- Bases6
  PowerMax = 12
  RangeMax = 16
  MathFloats <- EvenAndOddDigits
  PowerFloat <- Narrow3
  SubnormalLift = 6
  LdexpStep = 120
  LongBits = 8
  NarrowBits = 4
  JsonTexts <- Texts
  JsonRests <- Rests
  Pieces <- TwoPieces
  ColumnTypes <- NamedAndNumeric
  CsvRows <- Rows
  CsvJunk <- Junk
  MaxCharsPerLine = 20
  MaxLines = 2
  RefNames = {qa, qb}
  Functions = {f1}
  Functors = {x1, x2}
  NoCallee = NoCallee
  MaxTime = 5
SYMMETRY Symmetry
CHECK_DEADLOCK FALSE
INVARIANTS
  ResetIsLocal
  AnswersAreHonest
  NodesAccounted
  ElementsSurvive
  BlocksAreSound
  AllocationIsSound
  Exclusive
  CountAccounts
  CapacityRespected
  Conservation
  TicketsAreExclusive
  AnswersAreOrdered
  ArithmeticAgrees
  EnginesAreUniform
  MathIsExact
  TextIsExact
  RecordsAreLines
  HelpersKeepTrack
PROPERTIES
  IsFifo
  IsKeySet
  LapNeverDecreases
