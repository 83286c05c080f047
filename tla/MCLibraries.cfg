CONSTANTS
  h1 = h1
  h2 = h2
  r1 = r1
  r2 = r2
  k1 = k1
  k2 = k2
  x = x
  y = y
  FieldValues = {0, 1}
  InitialValue = 0
  MaxDepth = 2
  Accounts = {h1}
  MaxCCD = 2
  MaxTransfers = 2
  Bytes = {0, 1}
  MaxKey = 2
  MaxCells = 3
  MaxOpen = 1
  MaxIters = 2
  Openers = {h1, h2}
  W = 8
  MaxSize = 4
  MaxBuf = 2
  Refs = {r1, r2}
  MaxLen = 2
  MapKeys = {k1, k2}
  MaxPrefixes = 4
  Leaves = {x, y}
  MaxLeaves = 5
  MaxCommits = 3
  WireItems = {0, 1, 2}
  Legible <- MCLegible
  ArrayLen = 2
  MaxWire = 5
  Limit = 1116
  Digits = {0, 1, 9}
  Decimals = 2
  Second = 2
  Minute = 6
  Hour = 12
  Day = 48
  MAX_FUNC_NAME_SIZE = 4
  InitSize = 2
  MaxText = 5
  MaxName = 4
SPECIFICATION Spec
CHECK_DEADLOCK FALSE
INVARIANTS
  TypeOK
  IteratorsExact
  SameAnswers
  LastWriteWins
  HeapExact
  CallsSeeLatest
  TreeHolds
  RoundTrips
