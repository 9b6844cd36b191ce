SPECIFICATION WorkersSpec
CHECK_DEADLOCK FALSE
CONSTANTS
  SegLen = 2
  Span = 2
  SnapLen = 1
  ReadLimit = 2
  Faults = {"crash", "upgrade", "pg", "redis"}
  MaxTime = 2
  MaxTrades = 2
  MaxPolls = 3
  NoState = NoState
  Null = Null
  Periods <- OneGrid
  ReadBurst = 2
  MaxEntryTime = 2
  MaxStream = 2
  None = None
  Empty = Empty
INVARIANTS FoldedOnce 
PROPERTIES NoEcho NeverOld BoundaryHeard
