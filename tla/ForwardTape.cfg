SPECIFICATION TapeSpec
CONSTANTS
    LastTick = 5
    IntervalLen = 2
    MaxEventGap = 3
    WindowLen = 4
    StreamCap = 3
    MaxOutages = 1
    Horizons = {1, 2}
CHECK_DEADLOCK FALSE
INVARIANTS NoLookahead
