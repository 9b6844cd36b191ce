SPECIFICATION ImpactSpec
CONSTANTS
    Shapes <- MCShapes
    SumCounts = {30}
    MinIntervals = 30
    MinWindows = 30
    MinDepthBlocks = 3
    PriorLimit = 8
    MaxBlocks = 3
    MaxRows = 2
    Commands = {}
    NoFit = NoFit
CHECK_DEADLOCK FALSE
INVARIANTS DepthIdentified
