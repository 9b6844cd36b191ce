SPECIFICATION EngineSpec
CONSTANTS
    Null = Null
    Texts <- MCTexts
    CanonicalOf <- MCCanonicalOf
    AskedTarget = "104.80"
    AskedHorizon = "1h"
    ScenarioHorizons = {"1h", "4h"}
    Invited = {}
    Frames <- MCFrames
    ReasonTurns <- MCReasonTurns
    FinalTurns <- MCFinalTurns
    Authored <- MCAuthored
    ScenarioCalls <- MCScenarioCalls
    MaxReasonTurns = 1
    MaxCalls = 2
    MaxRepairs = 1
    MaxMerged = 8
    MaxSalvage = 1
    OutCycles = {c1, c2}
    Nobody = Nobody
    Gap = 2
    Deadline = 3
    Cap = 5
    BeatEvery = 2
    MaxTurns = 3
    ToolNames = {t1, t2}
    LastTick = 5
    IntervalLen = 2
    MaxEventGap = 3
    WindowLen = 4
    StreamCap = 3
    MaxOutages = 1
    Horizons = {1, 2}
    RowCounts = {0, 1, 29, 31, 96, 97, 120}
    MinObservations = 30
    MinOosObservations = 30
    NoForecast = NoForecast
    Shapes <- MCShapes
    SumCounts = {0, 29, 30}
    MinIntervals = 30
    MinWindows = 30
    MinDepthBlocks = 3
    PriorLimit = 8
    MaxBlocks = 2
    MaxRows = 1
    Commands = {k1, k2}
    NoFit = NoFit
    Segments = {s1, s2}
    Unsegmented = Unsegmented
    Writers = {w1}
    Readers = {r1}
    Limit = 1
    LiveReach = 2
    DurableReach = 1
    StreamKeeps = 2
    MaxMemories = 2
    MaxEntries = 3
    Idle = Idle
CHECK_DEADLOCK FALSE
INVARIANTS
    ClaimsStay
    
    
    RecordFirst
    RowsHonest
    
    LabelsNear
    OutageNeverBridged
    DistributionEarned
    NumbersEarned
    ShownIsRecorded

    
    
