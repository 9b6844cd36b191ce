SPECIFICATION MemorySpec
CONSTANTS
    Segments = {s1, s2}
    Unsegmented = Unsegmented
    Writers = {w1}
    Readers = {r1}
    Limit = 1
    LiveReach = 2
    DurableReach = 1
    StreamKeeps = 2
    MaxMemories = 2
    MaxEntries = 3
    Idle = Idle
CHECK_DEADLOCK FALSE
INVARIANT ForgottenStaysOut
