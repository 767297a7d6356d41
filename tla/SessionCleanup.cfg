SPECIFICATION Spec
CONSTANTS
    s1 = s1
    s2 = s2
    r1 = r1
    r2 = r2
    Sweeper = sweeper
    Nobody = nobody
    Sessions = {s1}
    Legacy = {}
    Requests = {r1, r2}
    Size = 2
    Chunks <- TwoChunks
    Page = 1
    MaxCalls = 3
    MaxPuts = 2
    MaxFaults = 0
    MaxLost = 0
SYMMETRY RequestSymmetry
INVARIANTS
    CleanupIsFinal
CHECK_DEADLOCK FALSE
