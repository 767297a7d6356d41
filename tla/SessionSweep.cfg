SPECIFICATION FairSpec
CONSTANTS
    s1 = s1
    s2 = s2
    r1 = r1
    r2 = r2
    Sweeper = sweeper
    Nobody = nobody
    Sessions = {s1, s2}
    Legacy = {s2}
    Requests = {r1}
    Size = 1
    Chunks <- OneChunk
    Page = 1
    MaxCalls = 3
    MaxPuts = 2
    MaxFaults = 0
    MaxLost = 0
PROPERTIES
    ExpiredAreSwept
CHECK_DEADLOCK FALSE
