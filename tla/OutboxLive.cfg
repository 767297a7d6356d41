SPECIFICATION FairSpec
CONSTANTS
    h1 = h1
    h2 = h2
    o1 = o1
    g = g
    b = b
    s1 = s1
    s2 = s2
    a1 = a1
    a2 = a2
    r1 = r1
    r2 = r2
    Hashes = {h1, h2}
    Owners = {o1}
    Size <- SizeOf
    Buckets = {g, b}
    NoBucket = NoBucket
    Deployments <- OnlyBoth
    Sessions = {}
    ContentOf <- AllSame
    NoSession = NoSession
    Requests = {a1}
    Recoverers = {r1}
    RunsWith <- RunBoth
    MaxVersions = 1
PROPERTIES
    Recovered
