SPECIFICATION JournalSpec
CONSTANTS
    p1 = p1
    p2 = p2
    j1 = j1
    r1 = r1
    m1 = m1
    o1 = o1
    video = video
    n1 = n1
    n2 = n2
    n3 = n3
    f1 = f1
    f2 = f2
    s1 = s1
    s2 = s2
    NoMime = NoMime
    Owners = {o1}
    Mimes = {video}
    NoManifest = NoManifest
    Procs = {p1, p2}
    JournalProcs = {p1, p2}
    Jobs = {j1}
    Replicas = {r1}
    Events <- RevisedEvents
    Manifests = {m1}
    MaxAttempts = 2
    MaxDestinations = 2
    BlockBatch = 1
    LeaseTTL = 1
    AttemptTTL = 2
    Nonces = {n1, n2}
    Files = {f1, f2}
    Sums = {s1, s2}
    Submissions <- SomeSubmissions
SYMMETRY IdentitySymmetry
INVARIANTS
    OneNamespace
    ToldIsDurable
    PlansAreWhole
    GateIsClosed
PROPERTIES
    WritesAreFenced
    ImplementsInbox
