SPECIFICATION FairSpec
CONSTANTS
    p1 = p1
    p2 = p2
    j1 = j1
    j2 = j2
    r1 = r1
    r2 = r2
    m1 = m1
    m2 = m2
    o1 = o1
    o2 = o2
    video = video
    image = image
    NoMime = NoMime
    Owners = {o1, o2}
    Mimes = {video, image}
    NoManifest = NoManifest
    Procs = {p1}
    JournalProcs = {}
    Jobs = {j1, j2}
    Replicas = {r1, r2}
    Events <- TwoJobRevised
    Manifests = {m1}
    MaxAttempts = 2
    MaxDestinations = 3
    BlockBatch = 1
    LeaseTTL = 1
    AttemptTTL = 1
PROPERTY
    JobsEnd
