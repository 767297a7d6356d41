SPECIFICATION Spec
CONSTANTS
    p1 = p1
    p2 = p2
    j1 = j1
    j2 = j2
    r1 = r1
    r2 = r2
    m1 = m1
    m2 = m2
    o1 = o1
    o2 = o2
    video = video
    image = image
    NoMime = NoMime
    Owners = {o1, o2}
    Mimes = {video, image}
    NoManifest = NoManifest
    Procs = {p1, p2}
    JournalProcs = {p2}
    Jobs = {j1}
    Replicas = {r1, r2}
    Events <- OneJobEvents
    Manifests = {m1, m2}
    MaxAttempts = 2
    MaxDestinations = 2
    BlockBatch = 1
    LeaseTTL = 2
    AttemptTTL = 3
SYMMETRY MarkerSymmetry
INVARIANTS
    TypeOK
    LeaseExclusion
    CompletionCoversEvents
    OneWinner
    AttemptBudget
    AcceptIsAtomic
    SharedInput
    ConfirmedIsRecorded
PROPERTY
    CompletionIsStable
