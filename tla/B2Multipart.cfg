SPECIFICATION FairSpec
CONSTANTS
    u1 = u1
    u2 = u2
    s1 = s1
    s2 = s2
    Uploads = {u1, u2}
    Sweepers = {s1}
    Parts = 2
    TTL = 2
INVARIANTS
    UntrackedIsEmpty
PROPERTIES
    PromptUploadsSurvive
    RecordsEnd
