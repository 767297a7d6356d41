CONSTANTS
    r1 = r1
    r2 = r2
    r3 = r3
    nobody = nobody
    Requests = {r1, r2, r3}
    NoRequest = nobody
    Slots <- ASlots
    Deployments <- TheDeployments
SPECIFICATION Spec
SYMMETRY RequestSymmetry
INVARIANTS
    ScannedOnce
    ClaimedThumbnailIsWhole
PROPERTIES
    RefusedOnlyWhenFull
CHECK_DEADLOCK FALSE
