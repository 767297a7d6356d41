SPECIFICATION Spec
CONSTANTS
    w1 = w1
    w2 = w2
    w3 = w3
    thumbnail = thumbnail
    t1 = t1
    t2 = t2
    o1 = o1
    o2 = o2
    NoWriter = NoWriter
    Writers = {w1, w2, w3}
    Coordinated = {w1, w2}
    ModeOf <- MixedModes
    Keys = {thumbnail}
    UploadOf <- ThreeUploads
    Bytes = {t1, t2}
    Owners = {o1, o2}
    MaxCalls = 3
CHECK_DEADLOCK FALSE
INVARIANTS
    OneOrderlyVersion
    AnsweredIsStored
    CopiesAgree
