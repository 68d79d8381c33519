SPECIFICATION FairSpec
CONSTANTS
    t1 = t1
    t2 = t2
    k1 = k1
    k2 = k2
    c1 = c1
    c2 = c2
    Token = {t1}
    Task = {k1, k2}
    Client = {c1}
    NoToken = NoToken
    ListenerMax = 1
    MaxClaims = 2
    MaxFaults = 2
INVARIANTS
    TypeOK
    NoLostFinished
    PendingReplyIsTimeout
    AnnouncedIsStored
PROPERTIES
    EveryWaitReplies
CHECK_DEADLOCK FALSE
