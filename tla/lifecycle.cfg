SPECIFICATION Spec
CONSTANTS
    t1 = t1
    t2 = t2
    k1 = k1
    k2 = k2
    w1 = w1
    w2 = w2
    Token = {t1, t2}
    Task = {k1, k2}
    Worker = {w1, w2}
    Host <- TwoHosts
    Verdict = {v1}
    WithCallback = {t1}
    None = None
    Grace = 0
    WallLimit <- ShortWall
    PayloadTtl = 0
    RowTtl = 1
    MaxAge = 2
    MaxSandboxAttempts = 1
    MaxPosts = 2
    MaxFaults = 1
INVARIANTS
    TypeOK
    RowSound
    LeaseSafe
    WebhookHonest
PROPERTIES
    AnswerStands
    ImplementsContract
