SPECIFICATION FairSpec
CONSTANTS
    t1 = t1
    t2 = t2
    k1 = k1
    k2 = k2
    w1 = w1
    w2 = w2
    Token = {t1}
    Task = {k1, k2}
    Worker = {w1}
    Host <- OneHost
    Verdict = {v1, v2}
    WithCallback = {t1}
    None = None
    Grace = 0
    WallLimit <- LongWall
    PayloadTtl = 1
    RowTtl = 2
    MaxAge = 3
    MaxSandboxAttempts = 2
    MaxPosts = 2
    MaxFaults = 2
PROPERTIES
    AnswersEverySubmission
    FinishedIsErased
