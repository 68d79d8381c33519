SPECIFICATION FairSpec
CONSTANTS
    t1 = t1
    t2 = t2
    k1 = k1
    k2 = k2
    c1 = c1
    c2 = c2
    Token = {t1}
    Task = {k1}
    Client = {c1}
    NoToken = NoToken
    ListenerMax = 1
    MaxClaims = 1
    MaxFaults = 0
PROPERTY
    StreamHearsFinished
CHECK_DEADLOCK FALSE
