SPECIFICATION Spec
CONSTANTS
    r1 = r1
    r2 = r2
    k1 = k1
    b1 = b1
    b2 = b2
    l1 = l1
    l2 = l2
    Request = {r1, r2}
    Form <- RetryForms
    Body = {b1, b2}
    Limits = {l1, l2}
    Key = {k1}
    NoKey = NoKey
    Verdict = {v1}
    Fault = {f1}
    None = None
    ShedLimit = 1
    MaxErrors = 0
    MaxOthers = 0
SYMMETRY Requests
INVARIANT OneTokenPerKey
