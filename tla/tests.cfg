SPECIFICATION FairSpec
CONSTANTS
    Source = {s1, s2, s3, s4}
    Snippet = s1
    Text <- MCText
    Empty = ""
    Ambiguous = {"x_"}
    Mangled = "?"
    compare <- MCCompare
    Mode <- MCMode
    Outcome <- MCOutcome
    Imports <- MCImports
    MaxCases = 2
    MaxBuckets = 2
    MaxSteps = 4
    MaxFailures = 1
INVARIANTS
    VerdictsOwnInput
PROPERTIES
    WorkComesBack
    RunAllEnds
CHECK_DEADLOCK FALSE
