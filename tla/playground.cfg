SPECIFICATION FairSpec
CONSTANTS
    MaxRuns = 2
    HistoryMax = 2
    Earlier = 1
    MaxFaults = 0
    Outcome <- MCOutcome
    Chunks = {"stdout", "stderr"}
INVARIANTS
    ShownIsCurrent
    TabFollowsVerdict
PROPERTIES
    EveryRunEnds
CHECK_DEADLOCK FALSE
