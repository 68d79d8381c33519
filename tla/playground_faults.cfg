SPECIFICATION Spec
CONSTANTS
    MaxRuns = 2
    HistoryMax = 2
    Earlier = 1
    MaxFaults = 1
    Outcome <- MCAccepted
    Chunks = {"stdout"}
INVARIANTS
    HistoryTrue
PROPERTIES
    CancelledStaysSilent
CHECK_DEADLOCK FALSE
