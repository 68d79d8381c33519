SPECIFICATION FairSpec
CONSTANTS
    j1 = j1
    j2 = j2
    j3 = j3
    Job = {j1}
    MemoryMb <- OneJob
    MaxParallel = 2
    MemBudget = 3
    MaxErrors = 0
PROPERTY StopsOnSigterm
