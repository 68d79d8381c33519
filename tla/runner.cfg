SPECIFICATION FairSpec
CONSTANTS
    j1 = j1
    j2 = j2
    j3 = j3
    Job = {j1, j2, j3}
    MemoryMb <- Mixed
    MaxParallel = 2
    MemBudget = 3
    MaxErrors = 1
INVARIANTS
    PermitsConserved
    NoLostSlotWake
    MemorySound
PROPERTIES
    EveryJobEnds
