SPECIFICATION FairSpec
CONSTANTS
    NumWorkers = 3
    MaxN = 7
    Clusters = {2}
    MaxRuns = 2
    CreateFails = TRUE
INVARIANTS
    AtMostOnce
    Barrier
    PoolInv
PROPERTIES
    ClosureStable
    PoolRefinement
    RunReturns
CHECK_DEADLOCK FALSE
