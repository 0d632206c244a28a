SPECIFICATION FairSpec
CONSTANTS
    NumWorkers = 2
    MaxN = 3
    Partitions = {1, 2}
    MaxRuns = 2
    Aborts = TRUE
    CreateFails = TRUE
INVARIANTS
    QuietAfterRun
    DoneIsProgress
    DoneMeansAll
PROPERTIES
    RunReturns
    WorkRefinement
CHECK_DEADLOCK FALSE
