SPECIFICATION Spec
CONSTANTS
    Programs <- SafePrograms
    MaxOutcomes = 4
INVARIANTS
    FollowsProgram
    Lifetimes
    NothingLeft
CHECK_DEADLOCK FALSE
