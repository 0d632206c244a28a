SPECIFICATION Spec
CONSTANTS
    Programs <- PipePrograms
    MaxOutcomes = 3
INVARIANTS
    NoneBypassed
CHECK_DEADLOCK FALSE
