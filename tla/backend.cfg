SPECIFICATION Spec
CONSTANTS
    Functions <- MCFunctions
    FarFrom <- MCFarFrom
    ArmFunctions <- MCArmFunctions
    KnownConstants <- MCKnownConstants
INVARIANTS
    Encodable
    Covered
    SameEffect
    AlignedAtCalls
    RegistersSuffice
CHECK_DEADLOCK FALSE
