SPECIFICATION Spec
CONSTANTS
    Functions <- ImulInPlace
    FarFrom <- MCFarFrom
    ArmFunctions <- NoFunctions
    KnownConstants <- MCKnownConstants
INVARIANTS
    Encodable
CHECK_DEADLOCK FALSE
