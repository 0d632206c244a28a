SPECIFICATION Spec
CONSTANTS
    Roots = {"A"}
    Insts = {"MOV", "CALL"}
    Kinds = {"None", "Register", "VarTemp"}
    MaxCmds = 3
    MaxOperands = 1
    MaxVars = 2
INVARIANTS
    Covered
PROPERTIES
    StaysApart
CHECK_DEADLOCK FALSE
