SPECIFICATION Spec
CONSTANT
    Jobs <- PassingJobs
    Bits <- FewBits
    Logic <- BitLogic
INVARIANT SameAsFunction
CHECK_DEADLOCK FALSE
