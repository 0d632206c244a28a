SPECIFICATION Spec
CONSTANTS
    Numbers = {1}
    Keys <- MCKeys
    MaxLen = 2
    MaxUsed = 6
    MaxBlocks = 26
    Declarations <- PassingDeclarations
INVARIANTS
    Sound
    NothingLost
    KeepsPromise
    EqualMeansSame
