SPECIFICATION FairSpec
CONSTANTS
    a = a
    b = b
    c = c
    p = p
    none = none
    cmd = cmd
    Files = {a, b, c}
    CommandLine = cmd
    UsesChoices <- UsesOfFiles
    PackageOf <- Packages
    NoPackage = none
    Failures = {"file", "kaba", "foreign"}
    Modes = {TRUE, FALSE}
    FullyLinear = FALSE
    MaxCalls = 2
    ModuleBound = 12
INVARIANTS
    LoaderInv
    NoDuplicatePublic
    DependencyOrder
    FullLoadUsable
PROPERTIES
    RegistryRefinement
    NoFalseRecursion
    EveryCallReturns
