SPECIFICATION Spec
CONSTANTS
    Spelling <- MCSpelling
    Programs <- MCPrograms
    Layouts <- MCLayouts
    Damaged <- MCDamaged
INVARIANTS
    ReadsBack
    ParsesBack
    NothingIgnored
CHECK_DEADLOCK FALSE
