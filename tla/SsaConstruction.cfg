CONSTANTS
    Colors = {}
    CallerSaved = {}
    LongestPath = 6
    Programs <- MCPrograms
SPECIFICATION SsaSpec
CHECK_DEADLOCK FALSE
INVARIANTS
    DominanceExact
    StrictSsa
    MeaningKept
PROPERTIES
    Completes
