CONSTANTS
    Colors = {0, 1, 2, 3}
    Banks <- MCBanks
    CallerSaved <- MCCallerSaved
    CalleeSaved <- MCCalleeSaved
    Programs <- MCPrograms
    Coalescing = {TRUE, FALSE}
    MaxIterations = 6
SPECIFICATION AllocatorSpec
CHECK_DEADLOCK FALSE
INVARIANTS
    AllocationPreservesMeaning
    SpillCodePreservesMeaning
    CalleeSavedRecorded
    InterferingRegistersApart
    Converges
