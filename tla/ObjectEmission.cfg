SPECIFICATION Spec
CONSTANTS
    Modules <- MCModules
    Targets <- MCTargets
CHECK_DEADLOCK FALSE
INVARIANTS
    BranchesLand
    SymbolsDescribeObjects
    ReferencesReach
    FileWellFormed
