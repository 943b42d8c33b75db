CONSTANTS
    Colors = {}
    CallerSaved = {}
    LongestPath = 6
    Targets = {"x86_64", "riscv64"}
    Programs <- MCPrograms
SPECIFICATION SelectorSpec
CHECK_DEADLOCK FALSE
INVARIANTS
    EverythingSelected
    ConventionalPhisKeepMeaning
