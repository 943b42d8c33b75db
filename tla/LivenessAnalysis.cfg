CONSTANTS
    NumBlocks = 3
    r = r
    s = s
    Regs <- MCRegs
    Bodies <- MCBodies
SPECIFICATION Spec
CHECK_DEADLOCK FALSE
INVARIANTS
    SolutionAtExit
    LiveInIsLiveness
PROPERTIES
    Termination
