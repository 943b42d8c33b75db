SPECIFICATION PeepholeSpec
CONSTANTS
    None = None
    Instructions <- MCInstructions
    Regs <- MCRegs
    Values <- MCValues
    Addresses = {}
    Opcodes <- MCOpcodes
    MaxOperands = 3
    Room <- MCRoom
    Functions <- MCFunctions
    Bits = 2
    MaxIterations = 10
    Fuel = 6
CHECK_DEADLOCK FALSE
INVARIANTS
    MeaningKept
    SuccessorsKept
    EndsAtFixpoint
