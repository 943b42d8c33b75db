SPECIFICATION Spec
CONSTANTS
    i1 = i1
    i2 = i2
    a = a
    b = b
    None = None
    Instructions <- MCInstructions
    Regs <- MCRegs
    Values = {0}
    Addresses <- MCAddresses
    Opcodes <- MCOpcodes
    MaxOperands = 3
    Room <- MCRoom
SYMMETRY Symmetry
CHECK_DEADLOCK FALSE
INVARIANTS
    NoDanglingUse
PROPERTIES
    UsesStayExact
    DefStaysKnown
