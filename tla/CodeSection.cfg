SPECIFICATION Spec
CONSTANTS
    l1 = l1
    l2 = l2
    Labels <- MCLabels
    Bytes = {0, 1, 2, 3}
    Runs <- MCRuns
    Fixups <- MCFixups
    PadByte = 0
    Alignments = {4}
    Endianness = "Little"
    MaxNodes = 4
    MaxData = 2
SYMMETRY Symmetry
CHECK_DEADLOCK FALSE
INVARIANTS
    CursorOffsetExact
PROPERTIES
    ImplementsText
