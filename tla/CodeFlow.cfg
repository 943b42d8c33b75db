CONSTANTS
    NumBlocks = 3
    Target = "x86_64"
    Bodies <- MCBodies
SPECIFICATION Spec
CHECK_DEADLOCK FALSE
INVARIANTS
    EdgesAreControlFlow
    SelectionKeepsEdges
    PublishedInPhiOrder
