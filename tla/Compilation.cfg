SPECIFICATION Spec
CONSTANTS
    Modules <- MCModules
    EmissionStages = {"GenericMir", "LegalizedMir", "LoweredMir", "Assembly", "ObjectFile"}
    MaxIterations = 3
    MaxStarts = 2
CHECK_DEADLOCK FALSE
INVARIANTS
    AllocationSeesItsCode
    EmittedCodeIsLowered
    OutputIsWhole
PROPERTIES
    Terminates
