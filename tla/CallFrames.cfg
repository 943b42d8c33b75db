SPECIFICATION Spec
CONSTANT Calls <- MCCalls
CHECK_DEADLOCK FALSE
INVARIANTS
    ArgumentsArrive
    ResultArrives
    CalleeRestores
    ObjectsApart
