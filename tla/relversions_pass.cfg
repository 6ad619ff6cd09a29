SPECIFICATION Spec
CONSTANTS
    t1 = t1
    t2 = t2
    Transforms <- MCTransforms
    NumIds = 2
    Keys = {"role", "since"}
    Vals = {1, 2}
    Batches <- MCBatches
    MaxPairs = 2
    MaxCalls = 2
    MaxFaults = 2
SYMMETRY MCSymmetry
INVARIANTS
    TypeOK
    AtMostOneOpenEdge
    SuccessIsVisible
PROPERTIES
    ClosedVersionsKept
CHECK_DEADLOCK FALSE
