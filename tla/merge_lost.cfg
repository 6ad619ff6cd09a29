SPECIFICATION Spec
CONSTANTS
    NumNodes = 1
    ByNames = {{}}
    NumRuns = 2
    Retries = 1
    MaxFaults = 0
    Decisions = {"human"}
INVARIANT
    ResolutionsReachProduction
CHECK_DEADLOCK FALSE
