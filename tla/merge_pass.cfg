SPECIFICATION Spec
CONSTANTS
    NumNodes = 2
    ByNames = {{1}}
    NumRuns = 2
    Retries = 1
    MaxFaults = 1
    Decisions = {"human"}
INVARIANTS
    TypeOK
    CompletedMeansStored
    ReadyMeansReviewed
    WeakMatchesKeepProduction
PROPERTY
    RunsEnd
CHECK_DEADLOCK FALSE
