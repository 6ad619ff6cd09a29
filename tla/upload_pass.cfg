SPECIFICATION Spec
CONSTANTS
    t1 = t1
    t2 = t2
    Transforms <- MCTransforms
    Endpoint <- MCEndpoint
    NumDocs <- MCNumDocs
    FlakyAudit = {t2}
    MaxRestarts = 1
INVARIANTS
    TypeOK
    DocumentsLostOnlyWithCause
    FailedUploadCleansItself
    TrailTellsTheTruth
PROPERTIES
    EveryUploadSettles
CHECK_DEADLOCK FALSE
