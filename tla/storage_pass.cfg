SPECIFICATION Spec
CONSTANTS
    Backends = {"neo4j", "postgres", "memory"}
    MaxGraphs = 2
    NumNodes = 4
    Kind <- MCKind
    Unsafe = {3}
    Rels = {1, 2, 3}
    Ends <- MCEnds
    BatchSize = 2
    Retries = 2
    MaxFaults = 3
INVARIANTS
    CheckpointBehindWriteHead
    FreshResultIsComplete
    FirstRetryKeepsNodes
    CopiesBoundedByAttempts
PROPERTIES
    LoadStageImplemented
