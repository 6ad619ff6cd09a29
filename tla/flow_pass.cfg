SPECIFICATION Spec
CONSTANTS
    NumDocs = 3
    Pdfs = {2}
    MaxFaults = 1
INVARIANTS
    TypeOK
    StatusTellsTheTruth
    RowsTellTheTruth
    CleanedStaysClean
PROPERTIES
    StageShownNeverGoesBack
    StatusSettles
CHECK_DEADLOCK FALSE
