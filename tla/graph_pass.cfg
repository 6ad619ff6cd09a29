SPECIFICATION BuildSpec
CONSTANTS
    Documents <- MCDocuments
    Targets <- MCTargets
    Modes = {"single", "multi"}
    Stable = {TRUE, FALSE}
    MaxGroup = 3
    SplinkMin = 2
INVARIANTS
    BuildTypeOK
    EndsExistUntilPruned
    NothingExtractedIsLost
    EndsAreThoseNamed
    IdsAreUnique
