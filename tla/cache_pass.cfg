SPECIFICATION Spec
CONSTANTS
    owner = owner
    reader = reader
    w1 = w1
    w2 = w2
    r1 = r1
    r2 = r2
    Users = {owner, reader}
    Owner = owner
    Workers = {w1, w2}
    Routes <- MCRoutes
    Redis = {TRUE, FALSE}
    TextIds = TRUE
    Requests = {r1, r2}
    MaxVersion = 2
    MaxFaults = 1
    None = None
INVARIANTS
    OwnerSeesHisWrites
    OthersSeeWhatWasPublic
PROPERTY
    StaleEntriesDie
