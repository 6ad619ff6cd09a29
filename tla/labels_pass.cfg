SPECIFICATION LabelsSpec
CONSTANTS
    p1 = p1
    p2 = p2
    entity = entity
    r1 = r1
    r2 = r2
    Pairs = {p1, p2}
    EntityTypes = {entity}
    EntityTypeOf <- OneType
    Requests = {r1, r2}
    Scores = {95}
    One = 100
    Floor = 90
    Margin = 3
    Nudge = 10
    Default = 95
    Unseen = Unseen
    NoPair = NoPair
INVARIANTS
    LabelsCountOnce
PROPERTIES
    EveryLabelAnswered
