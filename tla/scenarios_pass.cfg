SPECIFICATION Spec
CONSTANTS
    n1 = n1
    n2 = n2
    e1 = e1
    r1 = r1
    r2 = r2
    Gone = Gone
    NoRow = NoRow
    NodeIds = {n1, n2}
    EdgeIds = {e1}
    Values = {0, 1}
    Bases <- MCBases
    Changes <- MCChanges
    Requests = {r1, r2}
    MaxScenarios = 2
SYMMETRY Symmetry
INVARIANTS
    ViewTellsTheEdits
