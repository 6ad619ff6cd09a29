SPECIFICATION GateSpec
CONSTANTS
    r1 = r1
    r2 = r2
    Requests = {r1, r2}
    NoCap = NoCap
    Caps = {0, 2, 5}
    Costs = {1, 4}
    MaxSpend = 6
    MaxMonths = 2
SYMMETRY RequestSymmetry
INVARIANTS
    AdmittedHadRoom
    RefusedWasOver
