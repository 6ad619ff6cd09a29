SPECIFICATION Spec
CONSTANTS
    t1 = t1
    t2 = t2
    k1 = k1
    k2 = k2
    k3 = k3
    A = A
    Transforms = {t1, t2}
    Keys = {k1, k2, k3}
    Mentions <- MCMentions
    KeyOf <- MCKeyOf
    TypeOf <- MCTypeOf
    Chunk = 1
    Documents <- MCDocuments
    Modes = {TRUE, FALSE}
    MaxFaults = 1
    None = None
INVARIANTS
    OneIdPerEntity
    IdsNameRoots
SYMMETRY Symmetry
