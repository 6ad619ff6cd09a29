--------------------------- MODULE MCEntityLedger ---------------------------
EXTENDS EntityLedger, TLC
CONSTANTS t1, t2, k1, k2, k3, A

\* Three entities of one type, one of them extracted twice from its document.
MCMentions == 1..4
MCKeyOf == <<k1, k2, k3, k1>>
MCTypeOf == [k \in {k1, k2, k3} |-> A]
MCDocuments == {{1, 4}, {2}, {3}}

Symmetry == Permutations({t1, t2})
=============================================================================
