--------------------------- MODULE MCRelVersions ---------------------------
(* Two transforms that write one relationship under two caller ids, with   *)
(* batches that hold a changed property, a second id for the same pair, an *)
(* id that comes again with other properties, and no properties at all.    *)
EXTENDS RelVersions, TLC

CONSTANTS t1, t2

MCTransforms == {t1, t2}
MCSymmetry == Permutations(MCTransforms)
P(a, b) == [k \in {"role", "since"} |-> IF k = "role" THEN a ELSE b]
R(id, p) == [id |-> id, props |-> p]
MCBatches == {
    <<R(1, P(Absent, 1))>>,
    <<R(1, P(Absent, 2)), R(2, P(2, Absent)), R(1, P(1, 1))>>,
    <<R(2, NoProps)>> }
=============================================================================
