---------------------------- MODULE MCGraphBuild ----------------------------
(* Small documents for GraphBuild. *)
EXTENDS GraphBuild

\* Two chunks that use the same positional ids; two mentions have one key, and
\* two entities without properties are of types linked by one relationship.
TwoChunks ==
    [chunks |-> 2, chunk |-> <<1, 1, 2, 2, 2>>, alias |-> <<"a0", "a1", "a0", "a1", "b0">>,
     type |-> <<"A", "A", "A", "C", "B">>, key |-> <<1, 2, 1, 4, 5>>,
     text |-> <<1, 2, 3, 4, 5>>, props |-> {1, 2, 3}, late |-> {}]

\* Five entities of one type, twice two with one key, one found by a refinement pass.
OneType ==
    [chunks |-> 2, chunk |-> <<1, 1, 1, 2, 2>>, alias |-> <<"a0", "a1", "a2", "a0", "a1">>,
     type |-> <<"A", "A", "A", "A", "A">>, key |-> <<1, 2, 3, 2, 1>>,
     text |-> <<1, 2, 3, 2, 5>>, props |-> {1, 2, 3, 4, 5}, late |-> {4}]

\* The same, when the first pass finds them all.
OneTypeAtOnce == [OneType EXCEPT !.late = {}]

\* A refinement pass finds two entities in the first of two chunks and numbers one of
\* them like the one found there before; two mentions without properties have its key.
LateAndBare ==
    [chunks |-> 2, chunk |-> <<1, 1, 1, 2, 2>>, alias |-> <<"a1", "a2", "a1", "a0", "a1">>,
     type |-> <<"A", "A", "A", "A", "A">>, key |-> <<1, 3, 2, 1, 1>>,
     text |-> <<1, 5, 2, 3, 4>>, props |-> {2, 3}, late |-> {1, 2}]

\* Two mentions without properties have one key.
Bare ==
    [chunks |-> 1, chunk |-> <<1, 1, 1, 1>>, alias |-> <<"a0", "a1", "a2", "b0">>,
     type |-> <<"A", "A", "A", "B">>, key |-> <<1, 2, 1, 4>>,
     text |-> <<1, 2, 3, 4>>, props |-> {2, 4}, late |-> {}]

MCDocuments == {TwoChunks, OneType, OneTypeAtOnce, LateAndBare, Bare}
MCTargets == [t \in {"A", "B", "C"} |-> CASE t = "A" -> {"A", "B"} [] t = "B" -> {"C"} [] OTHER -> {}]
=============================================================================
