---------------------------- MODULE MCBudgetGate ----------------------------
(* BudgetGate with two requests of one user and two months.                  *)
EXTENDS BudgetGate, TLC

RequestSymmetry == Permutations(Requests)
=============================================================================
