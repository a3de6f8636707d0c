--------------------------- MODULE MCModelBudget ---------------------------
(* Instances of ModelBudget for TLC. *)
EXTENDS ModelBudget, TLC

CONSTANTS a, b, s1, s2

\* An arm with two requests beside one with one.
DeepPlan == {(a :> [requests |-> 2, cost |-> 2]) @@ (b :> [requests |-> 1, cost |-> 1])}

TwoStages == (s1 :> 4) @@ (s2 :> 2)
TwoPriors == (s1 :> 1) @@ (s2 :> 0)

KeySymmetry    == Permutations(Keys)
WorkerSymmetry == Permutations(Workers)
BothSymmetries == KeySymmetry \cup WorkerSymmetry
=============================================================================
