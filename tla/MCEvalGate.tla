----------------------------- MODULE MCEvalGate -----------------------------
(* Four tasks, the fewest of which one may be dead above the floor; two     *)
(* interchangeable runs of the runner.                                      *)
EXTENDS EvalGate, TLC
Symmetry == Permutations(Runs) \cup Permutations(Tasks)
=============================================================================
