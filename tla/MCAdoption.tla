----------------------------- MODULE MCAdoption -----------------------------
(* Two interchangeable runs of `ai-ready adopt --apply`, restarted at most  *)
(* twice between them, and a user who acts twice, on a plan of three files. *)
EXTENDS Adoption, TLC
Symmetry == Permutations(Runs)
=============================================================================
