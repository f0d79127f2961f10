--------------------------- MODULE MCReferentGate ---------------------------
(* One task, whose command may become a script, a make target or nothing;   *)
(* two runs of the gate beside one reader.  The runs are interchangeable,   *)
(* and so are the contents, which are only ever compared with each other.   *)
EXTENDS ReferentGate, TLC
Symmetry == Permutations(Runs) \cup Permutations(Versions)
=============================================================================
