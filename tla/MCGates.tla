------------------------------ MODULE MCGates ------------------------------
(* Every prerequisite graph over verify and two more targets, with missing  *)
(* rules, cycles and self-loops, every task file and set of CI commands     *)
(* over them; every catalogue of six rules in two categories; every way the *)
(* two sources of a spec can behave.                                        *)
EXTENDS Gates
=============================================================================
