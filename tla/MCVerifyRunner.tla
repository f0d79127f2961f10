--------------------------- MODULE MCVerifyRunner ---------------------------
(* Every repository of three makefiles, with and without a file `verify`;  *)
(* make and two processes for its recipe.                                  *)
EXTENDS VerifyRunner
=============================================================================
