------------------------------ MODULE MCSandbox ------------------------------
(* A drill and a process it leaves behind; a file, and a symbolic link that  *)
(* git ignores; two contents; one edit by the user while the drill is under  *)
(* way.                                                                      *)
EXTENDS Sandbox
=============================================================================
