------------------------------ MODULE MCShared ------------------------------
(* Two documents, and four steps of the user around commits, who saves any    *)
(* counts in the badges, or none; three harnesses at once; two bridge files,  *)
(* two texts of the user's for each and three starts of the script; two       *)
(* callers and three objects.                                                 *)
EXTENDS Shared

MCSaves == [Docs -> Counts] \cup {Unread}
=============================================================================
