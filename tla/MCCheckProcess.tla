--------------------------- MODULE MCCheckProcess ---------------------------
(* Three processes: the leader, a check it forks and a process forked in    *)
(* turn by either (a server, a daemon).                                     *)
EXTENDS CheckProcess
=============================================================================
