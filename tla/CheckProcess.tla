---------------------------- MODULE CheckProcess ----------------------------
(***************************************************************************)
(* One call of ai_ready.verification.process.run: the command is started   *)
(* as the leader of a new session with its output on pipes, the caller     *)
(* waits for the end of the output for `timeout` seconds, and past it      *)
(* kills the process group and waits again, this time without a limit.     *)
(*                                                                         *)
(* The other actor is the command itself: its processes fork, redirect     *)
(* their output, start sessions of their own, print bytes that are not     *)
(* text and exit, in any order.  They are outside the repository and are   *)
(* modelled by what POSIX lets them do.                                    *)
(***************************************************************************)
CONSTANTS Procs,    \* the processes the command may consist of
          Leader    \* the one Popen starts; it leads the session and group

ASSUME LeaderAssumption == Leader \in Procs

VARIABLES
  pc,        \* where the call of run is
  born,      \* processes started so far
  alive,     \* those that have not exited
  inGroup,   \* those whose process group is the leader's
  holds,     \* live processes with a write end of the output pipes open
  status,    \* the leader's exit status
  garbled,   \* the output holds bytes that do not decode as text
  expired    \* the timeout has passed

vars == <<pc, born, alive, inGroup, holds, status, garbled, expired>>
procs == <<born, alive, inGroup, holds, status, garbled>>

Waiting == {"communicate", "drain"}
Ended   == {"returned", "timed_out", "decode_error", "os_error"}
Exits   == {"zero", "nonzero"}

TypeOK ==
  /\ pc \in {"ready"} \cup Waiting \cup Ended
  /\ born \subseteq Procs
  /\ alive \subseteq born
  /\ inGroup \subseteq Procs
  /\ holds \subseteq alive
  /\ status \in {"running", "killed"} \cup Exits
  /\ garbled \in BOOLEAN
  /\ expired \in BOOLEAN
  /\ status # "running" => Leader \notin alive

Init ==
  /\ pc = "ready"
  /\ born = {} /\ alive = {} /\ inGroup = {} /\ holds = {}
  /\ status = "running"
  /\ garbled = FALSE
  /\ expired = FALSE

-----------------------------------------------------------------------------
(* The caller: the body of run. *)

\* Popen either starts the leader or raises OSError.
Start ==
  /\ pc = "ready"
  /\ pc' = "communicate"
  /\ born' = {Leader} /\ alive' = {Leader}
  /\ inGroup' = {Leader} /\ holds' = {Leader}
  /\ UNCHANGED <<status, garbled, expired>>

StartFails ==
  /\ pc = "ready"
  /\ pc' = "os_error"
  /\ UNCHANGED <<procs, expired>>

\* communicate() returns at the end of the output, once the leader is reaped.
OutputEnds_LeaderOnly == Leader \notin alive   \* mutant: it only waits for the leader
OutputEnds == holds = {} /\ Leader \notin alive

CommunicateReturns ==
  /\ pc = "communicate"
  /\ OutputEnds
  /\ pc' = IF garbled THEN "decode_error" ELSE "returned"
  /\ UNCHANGED <<procs, expired>>

\* os.killpg(process.pid, SIGKILL); a group that is gone is not an error.
Killed_LeaderOnly == {Leader}   \* mutant: process.kill()
Killed == inGroup

TimeoutKillsGroup ==
  /\ pc = "communicate"
  /\ expired
  /\ pc' = "drain"
  /\ alive' = alive \ Killed
  /\ holds' = holds \ Killed
  /\ status' = IF Leader \in alive THEN "killed" ELSE status
  /\ UNCHANGED <<born, inGroup, garbled, expired>>

DrainRaises ==
  /\ pc = "drain"
  /\ OutputEnds
  /\ pc' = IF garbled THEN "decode_error" ELSE "timed_out"
  /\ UNCHANGED <<procs, expired>>

Deadline ==
  /\ pc = "communicate"
  /\ ~expired
  /\ expired' = TRUE
  /\ UNCHANGED <<pc, procs>>

Run == Start \/ StartFails \/ CommunicateReturns \/ TimeoutKillsGroup \/ DrainRaises

-----------------------------------------------------------------------------
(* The command's processes. *)

Fork(p, c) ==
  /\ p \in alive /\ c \in Procs \ born
  /\ born' = born \cup {c}
  /\ alive' = alive \cup {c}
  /\ inGroup' = IF p \in inGroup THEN inGroup \cup {c} ELSE inGroup
  /\ holds' = IF p \in holds THEN holds \cup {c} ELSE holds
  /\ UNCHANGED <<pc, status, garbled, expired>>

Redirect(p) ==
  /\ p \in holds
  /\ holds' = holds \ {p}
  /\ UNCHANGED <<pc, born, alive, inGroup, status, garbled, expired>>

\* setsid; it fails for a process that already leads its group.
NewSession(p) ==
  /\ p \in alive \cap inGroup
  /\ p # Leader
  /\ inGroup' = inGroup \ {p}
  /\ UNCHANGED <<pc, born, alive, holds, status, garbled, expired>>

PrintBytes(p) ==
  /\ p \in holds
  /\ ~garbled
  /\ garbled' = TRUE
  /\ UNCHANGED <<pc, born, alive, inGroup, holds, status, expired>>

Exit(p) ==
  /\ p \in alive
  /\ alive' = alive \ {p}
  /\ holds' = holds \ {p}
  /\ IF p = Leader THEN status' \in Exits ELSE UNCHANGED status
  /\ UNCHANGED <<pc, born, inGroup, garbled, expired>>

Command ==
  \E p \in Procs :
    \/ \E c \in Procs : Fork(p, c)
    \/ Redirect(p)
    \/ NewSession(p)
    \/ PrintBytes(p)
    \/ Exit(p)

Finished == pc \in Ended /\ alive = {} /\ UNCHANGED vars

Next == Run \/ Deadline \/ Command \/ Finished

\* The caller is a running Python process and time passes; nothing is assumed
\* of the command.
Spec == Init /\ [][Next]_vars /\ WF_vars(Run) /\ WF_vars(Deadline)

-----------------------------------------------------------------------------
(* Properties. *)

\* What run has handed back is all of the output and the leader's own status:
\* nothing that could still write to the pipes is alive, and a return (rather
\* than TimeoutExpired) is never the exit code of a process run itself killed.
OutputIsComplete ==
  pc \in Ended =>
    /\ holds = {}
    /\ Leader \notin alive
    /\ pc = "returned" => status \in Exits

\* Past the kill nothing of the process group survives: no process the command
\* forks meanwhile can slip into the group that killpg(SIGKILL) emptied.
KillReachesGroup ==
  pc \in {"drain", "timed_out"} => alive \cap inGroup = {}

\* Once a process exists, the call ends: or the call hangs in the second
\* communicate(), and then a process that left the group holds the pipe.  The
\* module docstring promises a "bounded lifetime" without that exception.
Escaped == \E p \in holds : p \notin inGroup
EndsUnlessEscaped == (pc = "communicate") ~> (pc \in Ended \/ Escaped)
=============================================================================
