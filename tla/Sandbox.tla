------------------------------- MODULE Sandbox -------------------------------
(***************************************************************************)
(* A mutation drill in a disposable copy of the repository: the guard of   *)
(* scripts/drill_workspace.sh, then verification.sandbox: the copy, its    *)
(* git baseline, the drill under process.run, the removal of the copy.     *)
(*                                                                         *)
(* The user works on in the repository meanwhile, and the processes of the *)
(* drill write to the copy for as long as they live, which may be longer   *)
(* than the call of run.  That call is an instance of CheckProcess.        *)
(***************************************************************************)
EXTENDS Naturals

CONSTANTS Procs, Leader,   \* as in CheckProcess
          Files,           \* files of the repository that copytree does not ignore
          Links,           \* those that are symbolic links; the content is the target's
          Ignored,         \* those that git ignores: reader_witness.json, *.egg-info
          Versions,        \* contents the user may give a file
          MaxEdits         \* bound of the model: steps of the user

ASSUME LeaderAssumption == Leader \in Procs
ASSUME LinksAssumption == Links \subseteq Files
ASSUME IgnoredAssumption == Ignored \subseteq Files
ASSUME EditsAssumption == MaxEdits \in Nat

VARIABLES pc, born, alive, inGroup, holds, status, garbled, expired,
          tree,      \* file -> content in the user's repository
          userHead,  \* who made the last commit there
          env,       \* what the caller's environment holds
          copy,      \* file -> content in the copy
          dir,       \* the copy's directory exists
          baseline,  \* file -> content in the copy's baseline commit
          phase, todo, copyErrors,
          outcome,   \* what main will answer
          seen,      \* history: file -> contents from copytree's listing to its end
          survivors, \* history: processes alive when the removal began
          edits

P == INSTANCE CheckProcess

processVars == <<pc, born, alive, inGroup, holds, status, garbled, expired>>
userVars == <<tree, userHead, edits>>
copyVars == <<copy, dir, baseline>>
control  == <<env, phase, todo, copyErrors, outcome, survivors>>
vars == <<processVars, userVars, copyVars, control, seen>>

Absent  == "absent"      \* no such file, or a link to nowhere
Mutated == "mutated"     \* what a drill writes
Contents == Versions \cup {Absent, Mutated}

Phases == {"invoked", "list", "copy", "git", "call", "run", "empty", "rmdir", "done", "lost"}

\* "unexecuted" is "Drill could not execute", exit 2; "traceback" an exception
\* that main does not catch, exit 1; the others are the drill's own exit code.
Outcomes == {"none", "unexecuted", "traceback", "interrupted", "zero", "nonzero"}

TypeOK ==
  /\ P!TypeOK
  /\ tree \in [Files -> Contents]
  /\ userHead \in {"user", "drill"}
  /\ env \in SUBSET {"GIT_DIR", "stale", "root"}
  /\ copy \in [Files -> Contents]
  /\ dir \in BOOLEAN
  /\ baseline \in [Files -> Contents]
  /\ phase \in Phases
  /\ todo \subseteq Files
  /\ copyErrors \in BOOLEAN
  /\ outcome \in Outcomes
  /\ seen \in [Files -> SUBSET Contents]
  /\ survivors \subseteq Procs
  /\ edits \in 0..MaxEdits

Nothing == [f \in Files |-> Absent]

\* env: GIT_DIR is set when a git hook starts the drill; "stale" is a value of
\* AI_READY_SANDBOX left from a sandbox that is gone.  Nobody sets it to the
\* repository itself ("root"): the guard is against accidents.
Init ==
  /\ P!Init
  /\ tree \in [Files -> Versions \cup {Absent}]
  /\ userHead = "user"
  /\ env \in SUBSET {"GIT_DIR", "stale"}
  /\ copy = Nothing /\ dir = FALSE /\ baseline = Nothing
  /\ phase = "invoked" /\ todo = {} /\ copyErrors = FALSE
  /\ outcome = "none"
  /\ seen = [f \in Files |-> {}]
  /\ survivors = {}
  /\ edits = 0

-----------------------------------------------------------------------------
(* The user. *)

UserEdits(f, content) ==
  /\ edits < MaxEdits
  /\ phase # "done"
  /\ content # tree[f]
  /\ tree' = [tree EXCEPT ![f] = content]
  /\ seen' = IF phase = "copy" THEN [seen EXCEPT ![f] = @ \cup {content}] ELSE seen
  /\ edits' = edits + 1
  /\ UNCHANGED <<processVars, userHead, copyVars, control>>

User == \E f \in Files, content \in Versions \cup {Absent} : UserEdits(f, content)

-----------------------------------------------------------------------------
(* The guard, copytree and the baseline commit. *)

\* The script runs its body in place only inside the sandbox made for it;
\* otherwise it starts again through the sandbox.
InPlace_AnyValue == env \cap {"stale", "root"} # {}   \* mutant: [ -n "$AI_READY_SANDBOX" ]
InPlace == "root" \in env

\* Wrong arguments, or no room for the directory: exit 2.
Refuse ==
  /\ phase = "invoked"
  /\ phase' = "done" /\ outcome' = "unexecuted"
  /\ UNCHANGED <<processVars, userVars, copyVars, env, todo, copyErrors, survivors, seen>>

Invoke ==
  /\ phase = "invoked"
  /\ IF InPlace
     THEN tree' = [f \in Files |-> Mutated] /\ phase' = "done" /\ UNCHANGED dir
     ELSE UNCHANGED tree /\ phase' = "list" /\ dir' = TRUE
  /\ env' = env \ {"stale"}   \* the sandbox sets the variable anew
  /\ UNCHANGED <<processVars, userHead, edits, copy, baseline, todo, copyErrors,
                 outcome, survivors, seen>>

\* The with statement is left, and the removal of the copy begins.
RemovesWith(answer) ==
  /\ phase' = "empty"
  /\ outcome' = answer
  /\ survivors' = alive
  /\ todo' = {f \in Files : copy[f] # Absent}

\* scandir: what is there, links to nowhere included; or there is no such root.
List ==
  /\ phase = "list"
  /\ \/ /\ todo' = {f \in Files : tree[f] # Absent \/ f \in Links}
        /\ seen' = [f \in Files |-> {tree[f]}]
        /\ phase' = "copy"
        /\ UNCHANGED <<outcome, survivors>>
     \/ RemovesWith("unexecuted") /\ UNCHANGED seen
  /\ UNCHANGED <<processVars, userVars, copyVars, env, copyErrors>>

\* A file that is gone, or cannot be read or written, is noted as an error, and
\* copytree goes on.
CopyFile(f) ==
  /\ phase = "copy" /\ f \in todo
  /\ todo' = todo \ {f}
  /\ \/ tree[f] # Absent /\ copy' = [copy EXCEPT ![f] = tree[f]] /\ UNCHANGED copyErrors
     \/ copyErrors' = TRUE /\ UNCHANGED copy
  /\ UNCHANGED <<processVars, userVars, dir, baseline, env, phase, outcome, survivors, seen>>

\* shutil.Error, an OSError, when anything could not be copied.
CopyEnds_Tolerant ==   \* mutant: the errors are dropped
  /\ phase = "copy" /\ todo = {}
  /\ phase' = "git"
  /\ UNCHANGED <<processVars, userVars, copyVars, env, copyErrors, seen, outcome, survivors, todo>>
CopyEnds ==
  /\ phase = "copy" /\ todo = {}
  /\ IF copyErrors THEN RemovesWith("unexecuted")
     ELSE phase' = "git" /\ UNCHANGED <<outcome, survivors, todo>>
  /\ UNCHANGED <<processVars, userVars, copyVars, env, copyErrors, seen>>

\* The environment of git and of the drill: no variable GIT_*.
ChildEnv_Inherited == env   \* mutant: os.environ
ChildEnv == {v \in env : v # "GIT_DIR"}

\* `git add .` honours the .gitignore that was copied with the rest.
Added == [f \in Files |-> IF f \in Ignored THEN Absent ELSE copy[f]]

\* A commit goes to the repository in the copy, or to the one GIT_DIR names.
Commits ==
  IF "GIT_DIR" \in ChildEnv
  THEN userHead' = "drill" /\ UNCHANGED baseline
  ELSE baseline' = Added /\ UNCHANGED userHead

\* git init, git add and git commit, which refuses an empty commit; or any of
\* them fails, is not installed or takes longer than 30 seconds.
GitBaseline ==
  /\ phase = "git"
  /\ \/ /\ Added # Nothing /\ Commits
        /\ phase' = "call" /\ UNCHANGED <<outcome, survivors, todo>>
     \/ RemovesWith("unexecuted") /\ UNCHANGED <<userHead, baseline>>
  /\ UNCHANGED <<processVars, tree, edits, copy, dir, env, copyErrors, seen>>

-----------------------------------------------------------------------------
(* The drill. *)

CallRun ==
  /\ phase = "call"
  /\ P!Start \/ P!StartFails
  /\ phase' = "run"
  /\ seen' = [f \in Files |-> {}]
  /\ UNCHANGED <<userVars, copyVars, env, todo, copyErrors, outcome, survivors>>

RunStep_GivesUp ==   \* mutant: the timeout is reported and the group left running
  /\ phase = "run"
  /\ P!CommunicateReturns \/ (pc = "communicate" /\ expired /\ pc' = "timed_out"
                              /\ UNCHANGED <<born, alive, inGroup, holds, status,
                                             garbled, expired>>)
  /\ UNCHANGED <<userVars, copyVars, control, seen>>
RunStep ==
  /\ phase = "run"
  /\ P!CommunicateReturns \/ P!TimeoutKillsGroup \/ P!DrainRaises
  /\ UNCHANGED <<userVars, copyVars, control, seen>>

Answer ==
  CASE pc = "returned"                  -> status
    [] pc \in {"timed_out", "os_error"} -> "unexecuted"
    [] pc = "decode_error"              -> "traceback"

RunEnds ==
  /\ phase = "run" /\ pc \in P!Ended
  /\ RemovesWith(Answer)
  /\ UNCHANGED <<processVars, userVars, copyVars, env, copyErrors, seen>>

\* Ctrl-C: the exception leaves run without a kill, for the drill is in a
\* session of its own, and the copy is removed under it.
Interrupt ==
  /\ phase \in {"list", "copy", "git", "call", "run"}
  /\ RemovesWith("interrupted")
  /\ UNCHANGED <<processVars, userVars, copyVars, env, copyErrors, seen>>

-----------------------------------------------------------------------------
(* TemporaryDirectory.cleanup: rmtree unlinks what it has listed, a file that *)
(* is gone being no error, and then removes the directory.                    *)

RemoveFile(f) ==
  /\ phase = "empty" /\ f \in todo
  /\ todo' = todo \ {f}
  /\ copy' = [copy EXCEPT ![f] = Absent]
  /\ UNCHANGED <<processVars, userVars, dir, baseline, env, phase, copyErrors, outcome,
                 survivors, seen>>

RemoveEnds ==
  /\ phase = "empty" /\ todo = {}
  /\ phase' = "rmdir"
  /\ UNCHANGED <<processVars, userVars, copyVars, env, todo, copyErrors, outcome, survivors, seen>>

\* A directory that is not empty raises OSError, which replaces whatever the
\* answer was.
RemoveDir_Ignoring ==   \* mutant: ignore_cleanup_errors=True
  /\ phase = "rmdir"
  /\ phase' = "done"
  /\ dir' = (copy # Nothing)
  /\ UNCHANGED <<processVars, userVars, copy, baseline, env, todo, copyErrors, outcome,
                 survivors, seen>>
RemoveDir ==
  /\ phase = "rmdir"
  /\ phase' = "done"
  /\ IF copy = Nothing THEN dir' = FALSE /\ UNCHANGED outcome
     ELSE outcome' = "unexecuted" /\ UNCHANGED dir
  /\ UNCHANGED <<processVars, userVars, copy, baseline, env, todo, copyErrors, survivors, seen>>

\* The sandbox process itself is killed.
Lost ==
  /\ phase \notin {"invoked", "done", "lost"}
  /\ phase' = "lost"
  /\ UNCHANGED <<processVars, userVars, copyVars, env, todo, copyErrors, outcome, survivors, seen>>

-----------------------------------------------------------------------------
(* The processes of the drill, during the call of run and after it. *)

\* copytree follows links: there are none in the copy.
WritesThrough_Kept(f) == f \in Links   \* mutant: copytree(symlinks=True)
WritesThrough(f) == FALSE

Plants(p, f, content) ==
  /\ p \in alive /\ dir
  /\ IF WritesThrough(f)
     THEN tree' = [tree EXCEPT ![f] = content] /\ UNCHANGED copy
     ELSE copy' = [copy EXCEPT ![f] = content] /\ UNCHANGED tree
  /\ UNCHANGED <<processVars, userHead, edits, dir, baseline, control, seen>>

ProcessStep == P!Command /\ UNCHANGED <<userVars, copyVars, control, seen>>
Deadline == phase = "run" /\ P!Deadline /\ UNCHANGED <<userVars, copyVars, control, seen>>

Drill ==
  \/ ProcessStep
  \/ \E p \in Procs, f \in Files, content \in {Mutated, Absent} : Plants(p, f, content)

Main ==
  \/ Refuse \/ Invoke \/ List \/ (\E f \in Files : CopyFile(f)) \/ CopyEnds \/ GitBaseline
  \/ CallRun \/ RunStep \/ RunEnds
  \/ (\E f \in Files : RemoveFile(f)) \/ RemoveEnds \/ RemoveDir

Finished == phase \in {"done", "lost"} /\ alive = {} /\ UNCHANGED vars

Next == User \/ Main \/ Interrupt \/ Lost \/ Drill \/ Deadline \/ Finished

Spec == Init /\ [][Next]_vars

-----------------------------------------------------------------------------
(* Properties. *)

\* README, "They preserve pre-existing edits": whatever a drill does to the files
\* it is given, for how long its processes live and from wherever it was started,
\* the files and the history of the user's repository change only by the user's
\* own hand.  It is against accidents: a drill is trusted code, and one that asks
\* for the repository by its own path is not stopped (sandbox.py:3-4).
UserWorkIsPreserved == [][tree' # tree \/ userHead' # userHead => User]_vars

\* Comment on the baseline: no uncommitted change of the user's shows in a diff
\* the drill makes.  What it finds when it starts is committed, but for what git
\* ignores, which copytree takes along all the same; and it is what the repository
\* held, file by file, at some time while it was copied.  No file is missing but
\* one that was missing there.
DrillStartsClean ==
  [][phase = "call" /\ phase' = "run" =>
       /\ \A f \in Files \ Ignored : baseline[f] = copy[f]
       /\ \A f \in Files : copy[f] \in seen[f]
       /\ \E f \in Files \ Ignored : copy[f] # Absent]_vars

\* Exit 0 is the drill's own: it ran to its end in a copy, its output is
\* complete, and the copy is gone.
ExitZeroIsEarned ==
  phase = "done" /\ outcome = "zero" =>
    /\ pc = "returned" /\ status = "zero"
    /\ holds = {} /\ ~dir

\* The copy is left behind only for a process that outlived the call: after a
\* timeout one that had left the killed group.  And a drill that came to its
\* end is reported as "could not execute" for no other reason.
CopyIsRemoved ==
  phase = "done" /\ (dir \/ (outcome = "unexecuted" /\ pc = "returned")) =>
    /\ survivors # {}
    /\ pc = "timed_out" => survivors \cap inGroup = {}
=============================================================================
