---------------------------- MODULE Sandbox_proofs ---------------------------
(***************************************************************************)
(* A drill in its sandbox, for any files, links, contents and processes.   *)
(* What its processes can do is known from the invariant of process.run,   *)
(* proved beside its other caller, which holds here because every step is  *)
(* one of CheckProcess or leaves the state of the call alone.              *)
(***************************************************************************)
EXTENDS Sandbox, TLAPS

\* What is proved of the call alone; what verify adds to it has no part here.
C == INSTANCE VerifyRunner_proofs
       WITH Contents <- {}, repo <- 0, validArgs <- 0, phase <- 0, saw <- 0, receipt <- 0

-----------------------------------------------------------------------------
(* A drill: the call of run. *)

\* process.run has been called from phase "run" on, and never before.
CallInv ==
  /\ C!IInv
  /\ phase \in {"invoked", "list", "copy", "git", "call"} => pc = "ready"
  /\ phase = "run" => pc # "ready"
  /\ env \subseteq {"GIT_DIR", "stale"}

LEMMA InitCall == Init => CallInv
<1> SUFFICES ASSUME Init PROVE CallInv
  OBVIOUS
<1>1. C!Init
  BY DEF Init, P!Init, C!Init
<1>2. C!IInv
  BY <1>1, C!InitIInv, LeaderAssumption
<1> QED BY <1>1, <1>2 DEF Init, CallInv, C!Init

\* Every step is a step of CheckProcess or none of its steps.
LEMMA StepIsRun == ASSUME [Next]_vars PROVE [C!Next]_(C!vars)
<1> USE DEF C!vars, processVars
<1>1. CASE User
  BY <1>1 DEF User, UserEdits
<1>2. CASE Main
  <2>1. CASE Refuse \/ Invoke \/ List \/ CopyEnds \/ GitBaseline
    BY <2>1 DEF Refuse, Invoke, List, CopyEnds, GitBaseline
  <2>2. CASE \E f \in Files : CopyFile(f) \/ RemoveFile(f)
    BY <2>2 DEF CopyFile, RemoveFile
  <2>3. CASE CallRun
    <3>1. CASE P!Start
      BY <3>1 DEF P!Start, C!Start, C!Run, C!Next
    <3>2. CASE P!StartFails
      BY <3>2 DEF P!StartFails, C!StartFails, C!Run, C!Next, P!procs, C!procs
    <3> QED BY <2>3, <3>1, <3>2 DEF CallRun
  <2>4. CASE RunStep
    <3>1. CASE P!CommunicateReturns
      BY <3>1 DEF P!CommunicateReturns, C!CommunicateReturns, C!Run, C!Next, P!procs,
                  C!procs, P!OutputEnds, C!OutputEnds
    <3>2. CASE P!TimeoutKillsGroup
      BY <3>2 DEF P!TimeoutKillsGroup, C!TimeoutKillsGroup, C!Run, C!Next, P!Killed, C!Killed
    <3>3. CASE P!DrainRaises
      BY <3>3 DEF P!DrainRaises, C!DrainRaises, C!Run, C!Next, P!procs, C!procs,
                  P!OutputEnds, C!OutputEnds
    <3> QED BY <2>4, <3>1, <3>2, <3>3 DEF RunStep
  <2>5. CASE RunEnds \/ RemoveEnds \/ RemoveDir
    BY <2>5 DEF RunEnds, RemoveEnds, RemoveDir
  <2> QED BY <1>2, <2>1, <2>2, <2>3, <2>4, <2>5 DEF Main
<1>3. CASE Interrupt \/ Lost
  BY <1>3 DEF Interrupt, Lost
<1>4. CASE Drill
  <2>1. CASE ProcessStep
    <3>1. P!Command
      BY <2>1 DEF ProcessStep
    <3>2. PICK p \in Procs : \/ \E c \in Procs : P!Fork(p, c)
                             \/ P!Redirect(p) \/ P!NewSession(p)
                             \/ P!PrintBytes(p) \/ P!Exit(p)
      BY <3>1 DEF P!Command
    <3>3. CASE \E c \in Procs : P!Fork(p, c)
      BY <3>3 DEF P!Fork, C!Fork, C!Command, C!Next
    <3>4. CASE P!Redirect(p) \/ P!NewSession(p)
      BY <3>4 DEF P!Redirect, C!Redirect, P!NewSession, C!NewSession, C!Command, C!Next
    <3>5. CASE P!PrintBytes(p) \/ P!Exit(p)
      BY <3>5 DEF P!PrintBytes, C!PrintBytes, P!Exit, C!Exit, P!Exits, C!Exits, C!Command, C!Next
    <3> QED BY <3>2, <3>3, <3>4, <3>5
  <2>2. CASE \E p \in Procs, f \in Files, content \in {Mutated, Absent} : Plants(p, f, content)
    BY <2>2 DEF Plants
  <2> QED BY <1>4, <2>1, <2>2 DEF Drill
<1>5. CASE Deadline
  BY <1>5 DEF Deadline, P!Deadline, C!Deadline, C!Next, P!procs, C!procs
<1>6. CASE Finished \/ UNCHANGED vars
  BY <1>6 DEF Finished, vars
<1> QED BY <1>1, <1>2, <1>3, <1>4, <1>5, <1>6 DEF Next

\* What CheckProcess guarantees of the processes.
LEMMA RunFacts == ASSUME C!IInv
                  PROVE  /\ pc \in {"ready", "os_error"} => alive = {}
                         /\ C!OutputIsComplete /\ C!KillReachesGroup
                         /\ holds \subseteq alive
BY DEF C!IInv, C!TypeOK, C!LeaderIsBorn

LEMMA CommandFacts == ASSUME C!IInv, P!Command
                      PROVE  /\ pc' = pc
                             /\ alive # {}
                             /\ pc = "timed_out" => inGroup' \subseteq inGroup
                             /\ pc = "returned" => status' = status
<1>1. PICK p \in Procs : \/ \E c \in Procs : P!Fork(p, c)
                         \/ P!Redirect(p) \/ P!NewSession(p)
                         \/ P!PrintBytes(p) \/ P!Exit(p)
  BY DEF P!Command
<1>2. p \in alive
  BY <1>1, RunFacts DEF P!Fork, P!Redirect, P!NewSession, P!PrintBytes, P!Exit
<1>3. pc' = pc
  BY <1>1 DEF P!Fork, P!Redirect, P!NewSession, P!PrintBytes, P!Exit
<1>4. pc = "timed_out" => inGroup' \subseteq inGroup
  <2>1. pc = "timed_out" => p \notin inGroup
    BY <1>2, RunFacts DEF C!KillReachesGroup
  <2> QED BY <1>1, <2>1 DEF P!Fork, P!Redirect, P!NewSession, P!PrintBytes, P!Exit
<1>5. pc = "returned" => status' = status
  <2>1. pc = "returned" => p # Leader
    BY <1>2, RunFacts DEF C!OutputIsComplete, C!Ended
  <2> QED BY <1>1, <2>1 DEF P!Fork, P!Redirect, P!NewSession, P!PrintBytes, P!Exit
<1> QED BY <1>2, <1>3, <1>4, <1>5

-----------------------------------------------------------------------------
(* The call of run, and what the drill's environment never holds. *)

LEMMA NextCall == ASSUME CallInv, [Next]_vars PROVE CallInv'
<1>1. C!IInv'
  BY StepIsRun, C!NextIInv, LeaderAssumption DEF CallInv
<1> SUFFICES (/\ phase \in {"invoked", "list", "copy", "git", "call"} => pc = "ready"
              /\ phase = "run" => pc # "ready"
              /\ env \subseteq {"GIT_DIR", "stale"})'
  BY <1>1 DEF CallInv
<1> USE DEF CallInv, processVars, control
<1>2. CASE User
  BY <1>2 DEF User, UserEdits
<1>3. CASE Refuse \/ Invoke
  BY <1>3 DEF Refuse, Invoke
<1>4. CASE List \/ CopyEnds \/ GitBaseline \/ \E f \in Files : CopyFile(f)
  BY <1>4 DEF List, CopyEnds, GitBaseline, CopyFile, RemovesWith
<1>5. CASE CallRun
  BY <1>5 DEF CallRun, P!Start, P!StartFails
<1>6. CASE RunStep
  BY <1>6 DEF RunStep, P!CommunicateReturns, P!TimeoutKillsGroup, P!DrainRaises
<1>7. CASE RunEnds \/ Interrupt \/ Lost
  BY <1>7 DEF RunEnds, Interrupt, RemovesWith, Lost
<1>8. CASE RemoveEnds \/ RemoveDir \/ \E f \in Files : RemoveFile(f)
  BY <1>8 DEF RemoveEnds, RemoveDir, RemoveFile
<1>9. CASE ProcessStep
  BY <1>9, CommandFacts DEF ProcessStep
<1>10. CASE \E p \in Procs, f \in Files, content \in {Mutated, Absent} : Plants(p, f, content)
  BY <1>10 DEF Plants
<1>11. CASE Deadline
  BY <1>11 DEF Deadline, P!Deadline
<1>12. CASE Finished \/ UNCHANGED vars
  BY <1>12 DEF Finished, vars
<1> QED BY <1>2, <1>3, <1>4, <1>5, <1>6, <1>7, <1>8, <1>9, <1>10, <1>11, <1>12
        DEF Next, Main, Drill

\* The call of run is an instance of CheckProcess, in which the invariant proved
\* there holds, and no drill is ever handed the repository as its sandbox.
THEOREM CallInvariance == Spec => []CallInv
BY InitCall, NextCall, PTL DEF Spec

\* Nothing but the user's own hand changes the files or the history of the
\* repository (README; sandbox.py:23-43).
THEOREM WorkIsPreserved == Spec => UserWorkIsPreserved
<1>1. ASSUME CallInv, [Next]_vars
      PROVE  [tree' # tree \/ userHead' # userHead => User]_vars
  <2> SUFFICES ASSUME Next, ~User PROVE tree' = tree /\ userHead' = userHead
    BY <1>1
  <2> USE DEF CallInv, userVars
  <2>1. CASE Refuse \/ List \/ CopyEnds \/ CallRun \/ RunStep \/ RunEnds
    BY <2>1 DEF Refuse, List, CopyEnds, CallRun, RunStep, RunEnds
  <2>2. CASE Invoke
    BY <1>1, <2>2 DEF Invoke, InPlace
  <2>3. CASE GitBaseline
    BY <2>3 DEF GitBaseline, Commits, ChildEnv
  <2>4. CASE RemoveEnds \/ RemoveDir \/ \E f \in Files : CopyFile(f) \/ RemoveFile(f)
    BY <2>4 DEF RemoveEnds, RemoveDir, CopyFile, RemoveFile
  <2>5. CASE Interrupt \/ Lost \/ ProcessStep \/ Deadline \/ Finished
    BY <2>5 DEF Interrupt, Lost, ProcessStep, Deadline, Finished, vars
  <2>6. CASE \E p \in Procs, f \in Files, content \in {Mutated, Absent} : Plants(p, f, content)
    BY <2>6 DEF Plants, WritesThrough
  <2> QED BY <2>1, <2>2, <2>3, <2>4, <2>5, <2>6 DEF Next, Main, Drill
<1> QED BY <1>1, CallInvariance, PTL DEF Spec, UserWorkIsPreserved

-----------------------------------------------------------------------------
(* The copy, up to the start of the drill. *)

\* A file that was passed without an error has a content its original had since
\* it was listed; one that was not listed was missing.  Nobody else writes to
\* the copy before the call.
CopyInv ==
  /\ copy \in [Files -> Contents]
  /\ phase \in {"invoked", "list"} => copy = Nothing
  /\ phase = "copy" =>
       \A f \in Files : tree[f] \in seen[f] /\ (f \in todo \/ copyErrors \/ copy[f] \in seen[f])
  /\ phase \in {"git", "call"} => \A f \in Files : copy[f] \in seen[f]
  /\ phase = "call" => baseline = Added /\ Added # Nothing

TreeInv == tree \in [Files -> Contents] /\ seen \in [Files -> SUBSET Contents]

LEMMA InitCopy == Init => TreeInv /\ CopyInv
BY DEF Init, TreeInv, CopyInv, Nothing, Contents

LEMMA NextTree == ASSUME TreeInv, [Next]_vars PROVE TreeInv'
<1> USE DEF TreeInv, userVars
<1>1. ASSUME NEW f \in Files, NEW content \in Versions \cup {Absent}, UserEdits(f, content)
      PROVE  TreeInv'
  BY <1>1 DEF UserEdits, Contents
<1>2. CASE Refuse \/ CopyEnds \/ RunStep \/ RunEnds \/ GitBaseline
  BY <1>2 DEF Refuse, CopyEnds, RunStep, RunEnds, GitBaseline
<1>3. CASE Invoke
  BY <1>3 DEF Invoke, Contents
<1>4. CASE List \/ CallRun
  BY <1>4 DEF List, CallRun
<1>5. CASE RemoveEnds \/ RemoveDir \/ \E f \in Files : CopyFile(f) \/ RemoveFile(f)
  BY <1>5 DEF RemoveEnds, RemoveDir, CopyFile, RemoveFile
<1>6. CASE Interrupt \/ Lost \/ ProcessStep \/ Deadline \/ Finished \/ UNCHANGED vars
  BY <1>6 DEF Interrupt, Lost, ProcessStep, Deadline, Finished, vars
<1>7. ASSUME NEW p \in Procs, NEW f \in Files, NEW content \in {Mutated, Absent},
             Plants(p, f, content)
      PROVE  TreeInv'
  BY <1>7 DEF Plants, WritesThrough
<1> QED BY <1>1, <1>2, <1>3, <1>4, <1>5, <1>6, <1>7 DEF Next, Main, Drill, User

LEMMA NextCopy == ASSUME CallInv, TreeInv, CopyInv, [Next]_vars PROVE CopyInv'
<1> USE DEF TreeInv, CopyInv, copyVars, userVars, control
<1>0. copy' = copy => Added' = Added
  BY DEF Added
<1>1. ASSUME NEW f \in Files, NEW content \in Versions \cup {Absent}, UserEdits(f, content)
      PROVE  CopyInv'
  <2>1. UNCHANGED <<copy, baseline, phase, todo, copyErrors>>
    BY <1>1, <1>0 DEF UserEdits
  <2>2. ASSUME NEW g \in Files PROVE seen[g] \subseteq seen'[g]
    BY <1>1 DEF UserEdits
  <2>3. ASSUME phase = "copy", NEW g \in Files PROVE tree'[g] \in seen'[g]
    BY <1>1, <2>3 DEF UserEdits
  <2> QED BY <1>0, <2>1, <2>2, <2>3
<1>2. CASE Refuse \/ Invoke
  BY <1>2 DEF Refuse, Invoke
<1>3. CASE List
  <2>1. CASE phase' = "copy"
    <3>1. /\ todo' = {f \in Files : tree[f] # Absent \/ f \in Links}
          /\ seen' = [f \in Files |-> {tree[f]}]
          /\ UNCHANGED <<tree, copy, baseline, copyErrors>> /\ copy = Nothing
      BY <1>3, <2>1 DEF List, RemovesWith
    <3> QED BY <3>1, <2>1 DEF Nothing
  <2>2. CASE phase' = "empty"
    BY <1>3, <2>2 DEF List
  <2> QED BY <1>3, <2>1, <2>2 DEF List, RemovesWith
<1>4. ASSUME NEW f \in Files, CopyFile(f) PROVE CopyInv'
  <2>1. /\ phase = "copy" /\ todo' = todo \ {f}
        /\ UNCHANGED <<tree, seen, baseline, phase>>
    BY <1>4 DEF CopyFile
  <2>2. CASE copy' = [copy EXCEPT ![f] = tree[f]] /\ UNCHANGED copyErrors
    <3>1. copy' \in [Files -> Contents]
      BY <2>2
    <3>2. ASSUME NEW g \in Files PROVE g \in todo' \/ copyErrors' \/ copy'[g] \in seen[g]
      BY <2>1, <2>2
    <3> QED BY <2>1, <3>1, <3>2
  <2>3. CASE copyErrors' = TRUE /\ UNCHANGED copy
    BY <2>1, <2>3
  <2> QED BY <1>4, <2>2, <2>3 DEF CopyFile
<1>5. CASE CopyEnds
  BY <1>5 DEF CopyEnds, RemovesWith
<1>6. CASE GitBaseline
  BY <1>6 DEF GitBaseline, RemovesWith, Commits, ChildEnv, Added
<1>7. CASE CallRun \/ RunStep \/ RunEnds
  BY <1>7 DEF CallRun, RunStep, RunEnds, RemovesWith
<1>8. CASE RemoveEnds \/ RemoveDir
  BY <1>8 DEF RemoveEnds, RemoveDir
<1>9. ASSUME NEW f \in Files, RemoveFile(f) PROVE CopyInv'
  BY <1>9 DEF RemoveFile, Contents
<1>10. CASE Interrupt \/ Lost \/ ProcessStep \/ Deadline \/ Finished \/ UNCHANGED vars
  BY <1>10, <1>0 DEF Interrupt, RemovesWith, Lost, ProcessStep, Deadline, Finished, vars
<1>11. ASSUME NEW p \in Procs, NEW f \in Files, NEW content \in {Mutated, Absent},
              Plants(p, f, content)
       PROVE  CopyInv'
  <2>1. phase \notin {"invoked", "list", "copy", "git", "call"}
    BY <1>11, RunFacts DEF Plants, CallInv
  <2>2. copy' \in [Files -> Contents] /\ phase' = phase
    BY <1>11 DEF Plants, WritesThrough, Contents
  <2> QED BY <2>1, <2>2
<1> QED BY <1>1, <1>2, <1>3, <1>4, <1>5, <1>6, <1>7, <1>8, <1>9, <1>10, <1>11
        DEF Next, Main, Drill, User

\* The drill starts in a copy that is committed but for what git ignores, with
\* something in the commit, and holds each file as it was at some time while it
\* was copied (sandbox.py:25-78).
THEOREM StartsClean == Spec => DrillStartsClean
<1>1. ASSUME CopyInv
      PROVE  [phase = "call" /\ phase' = "run" =>
                /\ \A f \in Files \ Ignored : baseline[f] = copy[f]
                /\ \A f \in Files : copy[f] \in seen[f]
                /\ \E f \in Files \ Ignored : copy[f] # Absent]_vars
  <2> SUFFICES ASSUME phase = "call"
               PROVE  /\ \A f \in Files \ Ignored : baseline[f] = copy[f]
                      /\ \A f \in Files : copy[f] \in seen[f]
                      /\ \E f \in Files \ Ignored : copy[f] # Absent
    OBVIOUS
  <2>1. baseline = Added /\ Added # Nothing /\ \A f \in Files : copy[f] \in seen[f]
    BY <1>1 DEF CopyInv
  <2>2. \A f \in Files : Added[f] = IF f \in Ignored THEN Absent ELSE copy[f]
    BY DEF Added
  <2>3. \E f \in Files : Added[f] # Absent
    BY <2>1 DEF Added, Nothing
  <2> QED BY <2>1, <2>2, <2>3
<1>2. Spec => []CopyInv
  <2>1. CallInv /\ TreeInv /\ CopyInv /\ [Next]_vars => (CallInv /\ TreeInv /\ CopyInv)'
    BY NextCall, NextTree, NextCopy
  <2> QED BY InitCall, InitCopy, <2>1, PTL DEF Spec
<1> QED BY <1>1, <1>2, PTL DEF Spec, DrillStartsClean

-----------------------------------------------------------------------------
(* The removal of the copy, and the answer. *)

\* If nothing was alive when the removal began, nothing is alive since, and the
\* files still in the copy are still to be unlinked.
NobodyLeft ==
  survivors = {} =>
    /\ phase \in {"empty", "rmdir", "done"} => alive = {}
    /\ phase = "empty" => \A f \in Files : copy[f] # Absent => f \in todo
    /\ phase = "rmdir" => copy = Nothing
    /\ phase = "done" => ~dir

\* The answer that was decided when the removal began.
AnswerInv ==
  /\ phase = "invoked" => ~dir
  /\ phase \in {"invoked", "list", "copy", "git", "call", "run"} => outcome = "none"
  /\ phase \in {"empty", "rmdir"} /\ outcome = "zero" => pc = "returned" /\ status = "zero"
  /\ phase \in {"empty", "rmdir"} /\ outcome = "unexecuted" => pc # "returned"
  /\ phase \in {"empty", "rmdir", "done"} /\ pc = "timed_out" => survivors \cap inGroup = {}
  /\ phase = "done" /\ outcome = "zero" => pc = "returned" /\ status = "zero" /\ ~dir
  /\ phase = "done" /\ outcome = "unexecuted" /\ pc = "returned" => survivors # {}

RemovalInv == NobodyLeft /\ AnswerInv

LEMMA InitRemoval == Init => RemovalInv
BY DEF Init, RemovalInv, NobodyLeft, AnswerInv

\* The removal begins.
LEMMA RemovesWithInv ==
  ASSUME CallInv, CopyInv, RemovalInv, NEW answer \in Outcomes, RemovesWith(answer),
         UNCHANGED <<processVars, copyVars>>,
         answer = "zero" => pc = "returned" /\ status = "zero",
         answer = "unexecuted" => pc # "returned"
  PROVE  RemovalInv'
<1> USE DEF RemovesWith, processVars, copyVars
<1>1. NobodyLeft'
  BY DEF NobodyLeft
<1>2. AnswerInv'
  BY RunFacts DEF AnswerInv, CallInv, C!KillReachesGroup
<1> QED BY <1>1, <1>2 DEF RemovalInv

\* The caller's own steps.
LEMMA MainRemoval == ASSUME CallInv, CopyInv, RemovalInv, Main PROVE RemovalInv'
<1> USE DEF processVars, copyVars
<1>1. CASE Refuse \/ Invoke
  BY <1>1, RunFacts DEF Refuse, Invoke, InPlace, CallInv, RemovalInv, NobodyLeft, AnswerInv
<1>2. CASE List \/ CopyEnds \/ GitBaseline
  <2>1. pc = "ready"
    BY <1>2 DEF List, CopyEnds, GitBaseline, CallInv
  <2>2. CASE RemovesWith("unexecuted") /\ UNCHANGED <<processVars, copyVars>>
    BY <2>1, <2>2, RemovesWithInv DEF Outcomes
  <2>3. CASE phase' \in {"copy", "git", "call"}
    BY <1>2, <2>3 DEF List, CopyEnds, GitBaseline, RemovesWith, RemovalInv, NobodyLeft, AnswerInv
  <2> QED BY <1>2, <2>2, <2>3 DEF List, CopyEnds, GitBaseline
<1>3. CASE CallRun \/ RunStep
  BY <1>3 DEF CallRun, RunStep, control, RemovalInv, NobodyLeft, AnswerInv
<1>4. CASE RunEnds
  <2>1. pc \in C!Ended /\ RemovesWith(Answer) /\ UNCHANGED <<processVars, copyVars>>
    BY <1>4 DEF RunEnds, P!Ended, C!Ended
  <2>2. pc = "returned" => status \in {"zero", "nonzero"}
    BY <2>1, RunFacts DEF CallInv, C!OutputIsComplete, C!Exits
  <2>3. /\ Answer \in Outcomes
        /\ Answer = "zero" => pc = "returned" /\ status = "zero"
        /\ Answer = "unexecuted" => pc # "returned"
    BY <2>1, <2>2 DEF Answer, C!Ended, Outcomes
  <2> QED BY <2>1, <2>3, RemovesWithInv
<1>5. ASSUME NEW f \in Files, CopyFile(f) PROVE RemovalInv'
  BY <1>5 DEF CopyFile, RemovalInv, NobodyLeft, AnswerInv
<1>6. ASSUME NEW f \in Files, RemoveFile(f) PROVE RemovalInv'
  <2>1. AnswerInv'
    BY <1>6 DEF RemoveFile, RemovalInv, AnswerInv
  <2>2. NobodyLeft'
    BY <1>6 DEF RemoveFile, RemovalInv, NobodyLeft, CopyInv
  <2> QED BY <2>1, <2>2 DEF RemovalInv
<1>7. CASE RemoveEnds
  BY <1>7 DEF RemoveEnds, RemovalInv, NobodyLeft, AnswerInv, CopyInv, Nothing
<1>8. CASE RemoveDir
  BY <1>8 DEF RemoveDir, RemovalInv, NobodyLeft, AnswerInv
<1> QED BY <1>1, <1>2, <1>3, <1>4, <1>5, <1>6, <1>7, <1>8 DEF Main

\* The drill's processes: alive, they were survivors or descend from one, and
\* past a timeout none is in the group.
LEMMA DrillRemoval == ASSUME CallInv, CopyInv, RemovalInv, Drill PROVE RemovalInv'
<1> USE DEF RemovalInv, NobodyLeft, AnswerInv
<1>1. CASE ProcessStep
  BY <1>1, CommandFacts DEF ProcessStep, CallInv, userVars, copyVars, control
<1>2. ASSUME NEW p \in Procs, NEW f \in Files, NEW content \in {Mutated, Absent},
             Plants(p, f, content)
      PROVE  RemovalInv'
  <2>1. UNCHANGED <<processVars, dir, control>> /\ alive # {}
    BY <1>2 DEF Plants
  <2> QED BY <2>1 DEF processVars, control
<1> QED BY <1>1, <1>2 DEF Drill

LEMMA NextRemoval == ASSUME CallInv, CopyInv, RemovalInv, [Next]_vars PROVE RemovalInv'
<1>1. CASE User
  BY <1>1 DEF User, UserEdits, processVars, copyVars, control, RemovalInv, NobodyLeft, AnswerInv
<1>2. CASE Interrupt
  BY <1>2, RemovesWithInv DEF Interrupt, Outcomes
<1>3. CASE Lost
  BY <1>3 DEF Lost, RemovalInv, NobodyLeft, AnswerInv
<1>4. CASE Deadline
  BY <1>4 DEF Deadline, P!Deadline, P!procs, copyVars, control, RemovalInv, NobodyLeft, AnswerInv
<1>5. CASE Finished \/ UNCHANGED vars
  BY <1>5 DEF Finished, vars, processVars, copyVars, control, RemovalInv, NobodyLeft, AnswerInv
<1> QED BY <1>1, <1>2, <1>3, <1>4, <1>5, MainRemoval, DrillRemoval DEF Next

\* The invariants together.
IInv == CallInv /\ TreeInv /\ CopyInv /\ RemovalInv

THEOREM Invariance == Spec => []IInv
<1>1. Init => IInv
  BY InitCall, InitCopy, InitRemoval DEF IInv
<1>2. ASSUME IInv, [Next]_vars PROVE IInv'
  BY <1>2, NextCall, NextTree, NextCopy, NextRemoval DEF IInv
<1> QED BY <1>1, <1>2, PTL DEF Spec

\* Exit 0 of a drill means that it ran to its end in a copy, that its output is
\* complete and that the copy is gone (sandbox.py:78-92).
THEOREM ExitZero == Spec => []ExitZeroIsEarned
<1>1. ASSUME IInv PROVE ExitZeroIsEarned
  BY <1>1, RunFacts DEF IInv, CallInv, RemovalInv, AnswerInv, ExitZeroIsEarned,
                        C!OutputIsComplete, C!Ended
<1> QED BY <1>1, Invariance, PTL

\* The copy stays behind, and a finished drill is reported as failed, only when
\* a process outlived the call, past a timeout one outside the killed group.
THEOREM CopyRemoved == Spec => []CopyIsRemoved
<1>1. ASSUME IInv PROVE CopyIsRemoved
  BY <1>1 DEF IInv, RemovalInv, NobodyLeft, AnswerInv, CopyIsRemoved
<1> QED BY <1>1, Invariance, PTL

-----------------------------------------------------------------------------
(* Types. *)

\* The part of TypeOK that the invariants above do not have.
ControlTypes ==
  /\ userHead \in {"user", "drill"}
  /\ dir \in BOOLEAN
  /\ baseline \in [Files -> Contents]
  /\ phase \in Phases
  /\ todo \subseteq Files
  /\ copyErrors \in BOOLEAN
  /\ outcome \in Outcomes
  /\ survivors \subseteq Procs
  /\ edits \in 0..MaxEdits

LEMMA InitTypes == Init => ControlTypes
<1> SUFFICES ASSUME Init PROVE ControlTypes
  OBVIOUS
<1>1. baseline \in [Files -> Contents]
  BY DEF Init, Nothing, Contents
<1>2. edits \in 0..MaxEdits
  BY EditsAssumption DEF Init
<1>3. userHead = "user" /\ dir = FALSE /\ phase = "invoked" /\ todo = {} /\ copyErrors = FALSE
      /\ outcome = "none" /\ survivors = {}
  BY DEF Init
<1> QED BY <1>1, <1>2, <1>3 DEF ControlTypes, Phases, Outcomes

LEMMA RemovesWithTypes ==
  ASSUME CallInv, ControlTypes, NEW answer \in Outcomes, RemovesWith(answer),
         UNCHANGED <<userVars, dir, baseline, copyErrors>>
  PROVE  ControlTypes'
<1>1. alive \subseteq Procs
  BY DEF CallInv, C!IInv, C!TypeOK
<1>2. todo' \subseteq Files
  BY DEF RemovesWith
<1> QED BY <1>1, <1>2 DEF RemovesWith, ControlTypes, userVars, Phases

LEMMA NextTypes == ASSUME IInv, ControlTypes, [Next]_vars PROVE ControlTypes'
<1> USE DEF ControlTypes, processVars, userVars, copyVars, control
<1>1. CASE User
  BY <1>1, EditsAssumption DEF User, UserEdits
<1>2. CASE Refuse \/ Invoke
  BY <1>2 DEF Refuse, Invoke, Phases, Outcomes
<1>3. CASE List \/ CopyEnds \/ GitBaseline
  <2>1. CASE RemovesWith("unexecuted") /\ UNCHANGED <<userVars, dir, baseline, copyErrors>>
    BY <2>1, RemovesWithTypes DEF Outcomes, IInv
  <2>2. CASE List /\ phase' = "copy"
    BY <2>2 DEF List, RemovesWith, Phases
  <2>3. CASE CopyEnds /\ phase' = "git"
    BY <2>3 DEF CopyEnds, RemovesWith, Phases
  <2>4. CASE GitBaseline /\ phase' = "call"
    <3>1. Added \in [Files -> Contents]
      BY DEF Added, Contents, IInv, CopyInv
    <3> QED BY <2>4, <3>1 DEF GitBaseline, Commits, RemovesWith, Phases
  <2> QED BY <1>3, <2>1, <2>2, <2>3, <2>4 DEF List, CopyEnds, GitBaseline
<1>4. CASE CallRun \/ RunStep
  BY <1>4 DEF CallRun, RunStep, Phases
<1>5. CASE RunEnds
  <2>1. Answer \in Outcomes
    BY <1>5, RunFacts DEF RunEnds, Answer, P!Ended, C!Ended, C!Exits, Outcomes, IInv, CallInv,
                          C!OutputIsComplete
  <2> QED BY <1>5, <2>1, RemovesWithTypes DEF RunEnds, IInv
<1>6. CASE Interrupt
  BY <1>6, RemovesWithTypes DEF Interrupt, Outcomes, IInv
<1>7. ASSUME NEW f \in Files, CopyFile(f) \/ RemoveFile(f) PROVE ControlTypes'
  BY <1>7 DEF CopyFile, RemoveFile
<1>8. CASE RemoveEnds \/ Lost
  BY <1>8 DEF RemoveEnds, Lost, Phases
<1>9. CASE RemoveDir
  BY <1>9 DEF RemoveDir, Phases, Outcomes
<1>10. CASE ProcessStep \/ Deadline
  BY <1>10 DEF ProcessStep, Deadline
<1>11. ASSUME NEW p \in Procs, NEW f \in Files, NEW content \in {Mutated, Absent},
              Plants(p, f, content)
       PROVE  ControlTypes'
  BY <1>11 DEF Plants
<1>12. CASE Finished \/ UNCHANGED vars
  BY <1>12 DEF Finished, vars
<1> QED BY <1>1, <1>2, <1>3, <1>4, <1>5, <1>6, <1>7, <1>8, <1>9, <1>10, <1>11, <1>12
        DEF Next, Main, Drill

\* Type correctness of the sandbox's state, the call of run included.
THEOREM TypeCorrect == Spec => []TypeOK
<1>1. IInv /\ ControlTypes /\ [Next]_vars => ControlTypes'
  BY NextTypes
<1>2. ASSUME IInv, ControlTypes PROVE TypeOK
  <2>1. P!TypeOK
    BY <1>2 DEF IInv, CallInv, C!IInv, C!TypeOK, P!TypeOK, C!Waiting, P!Waiting, C!Ended,
                P!Ended, C!Exits, P!Exits
  <2> QED BY <1>2, <2>1 DEF IInv, CallInv, TreeInv, CopyInv, ControlTypes, TypeOK
<1> QED BY InitTypes, <1>1, <1>2, Invariance, PTL DEF Spec
=============================================================================
