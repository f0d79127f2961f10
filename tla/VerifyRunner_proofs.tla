------------------------- MODULE VerifyRunner_proofs -------------------------
(***************************************************************************)
(* The safety properties of process.run, for any set of processes the      *)
(* command may consist of, and those of `ai-ready verify`, which calls it, *)
(* for any makefiles as well.                                              *)
(***************************************************************************)
EXTENDS VerifyRunner, TLAPS

-----------------------------------------------------------------------------
(* The call of process.run. *)

\* Before Popen, and when it fails, there is no process; afterwards the leader
\* has been started, so no fork can bring it back, and leads its group, so
\* that killpg reaches it.
LeaderIsBorn ==
  IF pc \in {"ready", "os_error"} THEN born = {} /\ status = "running"
                                  ELSE Leader \in born \cap inGroup

\* While the first communicate() waits, only the leader itself ends the leader.
LeaderEndsItself ==
  pc = "communicate" /\ Leader \notin alive => status \in Exits

IInv ==
  /\ TypeOK
  /\ LeaderIsBorn
  /\ inGroup \subseteq born
  /\ LeaderEndsItself
  /\ OutputIsComplete
  /\ KillReachesGroup

LEMMA InitIInv == Init => IInv
BY LeaderAssumption
   DEF Init, IInv, TypeOK, LeaderIsBorn, LeaderEndsItself, OutputIsComplete,
       KillReachesGroup, Waiting, Ended

\* A step of the caller.
LEMMA RunIInv == ASSUME IInv, Run PROVE IInv'
<1> USE LeaderAssumption
    DEF IInv, TypeOK, LeaderIsBorn, LeaderEndsItself, OutputIsComplete,
        KillReachesGroup, Waiting, Ended, Exits, procs, OutputEnds, Killed
<1>1. CASE Start
  BY <1>1 DEF Start
<1>2. CASE StartFails
  BY <1>2 DEF StartFails
<1>3. CASE CommunicateReturns
  BY <1>3 DEF CommunicateReturns
<1>4. CASE TimeoutKillsGroup
  <2>1. /\ pc = "communicate" /\ pc' = "drain" /\ UNCHANGED <<born, inGroup, garbled, expired>>
        /\ alive' = alive \ inGroup /\ holds' = holds \ inGroup
        /\ status' = IF Leader \in alive THEN "killed" ELSE status
    BY <1>4 DEF TimeoutKillsGroup
  <2>2. Leader \notin alive'
    BY <2>1
  <2>3. TypeOK'
    BY <2>1, <2>2
  <2>4. (LeaderIsBorn /\ LeaderEndsItself /\ OutputIsComplete /\ KillReachesGroup)'
    BY <2>1
  <2> QED BY <2>1, <2>3, <2>4
<1>5. CASE DrainRaises
  BY <1>5 DEF DrainRaises
<1> QED BY <1>1, <1>2, <1>3, <1>4, <1>5 DEF Run

\* A step of the command's processes.  Fork is the one that could break
\* KillReachesGroup: its parent is alive, so after the kill it is outside the
\* group, and the child, not yet born, is not in it either.
LEMMA CommandIInv == ASSUME IInv, Command PROVE IInv'
<1> USE LeaderAssumption
    DEF IInv, TypeOK, LeaderIsBorn, LeaderEndsItself, OutputIsComplete,
        KillReachesGroup, Waiting, Ended, Exits
<1>1. ASSUME NEW p \in Procs, NEW c \in Procs, Fork(p, c) PROVE IInv'
  <2>1. (LeaderIsBorn /\ inGroup \subseteq born)'
    BY <1>1 DEF Fork
  <2>2. (LeaderEndsItself /\ OutputIsComplete)'
    BY <1>1 DEF Fork
  <2>3. KillReachesGroup'
    BY <1>1 DEF Fork
  <2>4. TypeOK'
    BY <1>1 DEF Fork
  <2> QED BY <2>1, <2>2, <2>3, <2>4
<1>2. ASSUME NEW p \in Procs, Redirect(p) PROVE IInv'
  BY <1>2 DEF Redirect
<1>3. ASSUME NEW p \in Procs, NewSession(p) PROVE IInv'
  BY <1>3 DEF NewSession
<1>4. ASSUME NEW p \in Procs, PrintBytes(p) PROVE IInv'
  BY <1>4 DEF PrintBytes
<1>5. ASSUME NEW p \in Procs, Exit(p) PROVE IInv'
  BY <1>5 DEF Exit
<1> QED BY <1>1, <1>2, <1>3, <1>4, <1>5 DEF Command

LEMMA NextIInv == ASSUME IInv, [Next]_vars PROVE IInv'
<1>1. CASE Run
  BY <1>1, RunIInv
<1>2. CASE Deadline
  BY <1>2 DEF Deadline, procs, IInv, TypeOK, LeaderIsBorn, LeaderEndsItself,
              OutputIsComplete, KillReachesGroup
<1>3. CASE Command
  BY <1>3, CommandIInv
<1>4. CASE UNCHANGED vars
  BY <1>4 DEF vars, IInv, TypeOK, LeaderIsBorn, LeaderEndsItself,
              OutputIsComplete, KillReachesGroup
<1> QED BY <1>1, <1>2, <1>3, <1>4 DEF Next, Finished

\* The inductive invariant holds of every behaviour of a call of run.
THEOREM Invariance == Spec => []IInv
BY InitIInv, NextIInv, PTL DEF Spec

\* Type correctness of the call's state, whatever the command is made of.
THEOREM TypeCorrect == Spec => []TypeOK
BY Invariance, PTL DEF IInv

\* process.run hands back a result only when every pipe is closed, and a
\* return value is the leader's own exit code (lines 26 and 34).
THEOREM CompleteOutput == Spec => []OutputIsComplete
BY Invariance, PTL DEF IInv

\* After killpg (line 29) the process group stays empty, however the command
\* forks while it is being killed.
THEOREM GroupIsKilled == Spec => []KillReachesGroup
BY Invariance, PTL DEF IInv

\* What the invariant says of the processes.
LEMMA RunFacts == ASSUME IInv
                  PROVE  /\ pc \in {"ready", "os_error"} => alive = {}
                         /\ OutputIsComplete /\ KillReachesGroup
                         /\ holds \subseteq alive
BY DEF IInv, TypeOK, LeaderIsBorn

\* What a step of the command can do: nothing to a call that has ended, except
\* that a process may leave the group of a killed leader.
LEMMA CommandFacts == ASSUME IInv, Command
                      PROVE  /\ pc' = pc
                             /\ alive # {}
                             /\ pc = "timed_out" => inGroup' \subseteq inGroup
                             /\ pc = "returned" => status' = status
<1>1. PICK p \in Procs : \/ \E c \in Procs : Fork(p, c)
                         \/ Redirect(p) \/ NewSession(p)
                         \/ PrintBytes(p) \/ Exit(p)
  BY DEF Command
<1>2. p \in alive
  BY <1>1, RunFacts DEF Fork, Redirect, NewSession, PrintBytes, Exit
<1>3. pc' = pc
  BY <1>1 DEF Fork, Redirect, NewSession, PrintBytes, Exit
<1>4. pc = "timed_out" => inGroup' \subseteq inGroup
  <2>1. pc = "timed_out" => p \notin inGroup
    BY <1>2, RunFacts DEF KillReachesGroup
  <2> QED BY <1>1, <2>1 DEF Fork, Redirect, NewSession, PrintBytes, Exit
<1>5. pc = "returned" => status' = status
  <2>1. pc = "returned" => p # Leader
    BY <1>2, RunFacts DEF OutputIsComplete, Ended
  <2> QED BY <1>1, <2>1 DEF Fork, Redirect, NewSession, PrintBytes, Exit
<1> QED BY <1>2, <1>3, <1>4, <1>5

-----------------------------------------------------------------------------
(* `ai-ready verify`. *)

\* What a step of make and of its recipe is in CheckProcess, and what it can do
\* to the status of make.
LEMMA MakeSteps ==
  ASSUME Make
  PROVE  /\ Command
         /\ UNCHANGED <<pc, repo, validArgs, phase, saw, receipt>>
         /\ born \subseteq born'
         /\ status' \in {status, "nonzero"} \/ NothingToDo(repo) \/ RecipeRan
<1> USE DEF Make
<1>1. UNCHANGED <<repo, validArgs, phase, saw, receipt>>
  OBVIOUS
<1>2. CASE \E p, c \in Procs : Fork(p, c)
  BY <1>1, <1>2 DEF Fork, Command
<1>3. CASE \E p \in Procs : Redirect(p) \/ NewSession(p) \/ PrintBytes(p)
  BY <1>1, <1>3 DEF Redirect, NewSession, PrintBytes, Command
<1>4. ASSUME NEW p \in Procs, Exit(p),
             p = Leader /\ status' = "zero" =>
               NothingToDo(repo) \/ (Recipe(repo) /\ RecipeRan)
      PROVE  /\ Command
             /\ UNCHANGED <<pc, born>>
             /\ status' \in {status, "nonzero"} \/ NothingToDo(repo) \/ RecipeRan
  BY <1>4 DEF Exit, Exits, Command
<1> QED BY <1>1, <1>2, <1>3, <1>4

\* What the guard vouches for; and what make must have done to exit with 0, in
\* the makefiles as they are since it was started.
Vouched == saw \in {"assign", "bare", "rule", "phony"}
VerifyInv ==
  /\ IInv
  /\ phase \in {"called", "vouched"} => pc = "ready" /\ status = "running"
  /\ phase \in {"vouched", "running"} => Vouched
  /\ status = "zero" => NothingToDo(repo) \/ RecipeRan
  /\ phase # "done" => receipt = NoReceipt
  /\ Passed(receipt) => pc = "returned" /\ status = "zero" /\ Vouched
OwnTypes ==
  /\ repo \in Repos
  /\ validArgs \in BOOLEAN
  /\ phase \in {"called", "vouched", "running", "done"}
  /\ saw \in Contents \cup {"absent"}
  /\ receipt.evidence \in {"none", "raised", "unknown", "executed"}
  /\ receipt.exit \in {"none", "zero", "nonzero"}

LEMMA InitVerify == VerifyInit => VerifyInv /\ OwnTypes
<1> SUFFICES ASSUME VerifyInit PROVE VerifyInv /\ OwnTypes
  OBVIOUS
<1>1. IInv
  BY InitIInv, LeaderAssumption DEF VerifyInit, Init
<1> QED BY <1>1 DEF VerifyInit, Init, VerifyInv, OwnTypes, NoReceipt, Passed

\* The makefile in force is one there is.
LEMMA ChosenType ==
  ASSUME NEW r \in Repos, NEW order \in {RunnerOrder, MakeOrder}
  PROVE  Chosen(r, order) \in Contents \cup {"absent"}
<1>1. \A i \in DOMAIN order : order[i] \in MakefileNames
  BY DEF RunnerOrder, MakeOrder, MakefileNames
<1>2. r.file \in [MakefileNames -> Contents]
  BY DEF Repos
<1>3. CASE {i \in DOMAIN order : r.file[order[i]] # "absent"} = {}
  BY <1>3 DEF Chosen
<1>4. CASE {i \in DOMAIN order : r.file[order[i]] # "absent"} # {}
  <2> DEFINE present == {i \in DOMAIN order : r.file[order[i]] # "absent"}
             first == CHOOSE i \in present : \A j \in present : i <= j
  <2>1. \E i \in present : \A j \in present : i <= j
    <3>1. present \subseteq 1..3
      BY DEF RunnerOrder, MakeOrder
    <3> QED BY <1>4, <3>1
  <2>2. first \in present
    BY <2>1
  <2> QED BY <1>1, <1>2, <1>4, <2>2 DEF Chosen
<1> QED BY <1>3, <1>4

\* What the caller makes of the call: the steps before it, and after it.
LEMMA GuardVerify ==
  ASSUME VerifyInv, Reject \/ MissingTarget \/ Vouch \/ Edit
  PROVE  VerifyInv'
<1>1. IInv'
  BY NextIInv, LeaderAssumption
     DEF VerifyInv, Reject, MissingTarget, Vouch, Edit, vars
<1>2. /\ UNCHANGED <<pc, born, status>>
      /\ phase \in {"called", "vouched"} /\ pc = "ready" /\ status = "running"
      /\ ~Passed(receipt)
      /\ phase' = "vouched" => Vouched' /\ receipt' = receipt
      /\ phase' \in {"vouched", "done"} /\ ~Passed(receipt')
  BY DEF VerifyInv, Reject, MissingTarget, Vouch, Edit, vars, Done,
         Receipt, NoReceipt, Passed, Vouched, DefinesVerifyTarget
<1> QED BY <1>1, <1>2 DEF VerifyInv

LEMMA RunVerify ==
  ASSUME VerifyInv, CallRun \/ RunStep \/ TimePasses \/ Make
  PROVE  VerifyInv'
<1>1. Next /\ UNCHANGED <<repo, saw, receipt>>
  <2>1. CASE CallRun \/ RunStep
    BY <2>1 DEF CallRun, RunStep, Run, Next
  <2>2. CASE TimePasses
    BY <2>2 DEF TimePasses, Next
  <2>3. CASE Make
    BY <2>3, MakeSteps DEF Next
  <2> QED BY <2>1, <2>2, <2>3
<1>2. IInv'
  BY <1>1, NextIInv, LeaderAssumption DEF VerifyInv
<1>3. CASE CallRun
  <2>1. phase = "vouched" /\ phase' = "running" /\ status' = status /\ saw' = saw
    BY <1>3 DEF CallRun, Start, StartFails, procs
  <2> QED BY <1>1, <1>2, <2>1 DEF VerifyInv, Vouched, Passed, NoReceipt
<1>4. CASE RunStep
  <2>1. /\ phase = "running" /\ phase' = phase /\ born' = born
        /\ status' \in {status, "killed"}
    BY <1>4 DEF RunStep, CommunicateReturns, TimeoutKillsGroup, DrainRaises,
                procs
  <2> QED BY <1>1, <1>2, <2>1
       DEF VerifyInv, Vouched, RecipeRan, NothingToDo, Passed, NoReceipt
<1>5. CASE TimePasses
  <2>1. UNCHANGED <<pc, phase, born, status>>
    BY <1>5 DEF TimePasses, Deadline, procs
  <2> QED BY <1>1, <1>2, <2>1 DEF VerifyInv, Vouched, RecipeRan, NothingToDo
<1>6. CASE Make
  <2>1. /\ UNCHANGED <<pc, phase>> /\ born \subseteq born'
        /\ status' \in {status, "nonzero"} \/ NothingToDo(repo) \/ RecipeRan
        /\ Command
    BY <1>6, MakeSteps
  <2>2. pc # "ready" /\ (pc = "returned" => status' = status)
    BY <2>1, RunFacts, CommandFacts DEF VerifyInv
  <2>3. status' = "zero" => (NothingToDo(repo) \/ RecipeRan)'
    BY <1>1, <2>1 DEF VerifyInv, RecipeRan, NothingToDo
  <2> QED BY <1>1, <1>2, <2>1, <2>2, <2>3 DEF VerifyInv, Vouched
<1> QED BY <1>3, <1>4, <1>5, <1>6

LEMMA ConcludeVerify == ASSUME VerifyInv, Conclude PROVE VerifyInv'
<1>1. IInv'
  BY NextIInv, LeaderAssumption DEF VerifyInv, Conclude, vars
<1>2. /\ UNCHANGED <<pc, born, status, repo, saw>>
      /\ phase = "running" /\ phase' = "done" /\ receipt' = Outcome
  BY DEF Conclude, vars, Done
<1>3. pc \in {"returned", "timed_out", "os_error", "decode_error"}
  BY DEF Conclude, Ended
<1>4. Passed(Outcome) => pc = "returned" /\ status = "zero"
  BY <1>3 DEF Outcome, Passed, Receipt
<1> QED BY <1>1, <1>2, <1>4
     DEF VerifyInv, Vouched, RecipeRan, NothingToDo, Passed

LEMMA NextVerify == ASSUME VerifyInv, [VerifyNext]_verifyVars PROVE VerifyInv'
<1>1. CASE UNCHANGED verifyVars
  <2>1. IInv'
    BY <1>1, NextIInv, LeaderAssumption DEF VerifyInv, verifyVars, vars
  <2> QED BY <1>1, <2>1
       DEF VerifyInv, Vouched, verifyVars, vars, RecipeRan, NothingToDo, Passed
<1> QED BY <1>1, GuardVerify, RunVerify, ConcludeVerify DEF VerifyNext, Verify, AllDone

\* The inductive invariant of verify, with that of its call.
LEMMA VerifyInvariance == VerifySpec => []VerifyInv
BY InitVerify, NextVerify, PTL DEF VerifySpec

\* A pass with nothing run comes from a makefile that names verify, by a file of
\* that name or a rule for which make has nothing to run, neither in itself nor in
\* its prerequisites (runner.py:60-81).
THEOREM VerifyPasses == VerifySpec => []PassNeedsRecipe
<1>1. VerifyInv => PassNeedsRecipe
  BY DEF VerifyInv, PassNeedsRecipe, Vouched, NothingToDo
<1> QED BY <1>1, VerifyInvariance, PTL

\* Exit 0 is make's own exit 0, with all output read (runner.py:67-81, cli.py).
THEOREM VerifyExitZero == VerifySpec => []ExitZeroIsEarned
<1>1. ASSUME VerifyInv PROVE ExitZeroIsEarned
  <2>1. pc = "returned" => holds = {}
    BY <1>1 DEF VerifyInv, IInv, OutputIsComplete, Ended
  <2>2. ExitCode(receipt) = 0 => Passed(receipt)
    BY DEF ExitCode
  <2> QED BY <1>1, <2>1, <2>2 DEF VerifyInv, ExitZeroIsEarned
<1> QED BY <1>1, VerifyInvariance, PTL

LEMMA NextOwnTypes ==
  ASSUME VerifyInv, OwnTypes, [VerifyNext]_verifyVars PROVE OwnTypes'
<1> USE DEF OwnTypes
<1>1. CASE Reject \/ MissingTarget
  BY <1>1 DEF Reject, MissingTarget, Done, Receipt
<1>2. CASE Vouch
  BY <1>2, ChosenType DEF Vouch
<1>3. ASSUME NEW name \in MakefileNames, NEW what \in Contents,
             repo' = [repo EXCEPT !.file[name] = what]
      PROVE  repo' \in Repos
  <2> DEFINE file == [repo.file EXCEPT ![name] = what]
  <2>1. repo \in [file : [MakefileNames -> Contents], incidental : BOOLEAN]
    BY DEF Repos
  <2>2. repo' = [repo EXCEPT !.file = file]
    BY <1>3, <2>1
  <2>3. file \in [MakefileNames -> Contents]
    BY <2>1
  <2> HIDE DEF file
  <2> QED BY <2>1, <2>2, <2>3 DEF Repos
<1>4. CASE Edit
  BY <1>3, <1>4 DEF Edit
<1>5. CASE CallRun \/ RunStep \/ TimePasses \/ Make
  BY <1>5 DEF CallRun, RunStep, TimePasses, Make
<1>6. CASE Conclude
  <2>1. Outcome.evidence \in {"none", "raised", "unknown", "executed"}
        /\ Outcome.exit \in {"none", "zero", "nonzero"}
    BY <1>6, RunFacts DEF VerifyInv, Conclude, Ended, Outcome, Receipt,
            OutputIsComplete, Exits
  <2> QED BY <1>6, <2>1 DEF Conclude, Done
<1>7. CASE AllDone \/ UNCHANGED verifyVars
  BY <1>7 DEF AllDone, verifyVars
<1> QED BY <1>1, <1>2, <1>4, <1>5, <1>6, <1>7 DEF VerifyNext, Verify

\* Type correctness of verify, the call of run included.
THEOREM VerifyTypeCorrect == VerifySpec => []VerifyTypes
<1>1. VerifyInv /\ OwnTypes => VerifyTypes
  BY DEF VerifyInv, OwnTypes, VerifyTypes, IInv
<1> QED BY <1>1, InitVerify, NextOwnTypes, VerifyInvariance, PTL DEF VerifySpec
=============================================================================
