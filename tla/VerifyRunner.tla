---------------------------- MODULE VerifyRunner ----------------------------
(***************************************************************************)
(* `ai-ready verify`: runner.verify runs `make verify` in the target       *)
(* repository through process.run and turns what happened into a Receipt,  *)
(* which cli.main turns into an exit code.                                 *)
(*                                                                         *)
(* The call of process.run is that of CheckProcess, of which make is the   *)
(* leader.  GNU make is outside the repository: it is modelled by the      *)
(* makefile it reads and by the cases in which it exits 0 without running  *)
(* a recipe.                                                               *)
(***************************************************************************)
EXTENDS CheckProcess, Sequences, Naturals

CONSTANT Contents    \* what the makefiles of the repository may hold

VARIABLES repo,      \* the makefiles, and whether a file `verify` exists
          validArgs, \* the timeout is positive and the root a directory
          phase,     \* "called", "vouched", "running", "done"
          saw,       \* history: the makefile the guard has vouched for
          receipt    \* the Receipt, or how verify ended without one

verifyVars == <<vars, repo, validArgs, phase, saw, receipt>>

\* A makefile as the guard and make see it: what follows `verify` in it, if
\* anything does, and what make then has to run.  "assign" is `verify := x`;
\* "bare" a rule, phony or not, with nothing to run: no recipe, and prerequisites
\* that need none, being up to date (`verify: tests`, a directory) or as bare.
\* "rule" has a recipe, its own or a prerequisite's, unless a file `verify` is up
\* to date; "phony" has one whatever files there are; "undecodable" is such a
\* rule beside bytes that do not decode.
AllContents == {"absent", "unreadable", "undecodable", "other",
                "assign", "bare", "rule", "phony"}
ASSUME ContentsAssumption == Contents \subseteq AllContents

MakefileNames == {"GNUmakefile", "makefile", "Makefile"}
Repos == [file : [MakefileNames -> Contents], incidental : BOOLEAN]

\* The makefile in force when they are looked for in the given order.
Chosen(r, order) ==
  LET present == {i \in DOMAIN order : r.file[order[i]] # "absent"}
  IN  IF present = {} THEN "absent"
      ELSE r.file[order[CHOOSE i \in present : \A j \in present : i <= j]]

RunnerOrder == <<"Makefile", "makefile", "GNUmakefile">>
MakeOrder   == <<"GNUmakefile", "makefile", "Makefile">>

\* _defines_verify_target: the regular expression finds `verify` before a colon.
DefinesVerifyTarget_Dropped(r) == TRUE   \* mutant: no guard (F-004)
DefinesVerifyTarget(r) ==
  Chosen(r, RunnerOrder) \in {"assign", "bare", "rule", "phony"}

\* make runs a recipe, or has nothing to do and exits 0, or fails.  Without a
\* recipe of the makefile's there is one of its built-in rules, for verify.sh.
Recipe(r) == Chosen(r, MakeOrder) # "unreadable"
NothingToDo(r) ==
  \/ Chosen(r, MakeOrder) = "bare"
  \/ r.incidental /\ Chosen(r, MakeOrder) \in {"rule", "absent", "other", "assign"}

NoReceipt == [evidence |-> "none", exit |-> "none"]
Receipt(evidence, exit) == [evidence |-> evidence, exit |-> exit]
Passed(r) == r.evidence = "executed" /\ r.exit = "zero"

\* cli.main: the exit code, ValueError and OSError being 2.
ExitCode(r) == IF r.evidence = "raised" THEN 2 ELSE IF Passed(r) THEN 0 ELSE 1

VerifyTypes ==
  /\ TypeOK
  /\ repo \in Repos
  /\ validArgs \in BOOLEAN
  /\ phase \in {"called", "vouched", "running", "done"}
  /\ saw \in Contents \cup {"absent"}
  /\ receipt.evidence \in {"none", "raised", "unknown", "executed"}
  /\ receipt.exit \in {"none", "zero", "nonzero"}

VerifyInit ==
  /\ Init
  /\ repo \in Repos
  /\ validArgs \in BOOLEAN
  /\ phase = "called"
  /\ saw = "absent"
  /\ receipt = NoReceipt

Done(r) == phase' = "done" /\ receipt' = r

\* ValueError: for the arguments, or UnicodeDecodeError from read_text.
Reject ==
  /\ phase = "called"
  /\ ~validArgs \/ Chosen(repo, RunnerOrder) = "undecodable"
  /\ Done(Receipt("raised", "none"))
  /\ UNCHANGED <<vars, repo, validArgs, saw>>

\* The guard: a missing configuration is unknown and make is never started.
MissingTarget ==
  /\ phase = "called"
  /\ validArgs
  /\ Chosen(repo, RunnerOrder) # "undecodable"
  /\ ~DefinesVerifyTarget(repo)
  /\ Done(Receipt("unknown", "none"))
  /\ UNCHANGED <<vars, repo, validArgs, saw>>

Vouch ==
  /\ phase = "called"
  /\ validArgs
  /\ DefinesVerifyTarget(repo)
  /\ phase' = "vouched" /\ saw' = Chosen(repo, RunnerOrder)
  /\ UNCHANGED <<vars, repo, validArgs, receipt>>

\* Somebody edits a makefile after the guard has read it, before make does.
Edit ==
  /\ phase = "vouched"
  /\ \E name \in MakefileNames, what \in Contents :
       repo' = [repo EXCEPT !.file[name] = what]
  /\ UNCHANGED <<vars, validArgs, phase, saw, receipt>>

CallRun ==
  /\ phase = "vouched"
  /\ Start \/ StartFails
  /\ phase' = "running"
  /\ UNCHANGED <<repo, validArgs, saw, receipt>>

RunStep ==
  /\ phase = "running"
  /\ CommunicateReturns \/ TimeoutKillsGroup \/ DrainRaises
  /\ UNCHANGED <<repo, validArgs, phase, saw, receipt>>

\* What verify makes of the end of run.  UnicodeDecodeError is not caught here.
Outcome_TimeoutExecuted ==   \* mutant: a timeout counts as executed
  CASE pc \in {"returned", "timed_out"} -> Receipt("executed", status)
    [] pc = "os_error"                  -> Receipt("unknown", "none")
    [] pc = "decode_error"              -> Receipt("raised", "none")
Outcome ==
  CASE pc = "returned"                 -> Receipt("executed", status)
    [] pc \in {"timed_out", "os_error"} -> Receipt("unknown", "none")
    [] pc = "decode_error"             -> Receipt("raised", "none")

Conclude ==
  /\ phase = "running"
  /\ pc \in Ended
  /\ Done(Outcome)
  /\ UNCHANGED <<vars, repo, validArgs, saw>>

Verify == Reject \/ MissingTarget \/ Vouch \/ CallRun \/ RunStep \/ Conclude

TimePasses == Deadline /\ UNCHANGED <<repo, validArgs, phase, saw, receipt>>

RecipeRan == born \ {Leader} # {}

\* make, and what its recipe starts: make forks only to run the recipe, and
\* exits 0 only when there was nothing to do or a recipe has run.
Make ==
  /\ \/ \E p, c \in Procs : Fork(p, c) /\ (p = Leader => Recipe(repo))
     \/ \E p \in Procs \ {Leader} :
          Redirect(p) \/ NewSession(p) \/ PrintBytes(p)
     \/ \E p \in Procs :
          /\ Exit(p)
          /\ p = Leader /\ status' = "zero" =>
               NothingToDo(repo) \/ (Recipe(repo) /\ RecipeRan)
  /\ UNCHANGED <<repo, validArgs, phase, saw, receipt>>

AllDone == phase = "done" /\ alive = {} /\ UNCHANGED verifyVars

VerifyNext == Verify \/ Edit \/ TimePasses \/ Make \/ AllDone

VerifySpec == VerifyInit /\ [][VerifyNext]_verifyVars

-----------------------------------------------------------------------------
\* A passing receipt whose verification ran nothing can only come from a
\* makefile that names verify when the guard reads it (lines 60-64), and, when
\* make reads what is there by then, from a file named `verify` or a rule with
\* nothing to run, its prerequisites included: no timeout, start failure, missing
\* rule or error of make's ever passes, whatever is edited in between.
PassNeedsRecipe ==
  Passed(receipt) /\ ~RecipeRan =>
    /\ saw \notin {"absent", "unreadable", "undecodable", "other"}
    /\ repo.incidental \/ Chosen(repo, MakeOrder) = "bare"

\* The exit code a shell or a CI job sees is 0 only when make itself exited 0
\* by itself, with all output read: never after a timeout, a kill, or an error.
ExitZeroIsEarned ==
  phase = "done" /\ ExitCode(receipt) = 0 =>
    pc = "returned" /\ status = "zero" /\ holds = {}

\* The comments of the guard: an incidental file that make reports "Nothing to
\* be done" for is "never a pass".  The code lets a rule that is not phony through.
NeverPassWithNothingRun == Passed(receipt) => RecipeRan
=============================================================================
