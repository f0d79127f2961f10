------------------------------ MODULE EvalGate ------------------------------
(***************************************************************************)
(* scripts/run_evals.py: the runner of the evaluation tasks, as a gate.    *)
(*                                                                         *)
(* A run executes the selected tasks one by one, each against the working  *)
(* tree as it then is, and decides by the measurement coverage, the        *)
(* failures and the rows that died.  What it accepts as dead comes from a  *)
(* committed file that only reviewed changes touch (known_invalid.json) or,*)
(* where there is none, from a local file that `--baseline` overwrites     *)
(* (eval_baseline.json), which is torn between open and write.             *)
(*                                                                         *)
(* Authors edit tasks and tree at any time, and several runs share the     *)
(* files.  What a task's command does is chosen by its kind.               *)
(***************************************************************************)
EXTENDS Integers, FiniteSets

CONSTANTS Tasks,      \* names of task files
          Runs,       \* processes running run_evals
          MaxEdits,   \* bound of the model: edits of tasks, tree and files
          MaxStarts   \* bound of the model: runs started

ASSUME BoundsAssumption == MaxEdits \in Nat /\ MaxStarts \in Nat
ASSUME TasksAssumption == IsFiniteSet(Tasks)

VARIABLES
  file,      \* task -> what its file is, and what its command would do
  dirty,     \* the diff against HEAD disables tests or touches owned paths
  prior,     \* known_invalid.json
  baseline,  \* eval_baseline.json
  run,       \* the runs of run_evals
  reviewed,  \* history: rows a reviewed change has ever listed as dead
  blessed,   \* history: rows dead in a run that saved a baseline
  edits, starts

vars == <<file, dirty, prior, baseline, run, reviewed, blessed, edits, starts>>
histories == <<reviewed, blessed>>

\* passes: expected exit and reason, done condition met; fails: any of these
\* is not so, or the diff exceeds the task's own cap or touches its paths;
\* unreachable: exit 126 or 127; gap: a required axis is not exercised,
\* whatever the exit; broken: the file does not load.
Kinds == {"passes", "fails", "unreachable", "gap", "broken"}

Missing == [state |-> "absent"]
Torn    == [state |-> "torn"]
Listed(rows)      == [state |-> "ok", rows |-> rows]
Saved(rows, size) == [state |-> "ok", rows |-> rows, tasks |-> size]
Priors == {Missing, [state |-> "malformed"]} \cup [state : {"ok"}, rows : SUBSET Tasks]
Baselines == {Missing, Torn} \cup
  [state : {"ok"}, rows : SUBSET Tasks, tasks : 0..Cardinality(Tasks)]

NoExit == -1
NotRun == [kind |-> "none", dirty |-> FALSE]
Row(kind, dirt) == [kind |-> kind, dirty |-> dirt]
Rows == {NotRun} \cup [kind : Kinds, dirty : BOOLEAN]

NewRun(pc, save, todo) ==
  [pc |-> pc, save |-> save, todo |-> todo, exit |-> NoExit,
   results |-> [t \in Tasks |-> NotRun], known |-> Missing]

TypeOK ==
  /\ file \in [Tasks -> Kinds \cup {"absent"}]
  /\ dirty \in BOOLEAN
  /\ prior \in Priors
  /\ baseline \in Baselines
  /\ run \in [Runs -> [pc : {"idle", "tasks", "open", "write", "prior"},
                       save : BOOLEAN, todo : SUBSET Tasks, exit : -1..1,
                       results : [Tasks -> Rows], known : Baselines]]
  /\ reviewed \subseteq Tasks /\ blessed \subseteq Tasks
  /\ edits \in 0..MaxEdits /\ starts \in 0..MaxStarts

\* A checkout whose tasks pass, with or without a committed prior, in which
\* run_evals has not been run.
Init ==
  /\ file = [t \in Tasks |-> "passes"]
  /\ dirty = FALSE
  /\ prior \in {Missing, Listed({})}
  /\ baseline = Missing
  /\ run = [r \in Runs |-> NewRun("idle", FALSE, {})]
  /\ reviewed = {} /\ blessed = {}
  /\ edits = 0 /\ starts = 0

-----------------------------------------------------------------------------
(* Authors and reviewers. *)

EditTask(t, kind) ==
  /\ kind # file[t]
  /\ file' = [file EXCEPT ![t] = kind]
  /\ UNCHANGED <<dirty, prior, baseline, histories>>

EditTree ==
  /\ dirty' = ~dirty
  /\ UNCHANGED <<file, prior, baseline, histories>>

ReviewedChange(p) ==
  /\ p # prior
  /\ prior' = p
  /\ reviewed' = IF p.state = "ok" THEN reviewed \cup p.rows ELSE reviewed
  /\ UNCHANGED <<file, dirty, baseline, blessed>>

\* A fresh clone, or a clean of the ignored files.
DropBaseline ==
  /\ baseline # Missing
  /\ baseline' = Missing
  /\ UNCHANGED <<file, dirty, prior, histories>>

Authors ==
  /\ edits < MaxEdits
  /\ \/ \E t \in Tasks, kind \in Kinds \cup {"absent"} : EditTask(t, kind)
     \/ EditTree
     \/ \E p \in Priors : ReviewedChange(p)
     \/ DropBaseline
  /\ edits' = edits + 1
  /\ UNCHANGED <<run, starts>>

-----------------------------------------------------------------------------
(* run_task, aggregate and the receipts. *)

\* The diff as a task sees it: where git fails, there is none.
Dirt(gitWorks) == gitWorks /\ dirty

\* A file deleted after the glob cannot be read: a load error as well.
Executed_Raw(t, gitWorks) == Row(file[t], Dirt(gitWorks))   \* mutant: as it was
Executed(t, gitWorks) ==
  Row(IF file[t] = "absent" THEN "broken" ELSE file[t], Dirt(gitWorks))

Invalid(row) == row.kind \in {"unreachable", "gap", "broken"}
Passed_ExitOnly(row) == row.kind = "passes"   \* mutant: the tree is not looked at
Passed(row)  == row.kind = "passes" /\ ~row.dirty

Ran(s)        == {t \in Tasks : s.results[t] # NotRun}
InvalidIn(s)  == {t \in Ran(s) : Invalid(s.results[t])}
Measurable(s) == Ran(s) \ InvalidIn(s)
PassedIn(s)   == {t \in Measurable(s) : Passed(s.results[t])}

\* coverage >= MEASUREMENT_COVERAGE_FLOOR, which is 0.75.
CoverageOk_Rate(s) == Measurable(s) # {}   \* mutant: only the rate is gated
CoverageOk(s) == 4 * Cardinality(Measurable(s)) >= 3 * Cardinality(Ran(s))

-----------------------------------------------------------------------------
(* main *)

Exits(r, code) == run' = [run EXCEPT ![r].pc = "idle", ![r].exit = code]

Start(r, chosen, save) ==
  LET found == {t \in chosen : file[t] # "absent"}
  IN  /\ run[r].pc = "idle"
      /\ starts < MaxStarts
      /\ starts' = starts + 1
      /\ run' = [run EXCEPT ![r] =
           IF found = {} THEN [NewRun("idle", save, {}) EXCEPT !.exit = 1]
                         ELSE NewRun("tasks", save, found)]
      /\ UNCHANGED <<file, dirty, prior, baseline, histories, edits>>

RunTask(r, t) ==
  /\ run[r].pc = "tasks"
  /\ t \in run[r].todo
  /\ \E gitWorks \in BOOLEAN :
       run' = [run EXCEPT ![r].todo = @ \ {t}, ![r].results[t] = Executed(t, gitWorks)]
  /\ UNCHANGED <<file, dirty, prior, baseline, histories, edits, starts>>

\* load_baseline raises on a torn file, before `--baseline` could replace it.
Judge(r) ==
  /\ run[r].pc = "tasks"
  /\ run[r].todo = {}
  /\ \/ /\ \/ baseline = Torn
           \/ ~CoverageOk(run[r])
           \/ PassedIn(run[r]) # Measurable(run[r])
        /\ Exits(r, 1)
     \/ /\ baseline # Torn
        /\ CoverageOk(run[r])
        /\ PassedIn(run[r]) = Measurable(run[r])
        /\ run' = [run EXCEPT ![r].pc = IF run[r].save THEN "open" ELSE "prior",
                              ![r].known = baseline]
  /\ UNCHANGED <<file, dirty, prior, baseline, histories, edits, starts>>

SaveOpens(r) ==
  /\ run[r].pc = "open"
  /\ baseline' = Torn
  /\ run' = [run EXCEPT ![r].pc = "write"]
  /\ UNCHANGED <<file, dirty, prior, histories, edits, starts>>

\* Of two runs writing at once either may be overwritten in part; of a longer text
\* that another has finished since this one opened the file, a tail stays; and
\* what is written to a file that was removed since is gone with it.
SaveWrites(r) ==
  /\ run[r].pc = "write"
  /\ \/ /\ baseline # Missing
        /\ \/ baseline' = Saved(InvalidIn(run[r]), Cardinality(Measurable(run[r])))
           \/ /\ baseline.state = "ok" \/ \E q \in Runs \ {r} : run[q].pc = "write"
              /\ baseline' = Torn
     \/ baseline = Missing /\ UNCHANGED baseline
  /\ blessed' = blessed \cup InvalidIn(run[r])
  /\ Exits(r, 0)
  /\ UNCHANGED <<file, dirty, prior, reviewed, edits, starts>>

\* load_known_invalid and the fallback; without either, nothing is checked.
KnownInvalid_Runtime(r) ==   \* mutant: the local baseline comes first
  IF run[r].known.state = "ok" THEN run[r].known.rows
  ELSE IF prior.state = "ok" THEN prior.rows ELSE Tasks
KnownInvalid(r) ==
  IF prior.state = "ok" THEN prior.rows
  ELSE IF run[r].known.state = "ok" THEN run[r].known.rows ELSE Tasks

NewlyInvalid(r) == InvalidIn(run[r]) \ KnownInvalid(r)

Prior(r) ==
  /\ run[r].pc = "prior"
  /\ \/ prior.state = "malformed" /\ Exits(r, 1)
     \/ /\ prior.state # "malformed"
        /\ Exits(r, IF NewlyInvalid(r) = {} THEN 0 ELSE 1)
  /\ UNCHANGED <<file, dirty, prior, baseline, histories, edits, starts>>

Crash(r) ==
  /\ run[r].pc # "idle"
  /\ run' = [run EXCEPT ![r] = NewRun("idle", FALSE, {})]
  /\ UNCHANGED <<file, dirty, prior, baseline, histories, edits, starts>>

\* Without --task all the tasks are chosen.
Choices == {Tasks} \cup {{t} : t \in Tasks}

Next ==
  \/ Authors
  \/ \E r \in Runs :
       \/ \E chosen \in Choices, save \in BOOLEAN : Start(r, chosen, save)
       \/ \E t \in Tasks : RunTask(r, t)
       \/ Judge(r) \/ SaveOpens(r) \/ SaveWrites(r) \/ Prior(r)
       \/ Crash(r)

Spec == Init /\ [][Next]_vars

-----------------------------------------------------------------------------
(* Properties. *)

Green(r) == run[r].pc = "idle" /\ run[r].exit = 0

\* Exit 0 means that every task the run could measure met its expectation, on a
\* diff in which git showed no broken rule, and that those were at least three
\* in four: edits between two tasks, broken files and --baseline included.
GreenIsMeasured ==
  \A r \in Runs : Green(r) =>
    /\ \A t \in Ran(run[r]) : LET row == run[r].results[t]
         IN  row = Row("passes", FALSE) \/ row.kind \in {"unreachable", "gap", "broken"}
    /\ 4 * Cardinality({t \in Tasks : run[r].results[t].kind = "passes"})
         >= 3 * Cardinality(Ran(run[r]))

\* A standing run that ends green under a committed prior has no dead row that
\* no review ever listed: no run with --baseline can make it accepted.  Without
\* a committed prior, a baseline in force admits only what a saving run found
\* dead; a malformed prior admits nothing.
Standing(r) == run[r].pc = "prior" /\ run'[r].pc = "idle" /\ run'[r].exit = 0
NoNewCorpse ==
  [][\A r \in Runs : Standing(r) =>
       /\ prior.state # "malformed"
       /\ prior.state = "ok" => InvalidIn(run[r]) \subseteq reviewed
       /\ prior = Missing /\ run[r].known # Missing =>
            InvalidIn(run[r]) \subseteq blessed]_vars

\* "Baseline updates require the same passing checks and coverage floor"
\* (lines 35-37): whatever runs saved or died while saving, a readable baseline
\* records at least one measured task and three of them for each dead row.
BaselineMeetsFloor ==
  baseline.state = "ok" =>
    baseline.tasks > 0 /\ 3 * Cardinality(baseline.rows) <= baseline.tasks

\* run_task, lines 424-425: "If the YAML fails to parse or is missing required
\* fields, the task counts as a failure (not a skip)."  It counts as neither,
\* and a run may be green over it.
BrokenTaskFails ==
  \A r \in Runs : Green(r) => \A t \in Tasks : run[r].results[t].kind # "broken"
=============================================================================
