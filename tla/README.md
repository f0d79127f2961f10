# Specifications of ai-ready-repo

TLA+ modules for the parts of this repository that keep state or decide
something, the TLC runs that check them on small instances, and TLAPS proofs of
their safety properties for every value of the constants. Paths are relative to
the repository's root; `P:12` is line 12 of file P.

    tlc -workers 2 -config MCAdoption.cfg MCAdoption      # a run
    tlapm Adoption_proofs.tla                             # the proofs of a module

`PROJECT.json` lists components, runs, the mutants that show that each property
can fail, the map from definitions to source lines, findings, hazards and
theorems.

## The system

The repository is a toolkit for making repositories verifiable (`ai-ready`), the
repository's own evaluation gates (`scripts/`), and an example domain.

| Component | State it keeps | Operations | What makes it correct |
|---|---|---|---|
| `verification/process.py` `run` | a child process group, two pipes | start, wait, kill at the timeout, drain | the result is complete; the kill misses nobody; the call ends |
| `verification/runner.py` `verify`, `cli.py verify` | none; reads the Makefile, returns a Receipt | guard, run make, classify | a pass means that something ran and succeeded |
| `adoption.py`, `cli.py adopt` | files of the target repository | detect, plan, preview, apply | nothing is overwritten; a reported success is complete |
| `scripts/referent_liveness.py` | `referent_manifest.json` | walk, stamp, freshness, witness | a pass rests on fresh, independent evidence of the surface walked |
| `scripts/external_reader.py` | `reader_witness.json` | record, check | it is written by another program than the one it vouches for |
| `scripts/check_population.py` | none | graph, closure, check | reachability is right; the verdict is right |
| `scripts/run_evals.py` | `eval_baseline.json`; reads `known_invalid.json` | run tasks, aggregate, save, judge | green means measured and passing; dead rows are accepted by review only |
| `verification/sandbox.py`, `scripts/drill_workspace.sh` | a temporary copy of the repository | copy, commit, run, remove | the real tree is untouched; the copy is removed |
| `audit.py` | none | inventory, score, level | `missing` and `unknown` are told apart |
| `ai_ready_repo` (order example) | orders, an in-memory store | transition, cancel, deliver, save | only allowed transitions |
| `scripts/drill_ci_coverage.py` | none | expand prerequisites, compare | every verification target runs in CI |
| `scripts/deny_catalog.py` | none; reads the golden catalogue | resolve, match, drills | a pass means that the patterns compile and every category fires |
| `scripts/falsifiers/dead_guard.py` | none; reads the manifest of trusted specs | load, admit, execute, compare | its verdict is about the probe of the spec; nothing untrusted runs |
| `scripts/recoupling_harness.py` | an append-only ledger | run, append | no row is lost |
| `scripts/sync_readme_badges.py`, `.githooks/pre-commit` | README badges, the git index | count, rewrite, stage | the commit's badges fit the commit's documents |
| `scripts/setup_tool_bridges.sh` | bridge files and backups | create, force, clean | user content survives |
| other drills, ADR checks, Makefile, CI, templates, docs | none | | exercised above, or no program |

How they interact. `cli.py` calls `verify`, which calls `run`; `sandbox.py` calls
`run` as well. `make verify` calls `check_population`, the daily CI job
`run_evals` and `referent_liveness`. `run_evals`, `referent_liveness`,
`external_reader` and `check_population` read the same directory,
`scripts/eval_tasks`; the last three communicate only through files there, which
they replace with `Path.write_text`, that is by emptying and then writing.
The pre-commit hook calls `sync_readme_badges` and shares the working tree and
the index with the user; several `recoupling_harness` may append to one ledger;
`setup_tool_bridges` writes files that users and tools edit; the callers of the
order repository share its objects. No program takes a lock, and none assumes
that it runs alone.

The hard parts are therefore: processes that escape their group; checks that are
made before the act they protect; files read several times while others write
them, or left torn by a crash; work lists whose order is arbitrary; limits that
are combined; and what an exit code may be taken to mean. The `hazards` of
`PROJECT.json` name them line by line.

## The modules

| Module | Models | Correspondence |
|---|---|---|
| `CheckProcess` | `process.py` | `pc` is the position in `run`; the command's processes are the sets `born`, `alive`, `inGroup`, `holds`. `Start`, `CommunicateReturns`, `TimeoutKillsGroup` and `DrainRaises` are the statements of `run`; `Fork`, `Redirect`, `NewSession`, `PrintBytes` and `Exit` are what POSIX lets the command do |
| `VerifyRunner` | `runner.py`, `cli.py verify` | one action per way through `verify`: `Vouch` is the guard, `CallRun` what follows it, and `Edit` somebody who saves a makefile in between; it extends `CheckProcess`, whose actions are its call of `run`; make is restricted by the makefile it reads |
| `ReferentGate` | `referent_liveness.py`, `external_reader.py` | `Walk` is `main` up to the report, then `StampOpens`/`StampWrites` or `Freshness`/`Witness`, each on the files as they then are; authors edit the surface and delete the manifest between any two; `ReaderRecords`/`ReaderWrites` are `record`, dated by a clock that may be `Ahead` |
| `Adoption` | `adoption.py`, `cli.py adopt` | `PlanFile`, `CheckFile`, `OpenFile` and `WriteFile` handle one file each; the user acts in between |
| `CreateOnly` | the promise of `adopt` | an abstract directory whose files are created where there are none, filled in once, and otherwise left to the user; `Adoption` implements it (`CreatesOnly`) |
| `Population` | `check_population.py` | `Pop` is one turn of the loop of `closure`, called for the surface and for each task |
| `CiCoverage` | `drill_ci_coverage.py` | `Read` and `Raises` are the reading of the Makefile and the workflows, `Expand` is one turn of the loop of `expand_prerequisites`, `Compare` the verdict of `main` |
| `Search` | what both loops promise | an abstract search of a graph: what is found grows, stays reachable, and is everything at the end; `Population` and `CiCoverage` implement it (`Searches`) |
| `DenyCatalog` | `deny_catalog.py` | one action per reading of the golden file and check made of it; an author saves another catalogue once, at any point |
| `DeadGuard` | `falsifiers/dead_guard.py` | `LoadTrusted` is `load_trusted_ids`, `Shape`, `Custody` and `Compile` the statements of `run_from_spec`, `Probe` and `Compare` those of `run`; a reviewer edits the manifest meanwhile |
| `Gates` | the four programs above | one of them is started; their instances, properties and fairness together |
| `Ledger` | `recoupling_harness.py` | `Read`, `Open` and `Write` are `append_ledger_row`, for several runs at once, `Kill` the end of one |
| `BadgeHook` | `sync_readme_badges.py`, `.githooks/pre-commit` | `ReadDoc`, `ReadReadme`, `Open` and `Write` are the script; `Test`, `Add` and `Commit` the hook and git around it; the user edits documents, saves or restores README.md as a whole (`Replaces`) and stages, at any point |
| `Bridges` | `setup_tool_bridges.sh` | `FirstTest`, `SecondTest`, `Copy`, `Open` and `Write` are `write_file`, `CleanTest` and `Remove` the loop of `--clean`; `Stop` ends it anywhere |
| `Orders` | the domain, use cases and repository of the example | `heap` holds the objects, `store` and `holds` refer to them; `Place` and `Remake` make one, with a new id or a given one; `Advance` is `transition`, `cancel` and `deliver` |
| `Shared` | the four programs above | each rewrites something others use; one of them is looked at at a time |
| `Sandbox` | `sandbox.py`, `drill_workspace.sh` | `Invoke` is the guard, `List` and `CopyFile` are `copytree`, `GitBaseline` the three git commands, `RunStep` the call of `run` (`P == INSTANCE CheckProcess`), `RemoveFile` and `RemoveDir` the end of the `with` statement; the user and the drill's processes act in between |
| `Audit` | `audit.py` | operators: the checks with the markers that meet them, `Findings`, and the properties of `Report` |
| `AdoptionPlan` | `adoption.py` up to the files | operators: `Stacks` is `detect_stack`, `PythonCommands` and `PythonGaps`, `NodeCommands` and `NodeGaps` the two lists that `_python_commands` and `_node_commands` append to, entry by entry; `Makefile` is `_makefile` |
| `Readiness` | `audit` and `adopt --apply` on one repository | the state is the repository as both see it; the owner adds and removes configuration, `Adopt` plans and applies |
| `EvalGate` | `run_evals.py` | `RunTask` is one call of `run_task`; `Judge` the decisions of `main` before the prior; `SaveOpens`/`SaveWrites` are `save_baseline`; `Prior` the rest |
| `*_proofs` | | the inductive invariants and theorems |
| `MC*` | | instances for TLC |

What is abstracted. The text of outputs, reports and generated files. A makefile
is one of eight kinds of content, the cases that the regular expression of the
guard and make tell apart; a rule with nothing to run, its prerequisites being
up to date, is one of them (`bare`). What the environment may ask of make
(`MAKEFLAGS`) is left out. Hashes are versions, and equal versions are equal
contents. A task of `run_evals` is the outcome of running it. The reading of the
Makefile by `check_population` is one step, and so is a walk of
`referent_liveness`, after which the edits of what it walked are noted
(`moved`). A text is taken to be written in one call once its file is open;
where two writers overlap, a tail of the longer text may stay (`ReferentGate`,
`Ledger`, `EvalGate`, `BadgeHook`). The manifest and the baseline may be deleted
at any time, the reader's record may not. `Audit` and `AdoptionPlan` see a
repository as a set of markers, names of files or pieces of text in them, and a
command as the role it plays; the repository is read at one moment, and a plan
is applied at once: what may happen in between is in `Adoption`. Files that do
not decode, which end `audit` and `adopt` with exit 2, are left out. The files
that `copytree` ignores are not among those of `Sandbox`; those that git
ignores, by the repository's `.gitignore` or the user's own, are (`Ignored`):
they are copied and not committed. A link is a file whose content is its
target's, and a drill is trusted to keep to the files it is given. A document is
its count and README.md its badges and its other text; a ledger is the set of
the runs whose rows it holds; a source of a falsifier's spec is what executing
and calling it do; a pattern is whether it compiles and matches a probe of its
category. What the regular expressions of `drill_ci_coverage` find is a set, and
a workflow it cannot read in the form it expects is one that raises. Definitions
whose comment says `mutant` are not part of the model: they are plausible bugs,
and each property is known to notice one.

## The runs

| Run | Instance | What it shows |
|---|---|---|
| `check_process` | three processes | everything `run` returns is complete; the killed group stays empty; the call ends unless a process left the group with the pipe open |
| `verify_runner` | make and a recipe process, 8³ combinations of makefiles, with and without a file `verify`, any edits of them between guard and make | exit 0 is make's own exit 0 with all output read; what can pass without running anything |
| `referent_gate` | two runs, one task, a script and a make target, two versions, limits of 3 days (stamp) and 1 day (record), a clock of 4 days, a reader a day ahead, one edit | a pass rests on the reader's own reading of the same tasks; the stamp is at most twice the witness limit old, or was fresh and has been deleted since; what is stamped or passed over content that differs from the last stamp was edited after the walk, or the walk had no stamp to compare with |
| `adoption` | three files, two runs, two starts, two user steps | adopt implements `CreateOnly`: no file is overwritten; every report is true |
| `gates` | every graph on three targets, up to two tasks of one word, every set of CI commands; two categories and six rules, one edit; every behaviour of the sources of a spec | both work lists implement `Search`; all four verdicts are right, that of a workflow that raises included; every program answers |
| `eval_gate` | four tasks, two runs, two edits | exit 0 means measured and passing; the baseline meets the floor; no dead row is accepted without review |
| `sandbox` | a drill and a process it leaves behind, a file and a link, which git ignores, two contents, one edit of the user | the user's files and history are untouched; the drill starts from what was copied, committed but for what git ignores; exit 0 is its own; the copy goes unless a process survived |
| `readiness` | a repository with a Python and a Node half, 17 markers that stay and ten that come and go, one Makefile of the owner's | a generated `verify` has every kind of check or is blocked, and what is missing is listed; adoption and added configuration lose no finding; score, bounds and level mean what they say |
| `shared_state` | three harnesses; two documents, four steps of the user and any badges in what he saves; two bridge files, two texts for each, three starts; two callers, three objects | what is lost, and only when: rows of the ledger, texts of the user, the agreement of a commit with itself; no order takes a way that is not one, and no lookup shows less than was saved |

The bounds, and why they suffice. Three processes are the leader, one that stays
in the group and one that leaves it; which of them forks, redirects or exits
first is free. Three files allow a failure at the first, in the middle and at
the last; two adopting runs and a user with two steps allow one to create what
another has checked. Three targets have every shape of prerequisites that the
loop distinguishes: cycles, self-loops, shared and undefined prerequisites. A
file and a link are what `copytree` tells apart, and each may be missing. The
fixed markers of `readiness` are chosen so that every level of the audit is one
step away, the varying ones so that each stack, conflict and gap comes and goes.
In `shared_state` three harnesses allow a row to be lost between two others and
a mixture of two writes; four steps of the user allow staging, an edit, another
commit and a restoration around one hook; three starts are a forced run, a
second one and a clean one; two callers and three objects, an object that both
advance, another order, and one made anew under the id of either. What an editor
saves over README.md has any count in each badge, or none in any (`Saves`). One
edit of the golden file or of the manifest separates any two of its readings.
One word per task is enough for a claim, several words only repeat the loop.
Four tasks are the fewest of which one may be dead at the floor of 0.75. Two
runs and the reader suffice for every pair of readers and writers of a file.
`MaxUser`, `MaxRestarts`, `MaxEdits`, `MaxStarts`, `MaxTime`, `MaxTasks`,
`MaxWords`, `MaxSteps`, `MaxVersions` and `MaxObjects` bound only the
environment and the number of starts. `CHECK_DEADLOCK FALSE` stands where those
bounds, or the end of the program, stop the model; in the other runs deadlock is
checked. Symmetry is used in runs without liveness properties, over runs and, in
`eval_gate`, tasks and, in `referent_gate`, contents, which no definition
orders.

Fairness. `CheckProcess` assumes it of the caller's own steps and of the passing
of time, that is of a Python process that is scheduled; nothing is assumed of
the command, which may hang. `VerifyRunner` and `Sandbox` state no liveness: they
would have to repeat what `CheckProcess` says. Each program of
`Gates` is sequential and terminates by itself: `GateSpec` is weakly fair to its
steps, and not to those of the author of the catalogue or the reviewer of the
specs. The other modules claim no liveness. `EndsUnlessEscaped` and
`GatesAnswer` are the liveness properties.

### Three runs that find a disagreement

* `dead_verify`: "never a pass" (`runner.py:60-63`), yet a rule that is not
  phony beside a file `verify`, one whose prerequisites are up to date, or a
  `GNUmakefile` that hides the Makefile the guard has read, passes with nothing
  run. Confirmed with GNU make.
* `stamp_drift`: "Update the manifest with --stamp" (`referent_liveness.py:477`),
  yet a drift returns exit 4 before `--stamp` is looked at (line 480).
* `broken_task`: "counts as a failure (not a skip)" (`run_evals.py:424-425`), yet
  a file that does not load is excluded from the failures.

### What else the words say and the code does not

These have no run of their own: the property named carries the exception.

* "bounded lifetime, including its child processes" (`process.py:1`), yet the
  second `communicate()` has no timeout (line 32): `EndsUnlessEscaped`.
* The drill of the deny catalogue checks parity by comparing the golden file with
  another reading of the same file: without an edit in between, any catalogue
  that compiles and fires passes, a weakened one included: `CatalogVerdict`.
* The hook of the badges runs only when the backlog is staged, though three
  counts are kept; it counts the working tree, not the index, and its
  unconditional `git add README.md` commits whatever that file then holds, the
  old buffer of an editor included that was saved after the script's write: the
  documents `excused` in `CommitInSync`.
* "The fingerprint closes unreviewed silent drift" (`referent_liveness.py:58`),
  yet `--stamp` hashes the surface afresh after the walk (lines 420-426), so an
  edit in between is blessed without comparison; and a manifest that is deleted
  before its second reading has no date to compare (lines 506 and 359): the
  exceptions of `NoSilentDrift` and `StampAgeIsBounded`.
* The repository of the example keeps the caller's object, so that what was saved
  changes without a save; it only ever moves on: `SavedIsNeverUndone`.
* `setup_tool_bridges.sh` calls itself idempotent: a second `--force` replaces the
  backup of the user's file by the bridge, and `--clean` removes texts the bridge
  invited the user to write: `UserTextSurvives`.
* The ledger is "append-only": of two runs that meet, one row may be lost, and a
  run killed in `write_text` takes all: `RowsSurvive`.
* "the runner could not even look" (`dead_guard.py`, `SpecError`): an entry that
  is missing is noticed after the source has been executed: `GuardVerdict`.

## The proofs

All of the safety properties of the passing runs are proved, as `Spec => []Inv`
or `Spec => [][A]_vars`, and so are the refinements (`CreatesOnly`,
`WorkListsSearch`), from the assumptions the modules state: the leader is a
process; the makefiles hold what `AllContents` lists; limits and bounds are
natural numbers; the tasks of `run_evals` are finitely many; the document that
triggers the hook is one, and what an editor saves are badges; the marker values
are not versions or runs; links and ignored files are files; what is fixed of a
repository does not vary, and a section of `pyproject.toml` comes with the file.
Each proof has an inductive invariant, the facts `Init => IInv` and `IInv /\
[Next]_vars => IInv'` with a lemma per group of actions, and a theorem per
property. Where a module composes programs that do not interact, as `Gates` and
`Shared` do, each has an invariant of its own, and a lemma says that the steps
of the composition are those of one of them.

* `VerifyRunner_proofs` has `process.run` first. Its properties are not
  inductive: one has to know that the leader has been born and leads its group,
  so that no fork brings it back and the kill reaches it, and that while the
  first wait lasts only the leader's own exit ends it. The step that matters is
  `Fork` after the kill: a live parent is outside the group, and so is its
  child. The same invariant holds in `verify`, of which every step is one of
  that call or leaves it alone (`MakeSteps`). Over it, `VerifyInv` carries what
  make must have done for its exit 0 (`NothingToDo` or `RecipeRan`), in the
  makefiles as they are since it was started, and what the guard has seen: an
  edit can only come between the two.
* `Adoption_proofs`. The invariant follows a run through the two loops: the
  files it has passed are those it made, each is its own unless deleted, and a
  file found taken in the second loop was absent when the first loop passed it,
  hence made by somebody else since the start. `ImplementsPromise` shows that
  each step of a run is a creation or the completion of a file the run has made.
* `ReferentGate_proofs`. The invariant ties each record, finished or being
  written, to the reading it was made from (`observed`), which is never later
  than the clock: the record's date may be, by what the reader's clock is ahead
  (`NothingIsAhead`). `DriftIsNeverSilent` needs two more: a manifest that can
  be read is the one last stamped (`ManifestIsStamped`), and what a walk has
  compared with it and let pass stays equal to it until the referent is edited,
  which puts it into `moved`, or another stamp is completed, which makes the run
  `blind` (`WalkStands`).
* `Gates_proofs`. For `check_population` the invariant is that of a graph
  search: everything seen or pending is reachable from the goal, and the
  prerequisites of what is seen are seen or pending; when nothing is pending,
  what is seen is closed, and hence the least closed set. `ImplementsSearch` maps
  each step to one of `Search` or a stutter: a pop that finds a target without a
  rule is `Fail`, any other is `Grow`, the end of a call `Finish` and the next
  call `Ask`. The loop of `drill_ci_coverage`, whose work list is a set, has the
  same argument and the same refinement. `NeverOverclaims` compares the two: the
  drill keeps the last rule of a target and `check_population` the union of
  them, so the drill never takes for covered what make would not run. For the
  deny catalogue the invariant says of which of the two files, the one before
  the edit or the one after it, each reading already made was sound
  (`FoundSound`, `EditOrder`); for the falsifier, what was executed of a spec by
  each of its stages.
* `EvalGate_proofs`. A run past `Judge` has been accepted: it ran something, met
  the floor and failed nothing, and what it remembers of the baseline was blessed
  by a saving run. The floor turns into three measured rows for each dead one by
  the cardinality theorems, what ran being the disjoint union of the two. Only
  `Prior` takes a run from the comparison to exit 0 (`StandingIsPrior`).
* `Sandbox_proofs` instantiates the proofs of `process.run`: each step of the
  sandbox is one of `CheckProcess` or leaves its variables alone (`StepIsRun`),
  so its invariant holds here too. It says that nobody writes to the copy before
  the call, and that past a timeout no survivor is in the group, nor will be.
  Over it stand four invariants: what has been copied is what was seen; if
  nobody survived, nobody writes while the copy is removed; the answer is the
  one decided before the removal; the environment never names the repository.
* `Readiness_proofs`. What is generated is inductive as it stands, given that no
  branch of the two functions forgets its entry, in either direction
  (`EveryGapIsNoted`, `EveryEntryIsAGap`), by cases over the stacks. That the
  audit is monotone is a lemma on `Established`, and the bounds follow from the
  cardinality theorems: the findings `configured` and `unknown` are disjoint,
  and the last check, which nothing meets, keeps the bounds apart and level 4
  out of reach.
* `Shared_proofs`. Hardly one of the properties is inductive. Of two harnesses
  between their reading and their writing each has met the other (`MetBoth`), a
  run that met nobody was alone with the ledger all that time (`AloneWithFile`),
  and the row it has reported is in whatever anybody is about to write
  (`RowsKept`), for as many runs as there are. What the hook carries from its
  reading of README.md to its writing, and from there to the commit, is what it
  counted, or what the user may have changed meanwhile (`Carried`). A text of
  the user is only displaced after it was copied (`Displaced`), and between the
  copy and the end of the write it is in the backup (`InTheBackup`). While no
  second object has been made under its id, an order has one object, and its
  status agrees with all that was done to it (`OneObject`, `Lives`), which no
  single transition could tell; what is stored carries the id it is stored under
  (`StoreFits`) and has gone on from what was saved (`GoesBeyond`).

The type invariants of `CheckProcess`, `Adoption`, `Sandbox` and `Readiness`, and
`UserFilesSurvive` of `Adoption`, are proved here and not checked by a run as well.

Only model-checked: `EndsUnlessEscaped` and `GatesAnswer`. They are liveness
properties under weak fairness, which needs `ENABLED`, beyond the provers used.

## Not modelled, and the plan

In this order:

1. An abstract gate whose pass needs evidence, implemented by `ReferentGate` and
   `EvalGate`; that `Readiness` implements the additive adoption of `Adoption`.
2. The audit read file by file while its files change, and the paths that the
   generated Python checks cover (`_discover_python_paths`).
3. A manifest of the referent gate that is JSON and no object: the program dies
   with status 1, which is also what it says of a dead referent.

Left out for good: the drills that plant one defect and compare one exit code
(`drill_coverage_floor.sh`, `verify_tamperproof.sh`, `verify_from_git.sh`), the
scans of text (`drill_dead_config.py`, `check_reachability.py`,
`validate_adrs.py`), CI configuration, the ecosystem templates and the
documentation. They keep no state, have one actor and no step that another could
come between; what they exercise is modelled where it lives.
