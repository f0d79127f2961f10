-------------------------------- MODULE Audit --------------------------------
(***************************************************************************)
(* `ai-ready audit`: what the repository holds, as findings at four        *)
(* levels, and the score, bounds and level of the report.                  *)
(*                                                                         *)
(* A repository is seen as the audit sees it: a set of markers, which are  *)
(* names of files or pieces of text in them, the targets of its Makefile,  *)
(* and its AGENTS.md.  All of it is read at one moment.                    *)
(***************************************************************************)
EXTENDS Integers, FiniteSets

\* What AGENTS.md may be; read() makes an empty file look absent.
Guides == {"absent", "empty", "short", "long"}

\* Names of files whose presence is the whole check.
RuntimePins == {".python-version", ".node-version", ".nvmrc", "mise.toml"}
LockFiles == {"uv.lock", "poetry.lock", "Pipfile.lock", "pdm.lock", "package-lock.json",
              "pnpm-lock.yaml", "yarn.lock", "Cargo.lock"}

\* Markers of tests: Python without skips, with skips or not to be parsed, and
\* those in other languages, which are not searched for skips.
PythonTests == {"test.py", "test with skip", "test with syntax error"}
Tests == PythonTests \cup {"test.ts"}
Skips_AnySuffix == Tests \ {"test.py"}   \* mutant: TypeScript is parsed as Python
Skips == {"test with skip", "test with syntax error"}

Levels ==
  [Runtime_pin |-> 1, Dependency_lock |-> 1, Environment_example |-> 1,
   Bootstrap_entry_point |-> 1, Verification_entry_point |-> 1,
   Formatter |-> 2, Linter |-> 2, Types |-> 2, Test_files |-> 2, CI_workflow |-> 2,
   CI_verification_entry_point |-> 2, Skipped_test_ownership |-> 2,
   Code_owners |-> 3, Import_boundaries |-> 3, Agent_guidance |-> 3,
   Concise_guidance |-> 3, Verifiable_decisions |-> 3, Secret_scanner |-> 3,
   Verification_regression_tasks |-> 4, Agent_performance_measurements |-> 4]
Checks == DOMAIN Levels

\* AGENTS.md if it says anything, else CLAUDE.md.
Guidance(r, guide) ==
  IF guide \in {"short", "long"} THEN guide
  ELSE IF "CLAUDE.md" \in r THEN "short" ELSE "absent"

\* The files and texts any of which meets a check, and the Makefile targets.
\* Nothing meets the last check.
MarkersOf ==
  [Runtime_pin |-> RuntimePins, Dependency_lock |-> LockFiles,
   Environment_example |-> {".env.example"},
   Bootstrap_entry_point |-> {}, Verification_entry_point |-> {},
   Formatter |-> {"[tool.ruff]", "[tool.black]"}, Linter |-> {"[tool.ruff.lint]"},
   Types |-> {"[tool.mypy]", "tsconfig.json", "pyrightconfig.json"},
   Test_files |-> Tests, CI_workflow |-> {"workflow", "workflow runs make verify"},
   CI_verification_entry_point |-> {"workflow runs make verify"},
   Skipped_test_ownership |-> Tests, Code_owners |-> {"CODEOWNERS"},
   Import_boundaries |-> {"[tool.importlinter]", ".importlinter"},
   Agent_guidance |-> {}, Concise_guidance |-> {},
   Verifiable_decisions |-> {"ADR verification"}, Secret_scanner |-> {"gitleaks"},
   Verification_regression_tasks |-> {"eval task"},
   Agent_performance_measurements |-> {}]
TargetsOf ==
  [c \in Checks |-> CASE c = "Bootstrap_entry_point"    -> {"bootstrap"}
                     [] c = "Verification_entry_point" -> {"verify"}
                     [] c = "Formatter"                -> {"format-check"}
                     [] c = "Linter"                   -> {"lint"}
                     [] OTHER                          -> {}]
GuidanceOf(guidance) ==
  CASE guidance = "short" -> {"Agent_guidance", "Concise_guidance"}
    [] guidance = "long"  -> {"Agent_guidance"}
    [] OTHER              -> {}

Established(r, targets, guide) ==
  LET met == {c \in Checks : r \cap MarkersOf[c] # {} \/ targets \cap TargetsOf[c] # {}}
      unsure == IF r \cap Skips # {} THEN {"Skipped_test_ownership"} ELSE {}
  IN  (met \ unsure) \cup GuidanceOf(Guidance(r, guide))

\* add_marker and the three findings made by hand: a negative says only that no
\* marker known to the audit was found.
Markers_None == {"Skipped_test_ownership", "Secret_scanner",   \* mutant: add for all (#039)
                 "Agent_performance_measurements"}
Markers == {"Formatter", "Linter", "Types", "CI_verification_entry_point",
            "Import_boundaries", "Skipped_test_ownership", "Secret_scanner",
            "Agent_performance_measurements"}

\* audit: the findings, as check -> evidence.
Findings(r, targets, guide) ==
  LET established == Established(r, targets, guide)
  IN  [c \in Checks |-> IF c \in established THEN "configured"
                        ELSE IF c \in Markers THEN "unknown" ELSE "missing"]

With(findings, evidence) == {c \in Checks : findings[c] = evidence}

\* The properties of Report.
Score(findings) == Cardinality(With(findings, "configured"))
Optimistic(findings) == Score(findings) + Cardinality(With(findings, "unknown"))

Level_Any(findings) ==   \* mutant: all of a level's checks, whatever the levels below
  Cardinality({n \in 1..4 : \A c \in Checks : Levels[c] = n => findings[c] = "configured"})
Level(findings) ==
  Cardinality({n \in 1..4 : \A c \in Checks : Levels[c] <= n => findings[c] = "configured"})
=============================================================================
