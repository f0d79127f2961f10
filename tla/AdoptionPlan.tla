----------------------------- MODULE AdoptionPlan -----------------------------
(***************************************************************************)
(* What `ai-ready adopt` proposes: the stack it detects, the commands it   *)
(* finds configured, the gaps it reports, and the Makefile made of them.   *)
(*                                                                         *)
(* A repository is a set of markers, as in Audit.  A command is the role   *)
(* it plays; its text is left out.  A gap is an entry of the list that the *)
(* code appends to, as the set of commands the entry asks for: one entry   *)
(* may ask for two.                                                        *)
(***************************************************************************)
EXTENDS Integers, FiniteSets

\* Markers of the stacks.
PythonProject == {"pyproject.toml", "setup.py", "setup.cfg", "requirements.txt"}
Others == {"terraform", "go", "rust", "java-maven"}   \* detected, not supported
Supported == {"python", "node-typescript", "cdk-typescript"}

\* detect_stack
Stacks(r) ==
  (IF r \cap PythonProject # {} THEN {"python"} ELSE {}) \cup
  (IF "package.json" \notin r THEN {}
   ELSE IF "cdk.json" \in r THEN {"cdk-typescript"} ELSE {"node-typescript"}) \cup
  (r \cap Others)

Roles == {"bootstrap", "format-check", "lint", "typecheck", "test"}
Commands == Roles \cup {"import-check"}

\* What pyproject.toml may hold: a table under tool.ruff is a ruff configuration.
RuffSections == {"[tool.ruff]", "[tool.ruff.lint]"}
Sections == RuffSections \cup {"[tool.mypy]", "[tool.pytest]", "[tool.importlinter]"}

\* _python_commands: what is found, and what is appended where it is not.
\* Import contracts are not asked for.
PythonCommands(r) ==
  (IF r \cap {"uv.lock", "poetry.lock"} # {} THEN {"bootstrap"} ELSE {}) \cup
  (IF r \cap RuffSections # {} THEN {"format-check", "lint"} ELSE {}) \cup
  (IF "[tool.mypy]" \in r THEN {"typecheck"} ELSE {}) \cup
  (IF "[tool.pytest]" \in r THEN {"test"} ELSE {}) \cup
  (IF "[tool.importlinter]" \in r THEN {"import-check"} ELSE {})

PythonGaps(r) ==
  (IF r \cap {"uv.lock", "poetry.lock"} = {} THEN {{"bootstrap"}} ELSE {}) \cup
  (IF r \cap RuffSections = {} THEN {{"format-check", "lint"}} ELSE {}) \cup
  (IF "[tool.mypy]" \notin r THEN {{"typecheck"}} ELSE {}) \cup
  (IF "[tool.pytest]" \notin r THEN {{"test"}} ELSE {})

NodeLocks == {"pnpm-lock.yaml", "yarn.lock", "package-lock.json"}
LockOf == [pnpm |-> "pnpm-lock.yaml", yarn |-> "yarn.lock", npm |-> "package-lock.json"]
Declared(r) == r \cap {"pnpm", "yarn", "npm", "bun"}   \* packageManager, one at most

\* The three ValueErrors of _node_commands.
Conflicting(r) ==
  \/ Cardinality(r \cap NodeLocks) > 1
  \/ \E m \in Declared(r) :
       IF m \in DOMAIN LockOf THEN r \cap NodeLocks \notin {{}, {LockOf[m]}}
       ELSE TRUE
NodeInvalid(r) == "package.json is no object" \in r \/ Conflicting(r)

\* Two scripts may fill some roles: the first that is there counts, and a blank
\* one fills nothing.
Script(r, first, blank, second) == first \in r \/ (blank \notin r /\ second \in r)

\* The roles that a package.json script may fill.
Scripted == {"format-check", "lint", "typecheck", "test"}
HasScript(r, role) ==
  CASE role = "format-check" -> Script(r, "format:check", "blank format:check", "format-check")
    [] role = "typecheck"    -> Script(r, "typecheck", "blank typecheck", "type-check")
    [] OTHER                 -> role \in r

\* _node_commands
NodeCommands(r) ==
  (IF r \cap NodeLocks # {} THEN {"bootstrap"} ELSE {}) \cup
  {role \in Scripted : HasScript(r, role)}

NodeGaps_Declared(r) ==   \* mutant: a manager that is declared needs no lockfile
  (IF r \cap NodeLocks = {} /\ Declared(r) = {} THEN {{"bootstrap"}} ELSE {}) \cup
  {{role} : role \in {x \in Scripted : ~HasScript(r, x)}}
NodeGaps(r) ==
  (IF r \cap NodeLocks = {} THEN {{"bootstrap"}} ELSE {}) \cup
  {{role} : role \in {x \in Scripted : ~HasScript(r, x)}}

\* plan_adoption up to the files: the stack that --stack names, or the only one.
Selectable(r, stack) ==
  /\ stack \in Stacks(r) \cap Supported
  /\ stack # "python" => ~NodeInvalid(r)

CommandsOf(r, stack) == IF stack = "python" THEN PythonCommands(r) ELSE NodeCommands(r)

GapsOf(r, stack) == IF stack = "python" THEN PythonGaps(r) ELSE NodeGaps(r)

\* _makefile: `checks` are the prerequisites of verify; `written` tells whether
\* ADOPTION.md is written with it.
Makefile(commands, gaps, written) ==
  LET blocker == IF gaps # {} THEN {"adoption-incomplete"} ELSE {}
  IN  [by |-> "adopt",
       targets |-> commands \cup blocker \cup {"verify", "help"},
       checks |-> (commands \ {"bootstrap"}) \cup blocker,
       written |-> written]
=============================================================================
