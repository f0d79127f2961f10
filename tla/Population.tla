----------------------------- MODULE Population -----------------------------
(***************************************************************************)
(* check_population: every check that `make verify` runs must be claimed   *)
(* by an evaluation task whose own make command reaches it.                *)
(*                                                                         *)
(* The prerequisite graph is read from the Makefile.  `closure` works      *)
(* through it with a list, whose order is that of Python sets and hence    *)
(* arbitrary: the list is a bag here, from which any element may be popped.*)
(* A task file is chosen when it is read.                                  *)
(***************************************************************************)
EXTENDS Integers, FiniteSets

CONSTANTS Targets,   \* the names a Makefile or a task may mention
          Verify,    \* the target `verify`
          MaxTasks,  \* bound of the model: task files
          MaxWords   \* bound of the model: targets in one task's make command

ASSUME TargetsAssumption == Verify \in Targets /\ MaxTasks \in Nat /\ MaxWords \in Nat

VARIABLES
  defined,   \* targets with a literal rule
  rules,     \* target -> its prerequisites, of all its rules together
  pc,        \* "closure", "surface", "tasks", "claims", "done"
  goal,      \* the argument of closure
  seen, pending,
  surface, covered,
  left,      \* task files not read yet
  task,      \* the task being checked
  accepted,  \* history: the tasks whose claims were accepted
  exit

vars == <<defined, rules, pc, goal, seen, pending, surface, covered, left, task,
          accepted, exit>>
makefile == <<defined, rules>>

COVERED == 0
REFERENT_UNAUTHORED == 1
MEASUREMENT_INVALID == 3
NoExit == -1

\* A task that claims nothing is skipped whatever its command; one that is no
\* mapping, or whose claims or command are of the wrong form, is malformed.
Task(words, claims) == [words |-> words, claims |-> claims]
NoTask == Task({}, {})
TaskFiles == [words : {w \in SUBSET Targets : Cardinality(w) \in 1..MaxWords},
              claims : (SUBSET Targets) \ {{}}]

TypeOK ==
  /\ defined \subseteq Targets
  /\ rules \in [Targets -> SUBSET Targets]
  /\ pc \in {"closure", "surface", "tasks", "claims", "done"}
  /\ goal \subseteq Targets
  /\ seen \subseteq Targets
  /\ pending \in [Targets -> Nat]
  /\ surface \subseteq Targets
  /\ covered \subseteq Targets
  /\ left \in 0..MaxTasks
  /\ task \in TaskFiles \cup {NoTask}
  /\ accepted \subseteq TaskFiles
  /\ exit \in {COVERED, REFERENT_UNAUTHORED, MEASUREMENT_INVALID, NoExit}

\* list(targets) and rules[target] - seen, as bags of distinct elements.
AsBag(S) == [t \in Targets |-> IF t \in S THEN 1 ELSE 0]
Pending == {t \in Targets : pending[t] > 0}

Init ==
  /\ defined \in SUBSET Targets
  /\ rules \in {r \in [Targets -> SUBSET Targets] :
                  \A t \in Targets \ defined : r[t] = {}}
  /\ pc = "closure"
  /\ goal = {Verify}
  /\ seen = {}
  /\ pending = AsBag({Verify})
  /\ surface = {} /\ covered = {}
  /\ left \in 0..MaxTasks
  /\ task = NoTask
  /\ accepted = {}
  /\ exit = NoExit

Ends(code) == pc' = "done" /\ exit' = code

-----------------------------------------------------------------------------
(* closure *)

Revisit_Keeps(t) ==   \* mutant: looked at, not popped
  t \in seen /\ UNCHANGED <<pending, seen, pc, exit>>
Revisit_Twice(t) ==   \* mutant: popped twice
  t \in seen /\ pending' = [pending EXCEPT ![t] = @ - 2] /\ UNCHANGED <<seen, pc, exit>>
Revisit(t) ==
  /\ t \in seen
  /\ pending' = [pending EXCEPT ![t] = @ - 1]
  /\ UNCHANGED <<seen, pc, exit>>

Undefined(t) ==
  /\ t \notin seen
  /\ t \notin defined
  /\ Ends(MEASUREMENT_INVALID)
  /\ UNCHANGED <<seen, pending>>

Prerequisites_Direct(t) ==   \* mutant: only the arguments themselves
  IF t \in goal THEN rules[t] \ (seen \cup {t}) ELSE {}
Prerequisites(t) == rules[t] \ (seen \cup {t})

Expand(t) ==
  /\ t \notin seen
  /\ t \in defined
  /\ seen' = seen \cup {t}
  /\ pending' = [u \in Targets |->
       pending[u] - (IF u = t THEN 1 ELSE 0) + (IF u \in Prerequisites(t) THEN 1 ELSE 0)]
  /\ UNCHANGED <<pc, exit>>

Pop ==
  /\ pc = "closure"
  /\ \E t \in Pending : Revisit(t) \/ Undefined(t) \/ Expand(t)
  /\ UNCHANGED <<makefile, goal, surface, covered, left, task, accepted>>

\* The caller is check, for the surface first and then for a task.
Return ==
  /\ pc = "closure"
  /\ Pending = {}
  /\ pc' = IF task = NoTask THEN "surface" ELSE "claims"
  /\ UNCHANGED <<makefile, goal, seen, pending, surface, covered, left, task,
                 accepted, exit>>

-----------------------------------------------------------------------------
(* check *)

Surface ==
  /\ pc = "surface"
  /\ surface' = seen \ {Verify}
  /\ \/ (surface' = {} \/ left = 0) /\ Ends(MEASUREMENT_INVALID)
     \/ surface' # {} /\ left > 0 /\ pc' = "tasks" /\ UNCHANGED exit
  /\ UNCHANGED <<makefile, goal, seen, pending, covered, left, task, accepted>>

SkipsTask ==
  /\ left' = left - 1
  /\ UNCHANGED <<pc, goal, seen, pending, task, exit>>

Malformed ==
  /\ Ends(MEASUREMENT_INVALID)
  /\ UNCHANGED <<goal, seen, pending, left, task>>

CallsClosure(t) ==
  /\ task' = t /\ left' = left - 1
  /\ pc' = "closure"
  /\ goal' = t.words /\ seen' = {} /\ pending' = AsBag(t.words)
  /\ UNCHANGED exit

ReadTask ==
  /\ pc = "tasks"
  /\ left > 0
  /\ SkipsTask \/ Malformed \/ \E t \in TaskFiles : CallsClosure(t)
  /\ UNCHANGED <<makefile, surface, covered, accepted>>

Reached_SurfaceOnly == task.claims \subseteq surface   \* mutant: any check of verify
Reached == task.claims \subseteq surface \cap seen

Claims ==
  /\ pc = "claims"
  /\ \/ /\ Reached
        /\ covered' = covered \cup task.claims
        /\ accepted' = accepted \cup {task}
        /\ pc' = "tasks" /\ UNCHANGED exit
     \/ /\ ~Reached
        /\ Ends(MEASUREMENT_INVALID)
        /\ UNCHANGED <<covered, accepted>>
  /\ UNCHANGED <<makefile, goal, seen, pending, surface, left, task>>

\* main
Report ==
  /\ pc = "tasks"
  /\ left = 0
  /\ Ends(IF surface \subseteq covered THEN COVERED ELSE REFERENT_UNAUTHORED)
  /\ UNCHANGED <<makefile, goal, seen, pending, surface, covered, left, task, accepted>>

Next == Pop \/ Return \/ Surface \/ ReadTask \/ Claims \/ Report

Spec == Init /\ [][Next]_vars /\ WF_vars(Next)

-----------------------------------------------------------------------------
(* Properties. *)

\* What make itself would visit: the least set that holds the goals and, with
\* a target, the prerequisites of its rules.
Closed(S) == \A t \in S \cap defined : rules[t] \subseteq S
Reach(from) == {t \in Targets : \A S \in SUBSET Targets :
                  from \subseteq S /\ Closed(S) => t \in S}

\* The loop returns the targets make would visit, whatever the order it pops
\* them in, with cycles and targets named twice; and it raises only when one
\* of those has no rule.
ClosureIsReach ==
  /\ pc \in {"surface", "claims"} => seen = Reach(goal) /\ seen \subseteq defined
  /\ pc = "closure" => seen \cup Pending \subseteq Reach(goal)

\* closure, called once for the surface and once for a task, implements the
\* search: a call raises exactly when a target in reach has no rule.
S == INSTANCE Search WITH
       Nodes <- Targets, edges <- rules, broken <- Targets \ defined, found <- seen,
       state <- IF pc = "closure" THEN "searching"
                ELSE IF Pending = {} THEN "found" ELSE "failed"
Searches == S!Spec

\* Exit 0 and exit 1 tell the truth: each check that verify runs is claimed by
\* a task whose command runs it too, or else it is missing; and no task may
\* claim a check that its command does not run.
Vouched(t) == \E k \in accepted : t \in k.claims /\ t \in Reach(k.words)
VerdictIsRight ==
  /\ exit = COVERED => \A t \in Reach({Verify}) \ {Verify} : Vouched(t)
  /\ exit = REFERENT_UNAUTHORED => \E t \in Reach({Verify}) \ {Verify} : ~Vouched(t)
  /\ \A k \in accepted : k.claims \subseteq Reach(k.words)
=============================================================================
