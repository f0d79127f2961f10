------------------------------- MODULE Gates -------------------------------
(***************************************************************************)
(* The programs of this repository that read a few files, decide, and keep *)
(* no state: check_population, drill_ci_coverage, the drill of the deny    *)
(* catalogue, and the falsifier of dead guards.  Each is a process of its  *)
(* own; one of them is started.                                            *)
(***************************************************************************)
EXTENDS Population

CONSTANTS Required, Categories   \* as in CiCoverage and DenyCatalog

VARIABLES
  program,   \* the one that is started
  readable, phony, named, dependencies, stage, referenced, work, verdict,   \* CiCoverage
  golden, before, edited, drill, catalog, errors, status,         \* DenyCatalog
  spec, manifest, withdrawn, at, trusted, executed, fires, outcome   \* DeadGuard

C == INSTANCE CiCoverage
D == INSTANCE DenyCatalog
G == INSTANCE DeadGuard

coverageVars == <<readable, phony, named, dependencies, stage, referenced, work, verdict>>
drillVars == <<golden, before, edited, drill, catalog, errors, status>>
guardVars == <<spec, manifest, withdrawn, at, trusted, executed, fires, outcome>>
gateVars == <<vars, program, coverageVars, drillVars, guardVars>>

\* The files a program that is not started would have read do not matter.
PopulationWaits ==
  /\ defined = {} /\ rules = [t \in Targets |-> {}] /\ left = 0
  /\ pc = "closure" /\ goal = {Verify} /\ seen = {} /\ pending = AsBag({Verify})
  /\ surface = {} /\ covered = {} /\ task = NoTask /\ accepted = {} /\ exit = NoExit
CoverageWaits ==
  readable = TRUE /\ named = {} /\ dependencies = [t \in Targets |-> {}] /\ C!Begins
DrillWaits == golden = [loads |-> TRUE, rules |-> {}] /\ D!Begins
GuardWaits ==
  /\ spec = [shape |-> "malformed",
             reference |-> [loads |-> "raises", marked |-> FALSE,
                            call |-> "raises", changes |-> FALSE],
             variant |-> [loads |-> "raises", marked |-> FALSE,
                          given |-> "raises", changed |-> "raises"]]
  /\ G!Begins

GateInit ==
  \/ program = "population" /\ Init /\ CoverageWaits /\ DrillWaits /\ GuardWaits
  \/ program = "coverage" /\ C!Init /\ PopulationWaits /\ DrillWaits /\ GuardWaits
  \/ program = "catalog" /\ D!Init /\ PopulationWaits /\ CoverageWaits /\ GuardWaits
  \/ program = "guard" /\ G!Init /\ PopulationWaits /\ CoverageWaits /\ DrillWaits

GateNext ==
  \/ program = "population" /\ Next /\ UNCHANGED <<program, coverageVars, drillVars, guardVars>>
  \/ program = "coverage" /\ C!Next /\ UNCHANGED <<program, vars, drillVars, guardVars>>
  \/ program = "catalog" /\ D!Next /\ UNCHANGED <<program, vars, coverageVars, guardVars>>
  \/ program = "guard" /\ G!Next /\ UNCHANGED <<program, vars, coverageVars, drillVars>>

\* Each is a sequential program that runs; who edits the catalogue or reviews
\* the specs need not.
GateSpec ==
  /\ GateInit /\ [][GateNext]_gateVars
  /\ WF_gateVars(GateNext /\ golden' = golden /\ manifest' = manifest)

GateTypes == TypeOK /\ C!TypeOK /\ D!TypeOK /\ G!TypeOK

\* Both work lists, one over the union of a target's rules, the other over its
\* last rule, find what can be reached, in any order and on cyclic graphs.
WorkListsSearch == Searches /\ C!Searches

\* As stated in the three modules.
CoverageVerdict == C!VerdictIsRight
CatalogVerdict  == D!VerdictIsRight
GuardVerdict    == G!VerdictIsRight

\* Every gate answers, on every graph.
GatesAnswer == <>(pc = "done" \/ stage = "over" \/ drill = "over" \/ at = "over")
=============================================================================
