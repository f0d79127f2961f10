----------------------------- MODULE CiCoverage -----------------------------
(***************************************************************************)
(* drill_ci_coverage: every verification target must be phony and reached  *)
(* from a target that a step of a CI workflow names.                       *)
(*                                                                         *)
(* The workflows are the set of targets found in them: the first word      *)
(* after a `make` that begins a line of a step.  The Makefile is what the  *)
(* two regular expressions find in it.  Whatever raises on the way - a     *)
(* missing or undecodable file, YAML that does not parse, a workflow or a  *)
(* job that is no mapping, a `run` that is no string - ends the program    *)
(* with a traceback and exit status 1.                                     *)
(***************************************************************************)
EXTENDS Integers

CONSTANTS Targets,    \* names of targets
          Required    \* VERIFICATION_TARGETS

VARIABLES
  readable,       \* no reading of the Makefile and the workflows raises
  phony,          \* get_makefile_targets, chosen where main first looks at it
  named,          \* what the workflows call
  dependencies,   \* target -> the prerequisites of its last rule
  stage,          \* "read", "expand", "compare", "over"
  referenced, work,
  verdict

files == <<readable, named, dependencies>>
vars == <<files, phony, stage, referenced, work, verdict>>

NoVerdict == -1

TypeOK ==
  /\ readable \in BOOLEAN
  /\ phony \subseteq Targets /\ named \subseteq Targets
  /\ dependencies \in [Targets -> SUBSET Targets]
  /\ stage \in {"read", "expand", "compare", "over"}
  /\ referenced \subseteq Targets
  /\ work \subseteq Targets
  /\ verdict \in {0, 1, NoVerdict}

\* The program is about to read.
Begins ==
  /\ phony = {}
  /\ stage = "read"
  /\ referenced = {} /\ work = {}
  /\ verdict = NoVerdict

Init ==
  /\ readable \in BOOLEAN
  /\ named \in SUBSET Targets
  /\ dependencies \in [Targets -> SUBSET Targets]
  /\ Begins

\* What the workflows name is what expand_prerequisites starts from.
Read ==
  /\ stage = "read"
  /\ readable
  /\ referenced' = named /\ work' = named
  /\ stage' = "expand"
  /\ UNCHANGED <<files, phony, verdict>>

\* Nothing is caught, in main or on the way to it.
Raises ==
  /\ stage = "read"
  /\ ~readable
  /\ stage' = "over"
  /\ verdict' = 1
  /\ UNCHANGED <<files, phony, referenced, work>>

\* One turn of the loop, on any element of the list.
Children_All(t) == dependencies[t]                   \* mutant: what was found is not left out
Children_One(t) ==                                   \* mutant: only the first is followed
  LET new == dependencies[t] \ referenced
  IN  IF new = {} THEN {} ELSE {CHOOSE c \in new : TRUE}
Children(t) == dependencies[t] \ referenced

Expand ==
  /\ stage = "expand"
  /\ \E t \in work :
       /\ referenced' = referenced \cup Children(t)
       /\ work' = (work \ {t}) \cup Children(t)
  /\ UNCHANGED <<files, phony, stage, verdict>>

Expanded ==
  /\ stage = "expand"
  /\ work = {}
  /\ stage' = "compare"
  /\ UNCHANGED <<files, phony, referenced, work, verdict>>

\* main: the drill targets and unclassified ones only give warnings.
Missing_InFile(targets) ==   \* mutant: a target no longer declared is passed over
  (Required \cap targets) \ referenced
Missing(targets) == {t \in Required : t \notin targets \/ t \notin referenced}

Compare ==
  /\ stage = "compare"
  /\ stage' = "over"
  /\ phony' \in SUBSET Targets
  /\ verdict' = IF Missing(phony') = {} THEN 0 ELSE 1
  /\ UNCHANGED <<files, referenced, work>>

Next == Read \/ Raises \/ Expand \/ Expanded \/ Compare

Spec == Init /\ [][Next]_vars /\ WF_vars(Next)

-----------------------------------------------------------------------------
(* Properties. *)

\* A program that raised has not finished its search.
S == INSTANCE Search WITH
       Nodes <- Targets, goal <- named, edges <- dependencies, broken <- {},
       found <- referenced,
       state <- IF stage \in {"read", "expand"} \/ ~readable THEN "searching" ELSE "found"

\* expand_prerequisites implements the search: in whatever order the list is
\* worked off, it ends with exactly what the named targets reach.
Searches == S!Spec

\* Exit 0 only if all required targets are phony and reached from the named
\* ones by the last rules of the Makefile.  Exit 1 says that one is not, or
\* else that a file could not be read in the form the drill expects.
VerdictIsRight ==
  stage = "over" =>
    (verdict = 0 <=> readable /\ Required \subseteq phony \cap S!Reach)
=============================================================================
