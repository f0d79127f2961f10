------------------------------ MODULE Readiness ------------------------------
(***************************************************************************)
(* Audit and adoption on one repository, over its life: its owner adds and *)
(* removes configuration and files, and runs `ai-ready adopt --apply` at   *)
(* any time.  The audit is what it would report in each state.             *)
(*                                                                         *)
(* A plan is computed and applied in one step here; Adoption has the steps.*)
(***************************************************************************)
EXTENDS Audit, AdoptionPlan

CONSTANTS Fixed,    \* markers that are always there
          Varying,  \* markers the owner adds and removes
          UserMakefiles  \* sets of targets the owner may write a Makefile with

ASSUME MarkersAssumption == Fixed \cap Varying = {}

\* Sections are there only with the file they are in.
ASSUME SectionsAssumption ==
  (Fixed \cup Varying) \cap Sections # {} => "pyproject.toml" \in Fixed

VARIABLES
  repo,      \* the markers there are
  makefile,  \* the Makefile
  guide,     \* AGENTS.md
  adoption   \* ADOPTION.md, and the gaps it lists, entry by entry

vars == <<repo, makefile, guide, adoption>>

NoMakefile == [by |-> "nobody", targets |-> {}, checks |-> {}, written |-> FALSE]
UserMakefile(targets) ==
  [by |-> "owner", targets |-> targets, checks |-> {}, written |-> FALSE]
NoAdoption == [by |-> "nobody", gaps |-> {}]
UserAdoption == [by |-> "owner", gaps |-> {}]

\* The entry for a Makefile that was there before: it asks for all the commands.
Integrate == Commands

TypeOK ==
  /\ Fixed \subseteq repo /\ repo \subseteq Fixed \cup Varying
  /\ makefile.by \in {"nobody", "owner", "adopt"}
  /\ makefile.checks \subseteq Commands \cup {"adoption-incomplete"}
  /\ makefile.written \in BOOLEAN
  /\ guide \in Guides
  /\ adoption \in [by : {"nobody", "owner", "adopt"}, gaps : SUBSET SUBSET Commands]

Init ==
  /\ repo = Fixed
  /\ makefile = NoMakefile
  /\ guide = "absent"
  /\ adoption = NoAdoption

-----------------------------------------------------------------------------
(* The owner. *)

Adds(m) ==
  /\ m \in Varying \ repo
  /\ repo' = repo \cup {m}
  /\ UNCHANGED <<makefile, guide, adoption>>

Removes(m) ==
  /\ m \in Varying \cap repo
  /\ repo' = repo \ {m}
  /\ UNCHANGED <<makefile, guide, adoption>>

EditsMakefile ==
  /\ makefile' \in {NoMakefile} \cup {UserMakefile(t) : t \in UserMakefiles}
  /\ UNCHANGED <<repo, guide, adoption>>

EditsGuide ==
  /\ guide' \in Guides
  /\ UNCHANGED <<repo, makefile, adoption>>

EditsAdoption ==
  /\ adoption' \in {NoAdoption, UserAdoption}
  /\ UNCHANGED <<repo, makefile, guide>>

Owner ==
  \/ \E m \in Varying : Adds(m) \/ Removes(m)
  \/ EditsMakefile \/ EditsGuide \/ EditsAdoption

-----------------------------------------------------------------------------
(* adopt --apply: what exists is preserved. *)

MakefileAfter_Overwrites(commands, gaps) ==   \* mutant: the Makefile is always generated
  Makefile(commands, gaps, adoption = NoAdoption)
MakefileAfter(commands, gaps) ==
  IF makefile # NoMakefile THEN makefile
  ELSE Makefile(commands, gaps, adoption = NoAdoption)

\* The gaps that ADOPTION.md lists.
ListedGaps_Plain(gaps) == gaps   \* mutant: a preserved Makefile is no gap
ListedGaps(gaps) == gaps \cup (IF makefile # NoMakefile THEN {Integrate} ELSE {})

Adopt(stack) ==
  LET commands == CommandsOf(repo, stack)
      gaps == GapsOf(repo, stack)
  IN  /\ Selectable(repo, stack)
      /\ makefile' = MakefileAfter(commands, gaps)
      /\ guide' = IF guide = "absent" THEN "short" ELSE guide
      /\ adoption' = IF adoption # NoAdoption THEN adoption
                     ELSE [by |-> "adopt", gaps |-> ListedGaps(gaps)]
      /\ UNCHANGED repo

Next == Owner \/ \E stack \in Supported : Adopt(stack)

Spec == Init /\ [][Next]_vars

-----------------------------------------------------------------------------
(* Properties. *)

Configured == Established(repo, makefile.targets, guide)
Report == Findings(repo, makefile.targets, guide)

\* README, "generated verification fails while setup is incomplete": in a Makefile
\* that adopt wrote, verify runs all four kinds of check and there is a way to
\* install what they need, or else verify is blocked; and it is blocked only
\* then.  Commands and gaps are two lists that every branch adds to by itself.
GeneratedVerifyIsHonest ==
  makefile.by = "adopt" =>
    ("adoption-incomplete" \notin makefile.checks
       <=> Scripted \subseteq makefile.checks /\ "bootstrap" \in makefile.targets)

\* A blocked Makefile refers its reader to ADOPTION.md: as long as the two are
\* adopt's and ADOPTION.md is not the older, some entry of it asks for what is
\* missing, or asks to integrate the commands found since.
GapsAreListed ==
  makefile.by = "adopt" /\ makefile.written /\ adoption.by = "adopt" =>
    Roles \ makefile.targets \subseteq UNION adoption.gaps

\* Adoption is additive to the audit too: nothing it finds configured is lost
\* by an adopt, whatever the repository already holds.
AdoptNeverLowers ==
  [][repo' = repo /\ (\E stack \in Supported : Adopt(stack)) =>
       Configured \subseteq Configured']_vars

\* Adding configuration never loses a finding, tests that skip excepted.
EvidenceOnlyGrows ==
  [][repo \subseteq repo' /\ repo' # repo
       /\ (repo' \ repo) \cap {"test with skip", "test with syntax error"} = {} =>
         Configured \subseteq Configured']_vars

\* The bounds are bounds (comment on score_bounds): with tools that the audit
\* has no marker for, the number of checks that really are met lies between
\* them.  They never meet, and a level is reported only when it and all below it
\* are complete.
OtherTools ==
  [biome |-> "Formatter", pyright |-> "Types", hosted_scanner |-> "Secret_scanner",
   agent_runs |-> "Agent_performance_measurements"]

BoundsAreHonest ==
  LET report == Report
      met == With(report, "configured") \cup
               {OtherTools[m] : m \in repo \cap DOMAIN OtherTools}
  IN  /\ Score(report) <= Cardinality(met)
      /\ Cardinality(met) <= Optimistic(report)
      /\ Score(report) < Optimistic(report)
      /\ \A c \in Checks : Levels[c] <= Level(report) => report[c] = "configured"
=============================================================================
