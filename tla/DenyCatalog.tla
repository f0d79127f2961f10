---------------------------- MODULE DenyCatalog ----------------------------
(***************************************************************************)
(* The drill of deny_catalog: four checks of a catalogue of rules, each of *)
(* which reads the golden file again while its authors may edit it.        *)
(*                                                                         *)
(* A rule is known by its category and by what its pattern does: it fires  *)
(* on a probe of its category, matches none of them ("silent"), or is no   *)
(* regular expression.  Identifiers are unique and stand for their rules.  *)
(***************************************************************************)
EXTENDS Integers

CONSTANT Categories   \* the keys of `probes`

VARIABLES
  golden,    \* deny_catalog_golden.json: whether it loads, and its rules
  before,    \* history: the file before its edit
  edited,    \* history: when it was edited, "never" if it was not
  drill,     \* the next step of main, "over" at the end
  catalog,   \* what main has loaded
  errors, status

vars == <<golden, before, edited, drill, catalog, errors, status>>
file == <<golden, before, edited>>

Rules == [category : Categories, pattern : {"fires", "silent", "invalid"}]
Files == [loads : {TRUE}, rules : SUBSET Rules] \cup [loads : {FALSE}, rules : {{}}]
Steps == {"load", "parity", "additive", "compile", "fire", "report", "over"}
NoStatus == -1

TypeOK ==
  /\ golden \in Files /\ before \in Files
  /\ edited \in Steps \cup {"never"}
  /\ drill \in Steps
  /\ catalog \subseteq Rules
  /\ errors \in BOOLEAN
  /\ status \in {0, 1, NoStatus}

Begins ==
  /\ before = golden /\ edited = "never"
  /\ drill = "load"
  /\ catalog = {} /\ errors = FALSE /\ status = NoStatus

Init == golden \in Files /\ Begins

\* An author saves another catalogue; once is enough to separate two reads.
Edit ==
  /\ edited = "never" /\ drill # "over"
  /\ golden' \in Files \ {golden}
  /\ edited' = drill
  /\ UNCHANGED <<before, drill, catalog, errors, status>>

Raises(n) == drill = n /\ drill' = "over" /\ status' = 1 /\ UNCHANGED <<catalog, errors>>
Finds(n, next, bad) ==
  /\ drill = n /\ drill' = next
  /\ errors' = (errors \/ bad)
  /\ UNCHANGED status

\* A file that does not load raises wherever it is read.
Unreadable == ~golden.loads /\ (\E n \in Steps \ {"report", "over"} : Raises(n))

Load ==
  /\ golden.loads
  /\ Finds("load", "parity", FALSE)
  /\ catalog' = golden.rules

\* drill_golden_parity: what main loaded against another reading of the file.
Parity_Counts ==    \* mutant: nothing but a rule too many is an error
  /\ golden.loads
  /\ Finds("parity", "additive", ~(catalog \subseteq golden.rules))
  /\ UNCHANGED catalog
Parity ==
  /\ golden.loads
  /\ Finds("parity", "additive", catalog # golden.rules)
  /\ UNCHANGED catalog

\* resolve_effective refuses to remove a rule of the baseline, and passes over
\* other removals.
Refuses(baseline, removals) == removals \cap baseline # {}

Additive ==
  /\ golden.loads
  /\ Finds("additive", "compile", \E r \in golden.rules : ~Refuses(golden.rules, {r}))
  /\ UNCHANGED catalog

Compiles(c) == \A r \in c.rules : r.pattern # "invalid"
Compile ==
  /\ golden.loads
  /\ Finds("compile", "fire", ~Compiles(golden))
  /\ UNCHANGED catalog

\* is_denied goes through the rules of a category in the order of the file,
\* and raises at a pattern that is no regular expression, unless one before it
\* has matched.
OfCategory(c, k) == {r \in c.rules : r.category = k}
Fires_Any(c) ==    \* mutant: one category that fires will do
  \E k \in Categories : \E r \in OfCategory(c, k) : r.pattern = "fires"
Fires(c) == \A k \in Categories : \E r \in OfCategory(c, k) : r.pattern = "fires"

Fire ==
  /\ golden.loads
  /\ \/ ~Compiles(golden) /\ Raises("fire")
     \/ Finds("fire", "report", ~Fires(golden)) /\ UNCHANGED catalog

Report ==
  /\ drill = "report" /\ drill' = "over"
  /\ status' = IF errors THEN 1 ELSE 0
  /\ UNCHANGED <<catalog, errors>>

Drill ==
  /\ Unreadable \/ Load \/ Parity \/ Additive \/ Compile \/ Fire \/ Report
  /\ UNCHANGED file

Next == Drill \/ Edit

Spec == Init /\ [][Next]_vars /\ WF_vars(Drill)

-----------------------------------------------------------------------------
\* A pass means a catalogue whose patterns compile and whose every category
\* fires.  Five reads and one edit can mix two files: only after the parity
\* check, which notices an edit before it, may the pattern check have seen
\* the one and the probes the other.  Without an edit the parity check
\* compares the file with itself, and whatever keeps a firing rule in each
\* category passes.
Guarded(c) == {r.category : r \in {r \in c.rules : r.pattern = "fires"}} = Categories
Sound(c) == c.loads /\ Compiles(c) /\ Guarded(c)
VerdictIsRight ==
  drill = "over" =>
    /\ edited = "never" => (status = 0 <=> Sound(golden))
    /\ status = 0 =>
         \/ Sound(golden) /\ edited \in {"never", "load", "additive", "compile"}
         \/ Sound(before) /\ edited = "report"
         \/ Compiles(before) /\ Guarded(golden) /\ edited = "fire"
=============================================================================
