--------------------------- MODULE Readiness_proofs ---------------------------
(***************************************************************************)
(* The properties of audit and adoption, for any repository.               *)
(***************************************************************************)
EXTENDS Readiness, FiniteSetTheorems, TLAPS

LEMMA CommandsAreCommands == \A r, stack : CommandsOf(r, stack) \subseteq Commands
<1> SUFFICES ASSUME NEW r, NEW stack PROVE CommandsOf(r, stack) \subseteq Commands
  OBVIOUS
<1>1. PythonCommands(r) \subseteq Commands
  BY DEF PythonCommands, Commands, Roles
<1>2. NodeCommands(r) \subseteq Commands
  BY DEF NodeCommands, Commands, Roles, Scripted
<1> QED BY <1>1, <1>2 DEF CommandsOf

LEMMA GapsAreCommands == \A r, stack : GapsOf(r, stack) \subseteq SUBSET Commands
<1> SUFFICES ASSUME NEW r, NEW stack PROVE GapsOf(r, stack) \subseteq SUBSET Commands
  OBVIOUS
<1>1. PythonGaps(r) \subseteq SUBSET Commands
  BY DEF PythonGaps, Commands, Roles
<1>2. NodeGaps(r) \subseteq SUBSET Commands
  BY DEF NodeGaps, Commands, Roles, Scripted
<1> QED BY <1>1, <1>2 DEF GapsOf

\* Command by command and gap by gap: a role without a command is in some entry
\* (adoption.py:60-80, 119-140) ...
LEMMA EveryGapIsNoted ==
  \A r, stack : Roles \ CommandsOf(r, stack) \subseteq UNION GapsOf(r, stack)
<1> SUFFICES ASSUME NEW r, NEW stack, NEW role \in Roles
             PROVE  role \in CommandsOf(r, stack) \/ \E g \in GapsOf(r, stack) : role \in g
  OBVIOUS
<1>1. role \in PythonCommands(r) \/ \E g \in PythonGaps(r) : role \in g
  <2>1. CASE role = "bootstrap"
    <3>1. CASE r \cap {"uv.lock", "poetry.lock"} = {}
      <4>1. {"bootstrap"} \in PythonGaps(r)
        BY <3>1 DEF PythonGaps
      <4> QED BY <2>1, <4>1
    <3> QED BY <2>1, <3>1 DEF PythonCommands
  <2>2. CASE role \in {"format-check", "lint"}
    <3>1. CASE r \cap RuffSections = {}
      <4>1. {"format-check", "lint"} \in PythonGaps(r)
        BY <3>1 DEF PythonGaps
      <4> QED BY <2>2, <4>1
    <3> QED BY <2>2, <3>1 DEF PythonCommands
  <2>3. CASE role = "typecheck"
    <3>1. CASE "[tool.mypy]" \notin r
      <4>1. {"typecheck"} \in PythonGaps(r)
        BY <3>1 DEF PythonGaps
      <4> QED BY <2>3, <4>1
    <3> QED BY <2>3, <3>1 DEF PythonCommands
  <2>4. CASE role = "test"
    <3>1. CASE "[tool.pytest]" \notin r
      <4>1. {"test"} \in PythonGaps(r)
        BY <3>1 DEF PythonGaps
      <4> QED BY <2>4, <4>1
    <3> QED BY <2>4, <3>1 DEF PythonCommands
  <2> QED BY <2>1, <2>2, <2>3, <2>4 DEF Roles
<1>2. role \in NodeCommands(r) \/ \E g \in NodeGaps(r) : role \in g
  <2>1. CASE role = "bootstrap"
    <3>1. CASE r \cap NodeLocks = {}
      <4>1. {"bootstrap"} \in NodeGaps(r)
        BY <3>1 DEF NodeGaps
      <4> QED BY <2>1, <4>1
    <3> QED BY <2>1, <3>1 DEF NodeCommands
  <2>2. CASE role \in Scripted
    <3>1. CASE ~HasScript(r, role)
      <4>1. {role} \in NodeGaps(r)
        BY <2>2, <3>1 DEF NodeGaps
      <4> QED BY <4>1
    <3> QED BY <2>2, <3>1 DEF NodeCommands
  <2> QED BY <2>1, <2>2 DEF Roles, Scripted
<1> QED BY <1>1, <1>2 DEF CommandsOf, GapsOf

\* ... and an entry asks for some role that has none.
LEMMA EveryEntryIsAGap ==
  \A r, stack : \A g \in GapsOf(r, stack) : g \cap (Roles \ CommandsOf(r, stack)) # {}
<1> SUFFICES ASSUME NEW r, NEW stack, NEW g \in GapsOf(r, stack)
             PROVE  \E role \in g : role \in Roles \ CommandsOf(r, stack)
  OBVIOUS
<1>1. CASE stack = "python"
  <2>1. g \in PythonGaps(r) /\ CommandsOf(r, stack) = PythonCommands(r)
    BY <1>1 DEF GapsOf, CommandsOf
  <2>2. \/ g = {"bootstrap"} /\ r \cap {"uv.lock", "poetry.lock"} = {}
        \/ g = {"format-check", "lint"} /\ r \cap RuffSections = {}
        \/ g = {"typecheck"} /\ "[tool.mypy]" \notin r
        \/ g = {"test"} /\ "[tool.pytest]" \notin r
    BY <2>1 DEF PythonGaps
  <2> QED BY <2>1, <2>2 DEF PythonCommands, Roles
<1>2. CASE stack # "python"
  <2>1. g \in NodeGaps(r) /\ CommandsOf(r, stack) = NodeCommands(r)
    BY <1>2 DEF GapsOf, CommandsOf
  <2>2. \/ g = {"bootstrap"} /\ r \cap NodeLocks = {}
        \/ \E role \in Scripted : g = {role} /\ ~HasScript(r, role)
    BY <2>1 DEF NodeGaps
  <2> QED BY <2>1, <2>2 DEF NodeCommands, Roles, Scripted
<1> QED BY <1>1, <1>2

LEMMA InitTypeOK == Init => TypeOK
BY DEF Init, TypeOK, NoMakefile, NoAdoption, Guides

LEMMA NextTypeOK == ASSUME TypeOK, [Next]_vars PROVE TypeOK'
<1> USE DEF TypeOK
<1>1. ASSUME NEW m \in Varying, Adds(m) \/ Removes(m) PROVE TypeOK'
  BY <1>1, MarkersAssumption DEF Adds, Removes
<1>2. CASE EditsMakefile
  <2>1. makefile' = NoMakefile \/ \E t \in UserMakefiles : makefile' = UserMakefile(t)
    BY <1>2 DEF EditsMakefile
  <2>2. makefile'.by \in {"nobody", "owner"} /\ makefile'.checks = {} /\ makefile'.written = FALSE
    BY <2>1 DEF NoMakefile, UserMakefile
  <2> QED BY <1>2, <2>2 DEF EditsMakefile
<1>3. CASE EditsGuide
  BY <1>3 DEF EditsGuide
<1>4. CASE EditsAdoption
  BY <1>4 DEF EditsAdoption, NoAdoption, UserAdoption
<1>5. ASSUME NEW stack \in Supported, Adopt(stack) PROVE TypeOK'
  <2> DEFINE commands == CommandsOf(repo, stack)
             gaps == GapsOf(repo, stack)
  <2>1. /\ makefile' = MakefileAfter(commands, gaps)
        /\ guide' = IF guide = "absent" THEN "short" ELSE guide
        /\ adoption' = IF adoption # NoAdoption THEN adoption
                       ELSE [by |-> "adopt", gaps |-> ListedGaps(gaps)]
        /\ repo' = repo
    BY <1>5 DEF Adopt
  <2>2. commands \subseteq Commands
    BY CommandsAreCommands
  <2>3. ListedGaps(gaps) \subseteq SUBSET Commands
    BY GapsAreCommands DEF ListedGaps, Integrate
  <2>4. /\ makefile'.by \in {"nobody", "owner", "adopt"}
        /\ makefile'.checks \subseteq Commands \cup {"adoption-incomplete"}
        /\ makefile'.written \in BOOLEAN
    BY <2>1, <2>2 DEF MakefileAfter, Makefile
  <2> QED BY <2>1, <2>3, <2>4 DEF Guides
<1>6. CASE UNCHANGED vars
  BY <1>6 DEF vars
<1> QED BY <1>1, <1>2, <1>3, <1>4, <1>5, <1>6 DEF Next, Owner

\* Type correctness, whatever markers and Makefiles there are.
THEOREM TypeCorrect == Spec => []TypeOK
BY InitTypeOK, NextTypeOK, PTL DEF Spec

-----------------------------------------------------------------------------
(* What adopt generates. *)

LEMMA NextGenerated ==
  ASSUME GeneratedVerifyIsHonest, GapsAreListed, [Next]_vars
  PROVE  GeneratedVerifyIsHonest' /\ GapsAreListed'
<1> USE DEF GeneratedVerifyIsHonest, GapsAreListed
<1>1. CASE Owner
  <2>1. CASE UNCHANGED <<makefile, adoption>>
    BY <2>1
  <2>2. CASE EditsMakefile
    <3>1. makefile'.by # "adopt"
      BY <2>2 DEF EditsMakefile, NoMakefile, UserMakefile
    <3> QED BY <3>1
  <2>3. CASE EditsAdoption
    <3>1. adoption'.by # "adopt" /\ makefile' = makefile
      BY <2>3 DEF EditsAdoption, NoAdoption, UserAdoption
    <3> QED BY <3>1
  <2> QED BY <1>1, <2>1, <2>2, <2>3 DEF Owner, Adds, Removes, EditsGuide
<1>2. ASSUME NEW stack \in Supported, Adopt(stack)
      PROVE  GeneratedVerifyIsHonest' /\ GapsAreListed'
  <2> DEFINE commands == CommandsOf(repo, stack)
             gaps == GapsOf(repo, stack)
  <2>1. /\ makefile' = MakefileAfter(commands, gaps)
        /\ adoption' = IF adoption # NoAdoption THEN adoption
                       ELSE [by |-> "adopt", gaps |-> ListedGaps(gaps)]
    BY <1>2 DEF Adopt
  <2>0. /\ Roles \ commands \subseteq UNION gaps
        /\ \A g \in gaps : g \cap (Roles \ commands) # {}
        /\ commands \subseteq Commands
    BY EveryGapIsNoted, EveryEntryIsAGap, CommandsAreCommands
  <2> HIDE DEF commands, gaps
  <2>2. CASE makefile = NoMakefile
    <3>1. makefile' = Makefile(commands, gaps, adoption = NoAdoption)
      BY <2>1, <2>2 DEF MakefileAfter
    <3> DEFINE blocker == IF gaps # {} THEN {"adoption-incomplete"} ELSE {}
    <3>2. /\ makefile'.written = (adoption = NoAdoption)
          /\ makefile'.targets = commands \cup blocker \cup {"verify", "help"}
          /\ makefile'.checks = (commands \ {"bootstrap"}) \cup blocker
      BY <3>1 DEF Makefile
    <3>3. gaps = {} <=> Roles \subseteq commands
      BY <2>0
    <3>4. GeneratedVerifyIsHonest'
      <4>1. "adoption-incomplete" \in makefile'.checks <=> gaps # {}
        BY <2>0, <3>2 DEF Commands, Roles
      <4>2. Scripted \subseteq makefile'.checks <=> Scripted \subseteq commands
        BY <3>2 DEF Scripted
      <4>3. "bootstrap" \in makefile'.targets <=> "bootstrap" \in commands
        BY <3>2
      <4>4. Roles = Scripted \cup {"bootstrap"}
        BY DEF Roles, Scripted
      <4> QED BY <3>3, <4>1, <4>2, <4>3, <4>4
    <3>5. adoption = NoAdoption => adoption'.gaps = ListedGaps(gaps)
      BY <2>1
    <3>6. gaps \subseteq ListedGaps(gaps) /\ commands \subseteq makefile'.targets
      BY <3>2 DEF ListedGaps
    <3>7. GapsAreListed'
      <4> SUFFICES ASSUME makefile'.written, NEW role \in Roles \ makefile'.targets
                   PROVE  role \in UNION adoption'.gaps
        OBVIOUS
      <4>1. adoption'.gaps = ListedGaps(gaps)
        BY <3>2, <3>5
      <4>2. role \in UNION gaps
        BY <2>0, <3>6
      <4> QED BY <3>6, <4>1, <4>2
    <3> QED BY <3>4, <3>7
  <2>3. CASE makefile # NoMakefile
    <3>1. makefile' = makefile
      BY <2>1, <2>3 DEF MakefileAfter
    <3>2. adoption' = adoption \/ Integrate \in adoption'.gaps
      BY <2>1, <2>3 DEF ListedGaps
    <3>3. Roles \subseteq Integrate
      BY DEF Integrate, Commands
    <3> QED BY <3>1, <3>2, <3>3
  <2> QED BY <2>2, <2>3
<1>3. CASE UNCHANGED vars
  BY <1>3 DEF vars
<1> QED BY <1>1, <1>2, <1>3 DEF Next

THEOREM Generated == Spec => [](GeneratedVerifyIsHonest /\ GapsAreListed)
<1>1. Init => GeneratedVerifyIsHonest /\ GapsAreListed
  BY DEF Init, NoMakefile, GeneratedVerifyIsHonest, GapsAreListed
<1> QED BY <1>1, NextGenerated, PTL DEF Spec

\* A generated Makefile has all kinds of check behind verify or is blocked, and
\* is blocked only then: whatever the branches of _python_commands and
\* _node_commands append to the two lists (adoption.py:58-81, 116-161).
THEOREM VerifyIsHonest == Spec => []GeneratedVerifyIsHonest
BY Generated, PTL

\* What blocks it is explained in the ADOPTION.md written with it, or later
\* (adoption.py:178-200).
THEOREM GapsListed == Spec => []GapsAreListed
BY Generated, PTL

-----------------------------------------------------------------------------
(* The audit is monotone. *)

\* More markers, none of them of a test that skips, more targets and guidance
\* that was kept or newly written: nothing established is lost.
LEMMA EstablishedGrows ==
  ASSUME NEW r, NEW r1, NEW targets, NEW targets1, NEW g, NEW g1,
         r \subseteq r1, targets \subseteq targets1,
         (r1 \ r) \cap Skips = {},
         g1 = g \/ (g = "absent" /\ g1 = "short")
  PROVE  Established(r, targets, g) \subseteq Established(r1, targets1, g1)
<1> DEFINE met(s, t) == {c \in Checks : s \cap MarkersOf[c] # {} \/ t \cap TargetsOf[c] # {}}
           unsure(s) == IF s \cap Skips # {} THEN {"Skipped_test_ownership"} ELSE {}
<1>1. met(r, targets) \subseteq met(r1, targets1)
  OBVIOUS
<1>2. unsure(r1) = unsure(r)
  <2>1. r1 \cap Skips # {} <=> r \cap Skips # {}
    OBVIOUS
  <2> QED BY <2>1
<1>3. GuidanceOf(Guidance(r, g)) \subseteq GuidanceOf(Guidance(r1, g1))
  <2>1. Guidance(r1, g1) = Guidance(r, g) \/ (Guidance(r, g) = "absent" /\ Guidance(r1, g1) = "short")
    BY DEF Guidance
  <2>2. GuidanceOf("absent") = {}
    BY DEF GuidanceOf
  <2> QED BY <2>1, <2>2
<1>4. \A s, t, h : Established(s, t, h) = (met(s, t) \ unsure(s)) \cup GuidanceOf(Guidance(s, h))
  BY DEF Established
<1> HIDE DEF met, unsure
<1> QED BY <1>1, <1>2, <1>3, <1>4

\* Nothing that the audit finds configured is lost by an adopt.
THEOREM NeverLowers == Spec => AdoptNeverLowers
<1>1. ASSUME repo' = repo, NEW stack \in Supported, Adopt(stack)
      PROVE  Configured \subseteq Configured'
  <2>1. /\ makefile' = MakefileAfter(CommandsOf(repo, stack), GapsOf(repo, stack))
        /\ guide' = IF guide = "absent" THEN "short" ELSE guide
    BY <1>1 DEF Adopt
  <2>2. makefile.targets \subseteq makefile'.targets
    BY <2>1 DEF MakefileAfter, NoMakefile
  <2>3. guide' = guide \/ (guide = "absent" /\ guide' = "short")
    BY <2>1
  <2>4. Established(repo, makefile.targets, guide)
          \subseteq Established(repo', makefile'.targets, guide')
    BY <1>1, <2>2, <2>3, EstablishedGrows
  <2> QED BY <2>4 DEF Configured
<1>2. [repo' = repo /\ (\E stack \in Supported : Adopt(stack)) => Configured \subseteq Configured']_vars
  BY <1>1
<1> QED BY <1>2, PTL DEF AdoptNeverLowers

\* Configuration that is added loses no finding, tests that skip excepted.
THEOREM OnlyGrows == Spec => EvidenceOnlyGrows
<1>1. ASSUME [Next]_vars, repo \subseteq repo', repo' # repo,
             (repo' \ repo) \cap {"test with skip", "test with syntax error"} = {}
      PROVE  Configured \subseteq Configured'
  <2>1. UNCHANGED <<makefile, guide>>
    BY <1>1 DEF Next, Owner, Adds, Removes, EditsMakefile, EditsGuide, EditsAdoption, Adopt, vars
  <2>2. Established(repo, makefile.targets, guide)
          \subseteq Established(repo', makefile'.targets, guide')
    BY <1>1, <2>1, EstablishedGrows DEF Skips
  <2> QED BY <2>2 DEF Configured
<1>2. [Next]_vars =>
        [repo \subseteq repo' /\ repo' # repo
           /\ (repo' \ repo) \cap {"test with skip", "test with syntax error"} = {} =>
             Configured \subseteq Configured']_vars
  BY <1>1
<1> QED BY <1>2, PTL DEF Spec, EvidenceOnlyGrows

-----------------------------------------------------------------------------
(* The bounds of the score, and the level. *)

LEMMA FiniteFive ==
  ASSUME NEW a, NEW b, NEW c, NEW d, NEW e PROVE IsFiniteSet({a, b, c, d, e})
<1>1. IsFiniteSet({a})
  BY FS_Singleton
<1>2. IsFiniteSet({a} \cup {b})
  BY <1>1, FS_AddElement
<1>3. IsFiniteSet(({a} \cup {b}) \cup {c})
  BY <1>2, FS_AddElement
<1>4. IsFiniteSet((({a} \cup {b}) \cup {c}) \cup {d})
  BY <1>3, FS_AddElement
<1>5. IsFiniteSet(((({a} \cup {b}) \cup {c}) \cup {d}) \cup {e})
  BY <1>4, FS_AddElement
<1>6. ((({a} \cup {b}) \cup {c}) \cup {d}) \cup {e} = {a, b, c, d, e}
  OBVIOUS
<1> QED BY <1>5, <1>6

LEMMA ChecksAreFinite == IsFiniteSet(Checks)
<1> DEFINE L1 == {"Runtime_pin", "Dependency_lock", "Environment_example",
                  "Bootstrap_entry_point", "Verification_entry_point"}
           L2 == {"Formatter", "Linter", "Types", "Test_files", "CI_workflow"}
           L3 == {"CI_verification_entry_point", "Skipped_test_ownership", "Code_owners",
                  "Import_boundaries", "Agent_guidance"}
           L4 == {"Concise_guidance", "Verifiable_decisions", "Secret_scanner",
                  "Verification_regression_tasks", "Agent_performance_measurements"}
<1>1. IsFiniteSet(L1) /\ IsFiniteSet(L2) /\ IsFiniteSet(L3) /\ IsFiniteSet(L4)
  BY FiniteFive
<1>2. Checks = ((L1 \cup L2) \cup L3) \cup L4
  BY DEF Checks, Levels
<1> HIDE DEF L1, L2, L3, L4
<1>3. IsFiniteSet(L1 \cup L2)
  BY <1>1, FS_Union
<1>4. IsFiniteSet((L1 \cup L2) \cup L3)
  BY <1>1, <1>3, FS_Union
<1>5. IsFiniteSet(((L1 \cup L2) \cup L3) \cup L4)
  BY <1>1, <1>4, FS_Union
<1> QED BY <1>2, <1>5

LEMMA LevelsAre1To4 ==
  /\ \A c \in Checks : Levels[c] \in 1..4
  /\ "Agent_performance_measurements" \in Checks
  /\ Levels["Agent_performance_measurements"] = 4
BY DEF Checks, Levels

\* No repository meets the last check.
LEMMA NothingMeetsTheLast ==
  \A r, targets, g : "Agent_performance_measurements" \notin Established(r, targets, g)
<1>1. MarkersOf["Agent_performance_measurements"] = {}
  BY DEF MarkersOf
<1>2. TargetsOf["Agent_performance_measurements"] = {}
  BY LevelsAre1To4 DEF TargetsOf
<1>3. \A h : "Agent_performance_measurements" \notin GuidanceOf(h)
  BY DEF GuidanceOf
<1> QED BY <1>1, <1>2, <1>3 DEF Established

LEMMA ReportIs ==
  /\ \A c \in Checks : /\ Report[c] \in {"configured", "missing", "unknown"}
                       /\ c \in Markers => Report[c] # "missing"
  /\ Report["Agent_performance_measurements"] = "unknown"
<1> DEFINE established == Established(repo, makefile.targets, guide)
<1>1. \A c \in Checks : Report[c] = IF c \in established THEN "configured"
                                    ELSE IF c \in Markers THEN "unknown" ELSE "missing"
  BY DEF Report, Findings
<1>2. "Agent_performance_measurements" \in Markers \ established
  BY NothingMeetsTheLast DEF Markers
<1> HIDE DEF established
<1> QED BY <1>1, <1>2, LevelsAre1To4

\* The levels that are complete are those up to the level of the report.
LEMMA LevelIsComplete == \A c \in Checks : Levels[c] <= Level(Report) => Report[c] = "configured"
<1> DEFINE complete == {n \in 1..4 : \A c \in Checks : Levels[c] <= n => Report[c] = "configured"}
<1>1. Level(Report) = Cardinality(complete)
  BY DEF Level
<1>2. complete \subseteq 1..3
  <2>1. 4 \notin complete
    BY ReportIs, LevelsAre1To4
  <2> QED BY <2>1
<1>3. \A n \in complete : 1..n \subseteq complete
  <2> SUFFICES ASSUME NEW n \in complete, NEW k \in 1..n PROVE k \in complete
    OBVIOUS
  <2>1. n \in 1..4 /\ k \in 1..4 /\ k <= n
    OBVIOUS
  <2>2. \A c \in Checks : Levels[c] <= k => Levels[c] <= n
    BY <2>1, LevelsAre1To4
  <2> QED BY <2>1, <2>2
<1>4. complete \in {1..0, 1..1, 1..2, 1..3}
  <2> HIDE DEF complete
  <2>1. CASE 3 \in complete
    <3>1. 1..3 \subseteq complete
      BY <1>3, <2>1
    <3> QED BY <1>2, <3>1
  <2>2. CASE 3 \notin complete /\ 2 \in complete
    <3>1. 1..2 \subseteq complete
      BY <1>3, <2>2
    <3>2. complete \subseteq 1..2
      BY <1>2, <2>2
    <3> QED BY <3>1, <3>2
  <2>3. CASE 3 \notin complete /\ 2 \notin complete
    <3>1. complete \subseteq {1}
      BY <1>2, <2>3
    <3>2. complete = {} \/ complete = {1}
      BY <3>1
    <3>3. 1..0 = {} /\ 1..1 = {1}
      OBVIOUS
    <3> QED BY <3>2, <3>3
  <2> QED BY <2>1, <2>2, <2>3
<1>5. complete = 1..Level(Report) /\ Level(Report) \in 0..3
  <2> HIDE DEF complete
  <2>1. \E k \in 0..3 : complete = 1..k
    <3>1. 0 \in 0..3 /\ 1 \in 0..3 /\ 2 \in 0..3 /\ 3 \in 0..3
      OBVIOUS
    <3> QED BY <1>4, <3>1, Zenon
  <2>2. PICK k \in 0..3 : complete = 1..k
    BY <2>1
  <2>3. Cardinality(1..k) = k
    <3>1. 1 \in Int /\ k \in Int /\ (IF 1 > k THEN 0 ELSE k - 1 + 1) = k
      OBVIOUS
    <3> QED BY <3>1, FS_Interval
  <2> QED BY <1>1, <2>2, <2>3
<1> SUFFICES ASSUME NEW c \in Checks, Levels[c] <= Level(Report) PROVE Report[c] = "configured"
  OBVIOUS
<1>6. Level(Report) \in complete
  BY <1>5, LevelsAre1To4
<1> QED BY <1>6

\* The number of checks really met lies between the bounds, which never meet,
\* and the level is complete (audit.py:24-65, 155-166).
THEOREM Bounds == Spec => []BoundsAreHonest
<1>1. BoundsAreHonest
  <2> DEFINE known == With(Report, "configured")
             open == With(Report, "unknown")
             tools == {OtherTools[m] : m \in repo \cap DOMAIN OtherTools}
  <2>1. known \cap open = {} /\ known \subseteq Checks /\ open \subseteq Checks
    BY DEF With
  <2>2. tools \subseteq known \cup open
    <3>1. \A m \in DOMAIN OtherTools : OtherTools[m] \in Checks \cap Markers
      BY DEF OtherTools, Checks, Levels, Markers
    <3> QED BY <3>1, ReportIs DEF With
  <2>3. open # {}
    BY ReportIs, LevelsAre1To4 DEF With
  <2>4. IsFiniteSet(known) /\ IsFiniteSet(open)
    BY <2>1, ChecksAreFinite, FS_Subset
  <2>5. /\ Score(Report) = Cardinality(known)
        /\ Optimistic(Report) = Cardinality(known) + Cardinality(open)
    BY DEF Score, Optimistic
  <2> HIDE DEF known, open, tools
  <2>6. IsFiniteSet(known \cup open)
        /\ Cardinality(known \cup open) = Cardinality(known) + Cardinality(open)
    <3>1. Cardinality(known \cap open) = 0
      BY <2>1, FS_EmptySet
    <3>2. Cardinality(known) \in Nat /\ Cardinality(open) \in Nat
      BY <2>4, FS_CardinalityType
    <3>3. /\ IsFiniteSet(known \cup open)
          /\ Cardinality(known \cup open)
               = Cardinality(known) + Cardinality(open) - Cardinality(known \cap open)
      BY <2>4, FS_Union
    <3> QED BY <3>1, <3>2, <3>3
  <2>7. Cardinality(open) > 0
    BY <2>3, <2>4, FS_EmptySet, FS_CardinalityType
  <2>8. Cardinality(known \cup tools) <= Cardinality(known \cup open)
    BY <2>2, <2>6, FS_Subset
  <2>9. Cardinality(known) <= Cardinality(known \cup tools)
    <3>1. IsFiniteSet(known \cup tools)
      BY <2>2, <2>6, FS_Subset
    <3> QED BY <3>1, FS_Subset
  <2>10. Cardinality(known) \in Nat /\ Cardinality(open) \in Nat
    BY <2>4, FS_CardinalityType
  <2> QED BY <2>5, <2>6, <2>7, <2>8, <2>9, <2>10, LevelIsComplete
          DEF BoundsAreHonest, known, tools
<1> QED BY <1>1, PTL
=============================================================================
