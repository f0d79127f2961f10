--------------------------- MODULE EvalGate_proofs ---------------------------
(***************************************************************************)
(* What exit 0 of run_evals and a saved baseline rest on, for any tasks,   *)
(* any number of runs and any edits between their steps.                   *)
(***************************************************************************)
EXTENDS EvalGate, FiniteSetTheorems, TLAPS

Pcs == {"idle", "tasks", "open", "write", "prior"}
RunStates == [pc : Pcs, save : BOOLEAN, todo : SUBSET Tasks, exit : -1..1,
              results : [Tasks -> Rows], known : Baselines]

\* What main accepts before it saves or looks at the prior.
Accepted(s) ==
  /\ Ran(s) # {}
  /\ CoverageOk(s)
  /\ PassedIn(s) = Measurable(s)

\* A run has something to run or has run something; past Judge, and at exit 0,
\* it has been accepted; what it remembers of the baseline was blessed.
Sound(s) ==
  /\ s.pc = "tasks" => s.todo # {} \/ Ran(s) # {}
  /\ s.pc \in {"open", "write", "prior"} => Accepted(s) /\ s.known # Torn
  /\ s.pc = "idle" /\ s.exit = 0 => Accepted(s)
  /\ s.known.state = "ok" => s.known.rows \subseteq blessed
RunsAreSound == \A r \in Runs : Sound(run[r])

FilesAreSound ==
  /\ baseline.state = "ok" => baseline.rows \subseteq blessed
  /\ prior.state = "ok" => prior.rows \subseteq reviewed

IInv == TypeOK /\ RunsAreSound /\ FilesAreSound /\ BaselineMeetsFloor

-----------------------------------------------------------------------------
(* Rows and their counts. *)

\* What has been run is split into the invalid and the measurable.
LEMMA Counts ==
  ASSUME NEW s
  PROVE  /\ Cardinality(Ran(s)) \in Nat /\ Cardinality(Measurable(s)) \in Nat
         /\ Cardinality(InvalidIn(s)) \in Nat
         /\ Cardinality(Ran(s)) = Cardinality(Measurable(s)) + Cardinality(InvalidIn(s))
         /\ Ran(s) # {} => Cardinality(Ran(s)) > 0
         /\ Cardinality(Measurable(s)) <= Cardinality(Tasks)
         /\ Cardinality(Tasks) \in Nat
<1>1. /\ Ran(s) \subseteq Tasks /\ InvalidIn(s) \subseteq Ran(s)
      /\ Measurable(s) = Ran(s) \ InvalidIn(s) /\ Measurable(s) \subseteq Tasks
  BY DEF Ran, InvalidIn, Measurable
<1>2. IsFiniteSet(Ran(s)) /\ IsFiniteSet(InvalidIn(s)) /\ IsFiniteSet(Measurable(s))
  BY <1>1, TasksAssumption, FS_Subset
<1>3. /\ Cardinality(Ran(s)) \in Nat /\ Cardinality(Measurable(s)) \in Nat
      /\ Cardinality(InvalidIn(s)) \in Nat /\ Cardinality(Tasks) \in Nat
  BY <1>2, TasksAssumption, FS_CardinalityType
<1>4. Measurable(s) \cup InvalidIn(s) = Ran(s) /\ Measurable(s) \cap InvalidIn(s) = {}
  BY <1>1
<1>5. Cardinality(Ran(s)) = Cardinality(Measurable(s)) + Cardinality(InvalidIn(s))
  <2>1. Cardinality(Measurable(s) \cap InvalidIn(s)) = 0
    BY <1>4, FS_EmptySet
  <2>2. Cardinality(Measurable(s) \cup InvalidIn(s)) =
          Cardinality(Measurable(s)) + Cardinality(InvalidIn(s))
            - Cardinality(Measurable(s) \cap InvalidIn(s))
    BY <1>2, FS_Union
  <2>3. Cardinality(Measurable(s) \cup InvalidIn(s)) = Cardinality(Ran(s))
    BY <1>4, Zenon
  <2> QED BY <1>3, <2>1, <2>2, <2>3
<1>6. Ran(s) # {} => Cardinality(Ran(s)) # 0
  BY <1>2, FS_EmptySet
<1>7. Cardinality(Measurable(s)) <= Cardinality(Tasks)
  BY <1>1, TasksAssumption, FS_Subset
<1> QED BY <1>3, <1>5, <1>6, <1>7

\* An accepted run has measured three rows for each that is invalid, and one.
LEMMA AcceptedCounts ==
  ASSUME NEW s, Accepted(s)
  PROVE  /\ Cardinality(Measurable(s)) > 0
         /\ 3 * Cardinality(InvalidIn(s)) <= Cardinality(Measurable(s))
<1>1. 4 * Cardinality(Measurable(s)) >= 3 * Cardinality(Ran(s)) /\ Ran(s) # {}
  BY DEF Accepted, CoverageOk
<1> QED BY <1>1, Counts

\* What is said of the results of a run depends on nothing else of it.
LEMMA SameResults ==
  ASSUME NEW s, NEW u, u.results = s.results
  PROVE  /\ Ran(u) = Ran(s) /\ InvalidIn(u) = InvalidIn(s)
         /\ Measurable(u) = Measurable(s) /\ (Accepted(u) <=> Accepted(s))
<1>1. Ran(u) = Ran(s)
  BY DEF Ran
<1>2. InvalidIn(u) = InvalidIn(s)
  BY <1>1 DEF InvalidIn
<1>3. Measurable(u) = Measurable(s)
  BY <1>1, <1>2 DEF Measurable
<1>4. PassedIn(u) = PassedIn(s)
  BY <1>3 DEF PassedIn
<1>5. CoverageOk(u) <=> CoverageOk(s)
  BY <1>1, <1>3 DEF CoverageOk
<1> QED BY <1>1, <1>2, <1>3, <1>4, <1>5 DEF Accepted

\* Exit 0 after acceptance is what GreenIsMeasured says of it.
LEMMA AcceptedIsMeasured ==
  ASSUME NEW s \in RunStates, Accepted(s)
  PROVE  /\ \A t \in Ran(s) : LET row == s.results[t]
              IN  row = Row("passes", FALSE) \/ row.kind \in {"unreachable", "gap", "broken"}
         /\ 4 * Cardinality({t \in Tasks : s.results[t].kind = "passes"})
              >= 3 * Cardinality(Ran(s))
<1>1. \A t \in Tasks : s.results[t] \in Rows
  BY DEF RunStates
<1>2. \A t \in Ran(s) : s.results[t] \in [kind : Kinds, dirty : BOOLEAN]
  BY <1>1 DEF Ran, Rows
<1>3. \A t \in Measurable(s) : Passed(s.results[t])
  BY DEF Accepted, PassedIn
<1>4. ASSUME NEW t \in Ran(s)
      PROVE  \/ s.results[t] = Row("passes", FALSE)
             \/ s.results[t].kind \in {"unreachable", "gap", "broken"}
  <2>1. CASE t \in Measurable(s)
    BY <1>2, <1>3, <2>1 DEF Passed, Row
  <2>2. CASE t \notin Measurable(s)
    BY <1>4, <2>2 DEF Measurable, InvalidIn, Invalid
  <2> QED BY <2>1, <2>2
<1>5. {t \in Tasks : s.results[t].kind = "passes"} = Measurable(s)
  <2>1. ASSUME NEW t \in Tasks, s.results[t].kind = "passes" PROVE t \in Measurable(s)
    BY <2>1 DEF Measurable, InvalidIn, Invalid, Ran, NotRun
  <2>2. Measurable(s) \subseteq Tasks
    BY DEF Measurable, Ran
  <2> QED BY <1>3, <2>1, <2>2 DEF Passed
<1>6. 4 * Cardinality(Measurable(s)) >= 3 * Cardinality(Ran(s))
  BY DEF Accepted, CoverageOk
<1> QED BY <1>4, <1>5, <1>6

-----------------------------------------------------------------------------
(* Steps of runs. *)

\* A run that gets another position, exit code or memory keeps its results.
LEMMA MovesType ==
  ASSUME TypeOK, NEW r \in Runs, NEW s \in RunStates, run' = [run EXCEPT ![r] = s]
  PROVE  /\ run' \in [Runs -> RunStates]
         /\ run'[r] = s /\ \A q \in Runs \ {r} : run'[q] = run[q]
BY DEF TypeOK, RunStates, Pcs

\* Where one run moves and nothing else changes, the rest stays sound.
LEMMA OneMoves ==
  ASSUME IInv, NEW r \in Runs, NEW s \in RunStates, run' = [run EXCEPT ![r] = s],
         Sound(s), UNCHANGED <<file, dirty, prior, baseline, histories, edits>>,
         starts' \in 0..MaxStarts
  PROVE  IInv'
<1>1. /\ run' \in [Runs -> RunStates]
      /\ run'[r] = s /\ \A q \in Runs \ {r} : run'[q] = run[q]
  BY MovesType DEF IInv
<1>2. TypeOK'
  BY <1>1 DEF IInv, TypeOK, RunStates, Pcs, histories
<1>3. blessed' = blessed /\ \A q \in Runs : Sound(run[q])
  BY DEF histories, IInv, RunsAreSound
<1>4. ASSUME NEW q \in Runs PROVE Sound(run[q])'
  <2>1. CASE q = r
    BY <1>1, <1>3, <2>1 DEF Sound, Accepted, CoverageOk, PassedIn, Measurable, InvalidIn, Ran
  <2>2. CASE q # r
    <3>1. run'[q] = run[q]
      BY <1>1, <2>2
    <3> QED BY <1>3, <3>1 DEF Sound, Accepted, CoverageOk, PassedIn, Measurable, InvalidIn, Ran
  <2> QED BY <2>1, <2>2
<1>5. FilesAreSound' /\ BaselineMeetsFloor'
  BY DEF IInv, FilesAreSound, BaselineMeetsFloor, histories
<1> QED BY <1>2, <1>4, <1>5 DEF IInv, RunsAreSound

\* What is blessed only grows.
LEMMA RunsStaySound ==
  ASSUME NEW r \in Runs, NEW s, RunsAreSound, Sound(s),
         run'[r] = s, \A q \in Runs \ {r} : run'[q] = run[q],
         blessed \subseteq blessed'
  PROVE  RunsAreSound'
<1> SUFFICES ASSUME NEW q \in Runs PROVE Sound(run[q])'
  BY DEF RunsAreSound
<1>1. CASE q = r
  BY <1>1 DEF Sound, Accepted, CoverageOk, PassedIn, Measurable, InvalidIn, Ran
<1>2. CASE q # r
  <2>1. run'[q] = run[q] /\ Sound(run[q])
    BY <1>2 DEF RunsAreSound
  <2> QED BY <2>1 DEF Sound, Accepted, CoverageOk, PassedIn, Measurable, InvalidIn, Ran
<1> QED BY <1>1, <1>2

LEMMA StateOf ==
  ASSUME TypeOK, NEW r \in Runs
  PROVE  run[r] \in RunStates
BY DEF TypeOK, RunStates, Pcs

\* Setting a position and an exit code.
LEMMA ExitState ==
  ASSUME NEW s \in RunStates, NEW pc \in Pcs, NEW code \in -1..1, NEW known \in Baselines,
         NEW u, u = [s EXCEPT !.pc = pc, !.exit = code, !.known = known]
  PROVE  /\ u \in RunStates
         /\ u.pc = pc /\ u.exit = code /\ u.known = known
         /\ u.results = s.results /\ u.todo = s.todo
BY DEF RunStates

LEMMA NewRunState ==
  ASSUME NEW pc \in Pcs, NEW save \in BOOLEAN, NEW todo \in SUBSET Tasks
  PROVE  /\ NewRun(pc, save, todo) \in RunStates
         /\ NewRun(pc, save, todo).pc = pc /\ NewRun(pc, save, todo).exit = NoExit
         /\ NewRun(pc, save, todo).todo = todo
         /\ NewRun(pc, save, todo).known = Missing
BY DEF NewRun, RunStates, NoExit, Rows, Baselines

\* Exits and the other assignments to a run, as the choice of a new state.
LEMMA ExitsMoves ==
  ASSUME TypeOK, NEW r \in Runs, NEW code \in -1..1, Exits(r, code)
  PROVE  \E s \in RunStates :
           /\ run' = [run EXCEPT ![r] = s]
           /\ s.pc = "idle" /\ s.exit = code /\ s.known = run[r].known
           /\ s.results = run[r].results
<1> DEFINE s == [run[r] EXCEPT !.pc = "idle", !.exit = code]
<1>1. run[r] \in RunStates /\ run \in [Runs -> RunStates]
  BY StateOf DEF TypeOK, RunStates, Pcs
<1>2. s \in RunStates /\ s.pc = "idle" /\ s.exit = code /\ s.known = run[r].known
      /\ s.results = run[r].results
  BY <1>1 DEF RunStates, Pcs
<1>3. run' = [run EXCEPT ![r] = s]
  BY <1>1 DEF Exits, RunStates
<1> QED BY <1>2, <1>3

\* A run that has not begun has nothing to account for.
LEMMA FreshIsSound ==
  ASSUME NEW s, s.pc = "idle", s.exit \in {NoExit, 1}, s.known = Missing
  PROVE  Sound(s)
<1>1. s.exit # 0 /\ s.known.state # "ok"
  BY DEF NoExit, Missing
<1> QED BY <1>1 DEF Sound

LEMMA InitIInv == Init => IInv
<1> SUFFICES ASSUME Init PROVE IInv
  OBVIOUS
<1>1. /\ NewRun("idle", FALSE, {}) \in RunStates
      /\ NewRun("idle", FALSE, {}).pc = "idle" /\ NewRun("idle", FALSE, {}).exit = NoExit
      /\ NewRun("idle", FALSE, {}).known = Missing
  BY DEF NewRun, RunStates, Pcs, NoExit, Rows, Baselines
<1>2. run \in [Runs -> RunStates]
  BY <1>1 DEF Init
<1>3. TypeOK
  <2>1. prior \in Priors /\ baseline \in Baselines
    BY DEF Init, Priors, Baselines, Listed
  <2>2. file \in [Tasks -> Kinds \cup {"absent"}]
    BY DEF Init, Kinds
  <2>3. edits \in 0..MaxEdits /\ starts \in 0..MaxStarts
    BY BoundsAssumption DEF Init
  <2>4. dirty \in BOOLEAN /\ reviewed \subseteq Tasks /\ blessed \subseteq Tasks
    BY DEF Init
  <2> QED BY <1>2, <2>1, <2>2, <2>3, <2>4, Zenon DEF TypeOK, RunStates, Pcs
<1>4. Sound(NewRun("idle", FALSE, {}))
  BY <1>1, FreshIsSound
<1>5. RunsAreSound
  BY <1>4 DEF Init, RunsAreSound
<1>6. FilesAreSound /\ BaselineMeetsFloor
  BY DEF Init, FilesAreSound, BaselineMeetsFloor, Missing, Listed
<1> QED BY <1>3, <1>5, <1>6 DEF IInv

LEMMA AuthorsIInv == ASSUME IInv, Authors PROVE IInv'
<1>1. run' = run /\ edits' \in 0..MaxEdits /\ starts' = starts
  BY BoundsAssumption DEF Authors, IInv, TypeOK
<1>2. /\ file' \in [Tasks -> Kinds \cup {"absent"}] /\ dirty' \in BOOLEAN
      /\ blessed' = blessed /\ baseline' \in {baseline, Missing}
      /\ prior' \in Priors /\ reviewed' \subseteq Tasks
      /\ prior'.state = "ok" => prior'.rows \subseteq reviewed'
  <2>1. /\ file \in [Tasks -> Kinds \cup {"absent"}] /\ dirty \in BOOLEAN
        /\ prior \in Priors /\ reviewed \subseteq Tasks
        /\ prior.state = "ok" => prior.rows \subseteq reviewed
    BY DEF IInv, TypeOK, FilesAreSound
  <2>2. CASE \E t \in Tasks, kind \in Kinds \cup {"absent"} : EditTask(t, kind)
    BY <2>1, <2>2 DEF EditTask, histories
  <2>3. CASE EditTree \/ DropBaseline
    BY <2>1, <2>3 DEF EditTree, DropBaseline, histories
  <2>4. CASE \E p \in Priors : ReviewedChange(p)
    <3>1. PICK p \in Priors : ReviewedChange(p)
      BY <2>4
    <3>2. p.state = "ok" => p.rows \subseteq Tasks
      BY DEF Priors, Missing
    <3> QED BY <2>1, <3>1, <3>2 DEF ReviewedChange
  <2> QED BY <2>2, <2>3, <2>4 DEF Authors
<1>3. /\ baseline' \in Baselines
      /\ baseline'.state = "ok" => baseline' = baseline
  BY <1>2 DEF IInv, TypeOK, Baselines, Missing
<1>4. TypeOK'
  <2>1. TypeOK
    BY DEF IInv
  <2>2. /\ run' \in [Runs -> RunStates]
        /\ starts' \in 0..MaxStarts /\ blessed' \subseteq Tasks
    BY <1>1, <1>2, <2>1 DEF TypeOK, RunStates, Pcs
  <2> QED BY <1>1, <1>2, <1>3, <2>2, Zenon DEF TypeOK, RunStates, Pcs
<1>5. FilesAreSound'
  BY <1>2, <1>3 DEF IInv, FilesAreSound
<1>6. BaselineMeetsFloor'
  <2>1. CASE baseline'.state = "ok"
    <3>1. baseline' = baseline
      BY <1>3, <2>1
    <3> QED BY <3>1 DEF IInv, BaselineMeetsFloor
  <2>2. CASE baseline'.state # "ok"
    BY <2>2 DEF BaselineMeetsFloor
  <2> QED BY <2>1, <2>2
<1>7. RunsAreSound'
  BY <1>1, <1>2 DEF IInv, RunsAreSound, Sound, Accepted, CoverageOk, PassedIn,
                    Measurable, InvalidIn, Ran
<1> QED BY <1>4, <1>5, <1>6, <1>7 DEF IInv

LEMMA StartIInv ==
  ASSUME IInv, NEW r \in Runs, NEW chosen \in Choices, NEW save \in BOOLEAN,
         Start(r, chosen, save)
  PROVE  IInv'
<1> DEFINE found == {t \in chosen : file[t] # "absent"}
<1>1. /\ UNCHANGED <<file, dirty, prior, baseline, histories, edits>>
      /\ starts' \in 0..MaxStarts
  BY BoundsAssumption DEF Start, IInv, TypeOK
<1>2. found \in SUBSET Tasks
  BY DEF Choices
<1>3. CASE found = {}
  <2> DEFINE s == [NewRun("idle", save, {}) EXCEPT !.exit = 1]
  <2>1. s \in RunStates /\ s.pc = "idle" /\ s.exit = 1 /\ s.known = Missing
    BY DEF NewRun, RunStates, Pcs, NoExit, Rows, Baselines
  <2>2. Sound(s)
    BY <2>1, FreshIsSound
  <2>3. run' = [run EXCEPT ![r] = s]
    BY <1>3 DEF Start
  <2> HIDE DEF s
  <2> QED BY <1>1, <2>1, <2>2, <2>3, OneMoves
<1>4. CASE found # {}
  <2> DEFINE s == NewRun("tasks", save, found)
  <2>1. /\ s \in RunStates /\ s.pc = "tasks" /\ s.todo # {}
        /\ s.known.state # "ok"
    BY <1>2, <1>4 DEF NewRun, RunStates, Pcs, NoExit, Rows, Baselines, Missing
  <2>2. Sound(s)
    <3> HIDE DEF s
    <3> QED BY <2>1 DEF Sound
  <2>3. run' = [run EXCEPT ![r] = s]
    BY <1>4 DEF Start
  <2> HIDE DEF s
  <2> QED BY <1>1, <2>1, <2>2, <2>3, OneMoves
<1> QED BY <1>3, <1>4

LEMMA RunTaskIInv ==
  ASSUME IInv, NEW r \in Runs, NEW t \in Tasks, RunTask(r, t)
  PROVE  IInv'
<1>1. PICK gitWorks \in BOOLEAN :
        run' = [run EXCEPT ![r].todo = @ \ {t}, ![r].results[t] = Executed(t, gitWorks)]
  BY DEF RunTask
<1>2. /\ UNCHANGED <<file, dirty, prior, baseline, histories, edits>>
      /\ starts' \in 0..MaxStarts
      /\ run[r] \in RunStates /\ run[r].pc = "tasks"
  BY StateOf DEF RunTask, IInv, TypeOK
<1>3. Executed(t, gitWorks) \in [kind : Kinds, dirty : BOOLEAN]
  BY DEF IInv, TypeOK, Executed, Row, Kinds, Dirt
<1> DEFINE s == [run[r] EXCEPT !.todo = @ \ {t}, !.results[t] = Executed(t, gitWorks)]
<1>4. /\ s \in RunStates /\ s.pc = "tasks" /\ s.known = run[r].known
      /\ s.results[t] = Executed(t, gitWorks)
  BY <1>2, <1>3 DEF RunStates, Rows
<1>5. run' = [run EXCEPT ![r] = s]
  BY <1>1, <1>2 DEF IInv, TypeOK
<1> HIDE DEF s
<1>6. t \in Ran(s)
  BY <1>3, <1>4 DEF Ran, NotRun, Kinds
<1>7. Sound(s)
  BY <1>4, <1>6 DEF Sound, IInv, RunsAreSound
<1> QED BY <1>2, <1>4, <1>5, <1>7, OneMoves

LEMMA JudgeIInv ==
  ASSUME IInv, NEW r \in Runs, Judge(r)
  PROVE  IInv'
<1>1. /\ UNCHANGED <<file, dirty, prior, baseline, histories, edits>>
      /\ starts' \in 0..MaxStarts /\ baseline \in Baselines
      /\ run[r] \in RunStates /\ run[r].pc = "tasks" /\ run[r].todo = {}
      /\ TypeOK /\ Sound(run[r])
  BY StateOf DEF Judge, IInv, TypeOK, RunsAreSound
<1>2. CASE Exits(r, 1)
  <2>1. PICK s \in RunStates :
          /\ run' = [run EXCEPT ![r] = s]
          /\ s.pc = "idle" /\ s.exit = 1 /\ s.known = run[r].known
    BY <1>1, <1>2, ExitsMoves
  <2>2. Sound(s)
    BY <1>1, <2>1 DEF Sound
  <2> QED BY <1>1, <2>1, <2>2, OneMoves
<1>3. CASE /\ baseline # Torn /\ CoverageOk(run[r]) /\ PassedIn(run[r]) = Measurable(run[r])
           /\ run' = [run EXCEPT ![r].pc = IF run[r].save THEN "open" ELSE "prior",
                                 ![r].known = baseline]
  <2> DEFINE s == [run[r] EXCEPT !.pc = IF run[r].save THEN "open" ELSE "prior",
                                 !.known = baseline]
  <2>1. /\ s \in RunStates /\ s.pc \in {"open", "prior"} /\ s.known = baseline
        /\ s.results = run[r].results
    BY <1>1 DEF RunStates, Pcs
  <2>2. run' = [run EXCEPT ![r] = s]
    BY <1>1, <1>3 DEF TypeOK
  <2> HIDE DEF s
  <2>3. Accepted(run[r])
    BY <1>1, <1>3 DEF Sound, Accepted
  <2>4. Accepted(s)
    BY <2>1, <2>3, SameResults
  <2>5. Sound(s)
    BY <1>3, <2>1, <2>4 DEF Sound, IInv, FilesAreSound
  <2> QED BY <1>1, <2>1, <2>2, <2>5, OneMoves
<1> QED BY <1>2, <1>3 DEF Judge

LEMMA PriorIInv ==
  ASSUME IInv, NEW r \in Runs, Prior(r)
  PROVE  IInv'
<1>1. /\ UNCHANGED <<file, dirty, prior, baseline, histories, edits>>
      /\ starts' \in 0..MaxStarts
      /\ run[r].pc = "prior" /\ TypeOK /\ Sound(run[r])
  BY DEF Prior, IInv, TypeOK, RunsAreSound
<1>2. PICK code \in {0, 1} : Exits(r, code)
  BY DEF Prior
<1>3. PICK s \in RunStates :
        /\ run' = [run EXCEPT ![r] = s]
        /\ s.pc = "idle" /\ s.exit = code /\ s.known = run[r].known
        /\ s.results = run[r].results
  <2>1. code \in -1..1
    OBVIOUS
  <2> QED BY <1>1, <1>2, <2>1, ExitsMoves
<1>4. Accepted(s)
  BY <1>1, <1>3, SameResults DEF Sound
<1>5. Sound(s)
  BY <1>1, <1>3, <1>4 DEF Sound
<1> QED BY <1>1, <1>3, <1>5, OneMoves

LEMMA CrashIInv ==
  ASSUME IInv, NEW r \in Runs, Crash(r)
  PROVE  IInv'
<1> DEFINE s == NewRun("idle", FALSE, {})
<1>1. /\ UNCHANGED <<file, dirty, prior, baseline, histories, edits>>
      /\ starts' \in 0..MaxStarts
      /\ run' = [run EXCEPT ![r] = s]
  BY DEF Crash, IInv, TypeOK
<1>2. s \in RunStates /\ s.pc = "idle" /\ s.exit = NoExit /\ s.known = Missing
  BY DEF NewRun, RunStates, Pcs, NoExit, Rows, Baselines
<1> HIDE DEF s
<1>3. Sound(s)
  BY <1>2, FreshIsSound
<1> QED BY <1>1, <1>2, <1>3, OneMoves

\* The file is empty between open and write, and claims nothing.
LEMMA SaveOpensIInv ==
  ASSUME IInv, NEW r \in Runs, SaveOpens(r)
  PROVE  IInv'
<1> DEFINE s == [run[r] EXCEPT !.pc = "write"]
<1>1. /\ UNCHANGED <<file, dirty, prior, histories, edits, starts>>
      /\ baseline' = Torn /\ Torn \in Baselines /\ Torn.state # "ok"
      /\ run[r] \in RunStates /\ run[r].pc = "open" /\ TypeOK /\ Sound(run[r])
  BY StateOf DEF SaveOpens, IInv, RunsAreSound, Baselines, Torn
<1>2. s \in RunStates /\ s.pc = "write" /\ s.known = run[r].known
      /\ s.results = run[r].results
  BY <1>1 DEF RunStates, Pcs
<1>3. run' = [run EXCEPT ![r] = s]
  BY <1>1 DEF SaveOpens, TypeOK
<1> HIDE DEF s
<1>4. Sound(s)
  BY <1>1, <1>2, SameResults DEF Sound
<1>5. /\ run' \in [Runs -> RunStates]
      /\ run'[r] = s /\ \A q \in Runs \ {r} : run'[q] = run[q]
  BY <1>1, <1>2, <1>3, MovesType
<1>6. TypeOK'
  BY <1>1, <1>5 DEF TypeOK, RunStates, Pcs, histories
<1>7. RunsAreSound'
  BY <1>1, <1>4, <1>5, RunsStaySound DEF IInv, histories
<1>8. FilesAreSound' /\ BaselineMeetsFloor'
  BY <1>1 DEF IInv, FilesAreSound, BaselineMeetsFloor, histories
<1> QED BY <1>6, <1>7, <1>8 DEF IInv

\* What is saved are the rows of an accepted run.
LEMMA SaveWritesIInv ==
  ASSUME IInv, NEW r \in Runs, SaveWrites(r)
  PROVE  IInv'
<1>1. /\ UNCHANGED <<file, dirty, prior, reviewed, edits, starts>>
      /\ blessed' = blessed \cup InvalidIn(run[r])
      /\ Exits(r, 0) /\ TypeOK /\ Sound(run[r]) /\ Accepted(run[r])
  BY DEF SaveWrites, IInv, RunsAreSound, Sound
<1>2. PICK s \in RunStates :
        /\ run' = [run EXCEPT ![r] = s]
        /\ s.pc = "idle" /\ s.exit = 0 /\ s.known = run[r].known
        /\ s.results = run[r].results
  <2>1. 0 \in -1..1
    OBVIOUS
  <2> QED BY <1>1, <2>1, ExitsMoves
<1>3. Sound(s)
  BY <1>1, <1>2, SameResults DEF Sound
<1>4. /\ run' \in [Runs -> RunStates]
      /\ run'[r] = s /\ \A q \in Runs \ {r} : run'[q] = run[q]
  BY <1>1, <1>2, MovesType
<1>5. RunsAreSound'
  BY <1>1, <1>3, <1>4, RunsStaySound DEF IInv
<1> DEFINE rows == InvalidIn(run[r])
           size == Cardinality(Measurable(run[r]))
<1>6. /\ rows \subseteq Tasks /\ size \in 0..Cardinality(Tasks)
      /\ size > 0 /\ 3 * Cardinality(rows) <= size
  <2>1. rows \subseteq Tasks
    BY DEF InvalidIn, Ran
  <2> QED BY <1>1, <2>1, Counts, AcceptedCounts
<1> HIDE DEF rows, size
<1>7. baseline' \in {Saved(rows, size), Torn, Missing}
  BY DEF SaveWrites, rows, size
<1>8. /\ Saved(rows, size) \in Baselines /\ Torn \in Baselines
      /\ Saved(rows, size).rows = rows /\ Saved(rows, size).tasks = size
      /\ Missing \in Baselines /\ Torn.state # "ok" /\ Missing.state # "ok"
  BY <1>6 DEF Saved, Baselines, Torn, Missing
<1>9. blessed' = blessed \cup rows /\ blessed' \subseteq Tasks
  BY <1>1, <1>6 DEF rows, TypeOK
<1>10. TypeOK'
  BY <1>1, <1>4, <1>7, <1>8, <1>9, Zenon DEF TypeOK, RunStates, Pcs
<1>11. FilesAreSound'
  BY <1>1, <1>7, <1>8, <1>9 DEF IInv, FilesAreSound
<1>12. BaselineMeetsFloor'
  <2>1. CASE baseline' \in {Torn, Missing}
    BY <1>8, <2>1 DEF BaselineMeetsFloor
  <2>2. CASE baseline' = Saved(rows, size)
    <3>1. baseline'.tasks = size /\ baseline'.rows = rows
      BY <1>8, <2>2
    <3> QED BY <1>6, <3>1 DEF BaselineMeetsFloor
  <2> QED BY <1>7, <2>1, <2>2
<1> QED BY <1>5, <1>10, <1>11, <1>12 DEF IInv

LEMMA NextIInv == ASSUME IInv, [Next]_vars PROVE IInv'
<1>1. CASE UNCHANGED vars
  BY <1>1 DEF vars, histories, IInv, TypeOK, RunsAreSound, Sound, Accepted, CoverageOk, PassedIn,
              Measurable, InvalidIn, Ran, FilesAreSound, BaselineMeetsFloor
<1>2. CASE Authors
  BY <1>2, AuthorsIInv
<1>3. ASSUME NEW r \in Runs,
             \/ \E chosen \in Choices, save \in BOOLEAN : Start(r, chosen, save)
             \/ \E t \in Tasks : RunTask(r, t)
             \/ Judge(r) \/ SaveOpens(r) \/ SaveWrites(r) \/ Prior(r) \/ Crash(r)
      PROVE  IInv'
  BY <1>3, StartIInv, RunTaskIInv, JudgeIInv, SaveOpensIInv, SaveWritesIInv, PriorIInv, CrashIInv
<1> QED BY <1>1, <1>2, <1>3 DEF Next

LEMMA Invariance == Spec => []IInv
<1>1. IInv /\ [Next]_vars => IInv'
  BY NextIInv
<1> QED BY InitIInv, <1>1, PTL DEF Spec

-----------------------------------------------------------------------------
(* The theorems. *)

\* The state of run_evals (main) and of its files is well formed at every step,
\* for any tasks, runs, edits and crashes.
THEOREM TypeCorrect == Spec => []TypeOK
BY Invariance, PTL DEF IInv

\* Exit 0 (the end of main) rests on tasks that ran and met their expectation,
\* three in four of those that ran at least, whatever was edited meanwhile.
THEOREM GreenMeasured == Spec => []GreenIsMeasured
<1>1. IInv => GreenIsMeasured
  <2> SUFFICES ASSUME IInv, NEW r \in Runs, Green(r)
               PROVE  GreenIsMeasured!(r)!2
    BY DEF GreenIsMeasured
  <2>1. run[r] \in RunStates /\ Accepted(run[r])
    BY StateOf DEF IInv, RunsAreSound, Sound, Green
  <2> QED BY <2>1, AcceptedIsMeasured
<1> QED BY <1>1, Invariance, PTL

\* A baseline that can be read (save_baseline) was saved by an accepted run.
THEOREM BaselineFloor == Spec => []BaselineMeetsFloor
BY Invariance, PTL DEF IInv

\* The steps of one run.
RunSteps(r) ==
  \/ \E chosen \in Choices, save \in BOOLEAN : Start(r, chosen, save)
  \/ \E t \in Tasks : RunTask(r, t)
  \/ Judge(r) \/ SaveOpens(r) \/ SaveWrites(r) \/ Prior(r) \/ Crash(r)

\* No step but its own moves a run.
LEMMA OthersStay ==
  ASSUME TypeOK, NEW r \in Runs, NEW q \in Runs, q # r, RunSteps(q)
  PROVE  run'[r] = run[r]
<1>1. CASE \E chosen \in Choices, save \in BOOLEAN : Start(q, chosen, save)
  BY <1>1 DEF Start, TypeOK
<1>2. CASE \E t \in Tasks : RunTask(q, t)
  BY <1>2 DEF RunTask, TypeOK
<1>3. CASE Judge(q)
  BY <1>3 DEF Judge, Exits, TypeOK
<1>4. CASE SaveOpens(q) \/ SaveWrites(q) \/ Prior(q)
  BY <1>4 DEF SaveOpens, SaveWrites, Prior, Exits, TypeOK
<1>5. CASE Crash(q)
  BY <1>5 DEF Crash, TypeOK
<1> QED BY <1>1, <1>2, <1>3, <1>4, <1>5 DEF RunSteps

\* Only Prior takes a run from the comparison to exit 0.
LEMMA StandingIsPrior ==
  ASSUME IInv, [Next]_vars, NEW r \in Runs, Standing(r)
  PROVE  Prior(r)
<1>1. run'[r] # run[r] /\ run[r].pc = "prior" /\ TypeOK
  BY DEF Standing, IInv
<1>2. ~UNCHANGED vars /\ ~Authors
  BY <1>1 DEF vars, Authors
<1>3. PICK q \in Runs : RunSteps(q)
  BY <1>2 DEF Next, RunSteps
<1>4. RunSteps(r)
  BY <1>1, <1>3, OthersStay
<1>5. ~Crash(r)
  BY <1>1 DEF Crash, NewRun, NoExit, Standing, TypeOK
<1> QED BY <1>1, <1>4, <1>5 DEF RunSteps, Start, RunTask, Judge, SaveOpens, SaveWrites

\* A run that ends green in the comparison with the prior (lines 737-770) has no
\* dead row that nobody has reviewed or, where there is no prior, no dead row
\* that no saving run had.
THEOREM NoCorpse == Spec => NoNewCorpse
<1> DEFINE Accounted ==
      \A r \in Runs : Standing(r) =>
        /\ prior.state # "malformed"
        /\ prior.state = "ok" => InvalidIn(run[r]) \subseteq reviewed
        /\ prior = Missing /\ run[r].known # Missing => InvalidIn(run[r]) \subseteq blessed
<1>1. ASSUME IInv, [Next]_vars PROVE Accounted
  <2> SUFFICES ASSUME NEW r \in Runs, Standing(r)
               PROVE  /\ prior.state # "malformed"
                      /\ prior.state = "ok" => InvalidIn(run[r]) \subseteq reviewed
                      /\ prior = Missing /\ run[r].known # Missing =>
                           InvalidIn(run[r]) \subseteq blessed
    OBVIOUS
  <2>1. TypeOK /\ Sound(run[r]) /\ FilesAreSound /\ Prior(r) /\ run[r] \in RunStates
    BY <1>1, StandingIsPrior, StateOf DEF IInv, RunsAreSound
  <2>2. ~Exits(r, 1)
    <3>1. Exits(r, 1) => run'[r].exit = 1
      BY <2>1, ExitsMoves, MovesType DEF IInv
    <3> QED BY <3>1 DEF Standing
  <2>3. prior.state # "malformed" /\ InvalidIn(run[r]) \subseteq KnownInvalid(r)
    BY <2>1, <2>2 DEF Prior, NewlyInvalid
  <2>4. prior.state = "ok" => InvalidIn(run[r]) \subseteq reviewed
    BY <2>1, <2>3 DEF KnownInvalid, FilesAreSound
  <2>5. ASSUME prior = Missing, run[r].known # Missing
        PROVE  InvalidIn(run[r]) \subseteq blessed
    <3>1. prior.state # "ok" /\ run[r].known.state = "ok"
      BY <2>1, <2>5 DEF Sound, Prior, RunStates, Baselines, Missing
    <3> QED BY <2>1, <2>3, <3>1 DEF KnownInvalid, Sound
  <2> QED BY <2>3, <2>4, <2>5
<1> QED BY <1>1, Invariance, PTL DEF Spec, NoNewCorpse
=============================================================================
