---------------------------- MODULE Gates_proofs ----------------------------
(***************************************************************************)
(* The four gates that keep no state.  closure of check_population and     *)
(* expand_prerequisites of the CI drill compute reachability on every      *)
(* graph; the exit codes of both, of the drill of the deny catalogue and   *)
(* of the falsifier of dead guards tell the truth, whatever they are given *)
(* to read and whoever edits it meanwhile.                                 *)
(***************************************************************************)
EXTENDS Gates, TLAPS

-----------------------------------------------------------------------------
(* check_population. *)

\* The loop invariant of closure: what was seen has a rule, the prerequisites
\* of what was seen are seen or pending, and nothing else is either.
LoopInv ==
  pc \in {"closure", "surface", "claims"} =>
    /\ seen \subseteq defined
    /\ goal \subseteq seen \cup Pending
    /\ \A t \in seen : rules[t] \subseteq seen \cup Pending
    /\ seen \cup Pending \subseteq Reach(goal)
    /\ pc # "closure" => Pending = {}

\* Which call of closure this is, and what check has made of those before.
CallInv ==
  /\ pc \in {"closure", "surface"} /\ task = NoTask => goal = {Verify}
  /\ pc = "surface" => task = NoTask
  /\ pc = "claims" => task # NoTask
  /\ pc \in {"closure", "claims"} /\ task # NoTask => goal = task.words
  /\ pc # "done" => exit = NoExit
  /\ task # NoTask \/ pc = "tasks" => surface = Reach({Verify}) \ {Verify}

Summary ==
  /\ \A k \in accepted : k.claims \subseteq Reach(k.words)
  /\ covered = UNION {k.claims : k \in accepted}

PopulationInv == TypeOK /\ LoopInv /\ CallInv /\ Summary /\ VerdictIsRight

\* What is reached contains the goals and is closed, and is the least such.
LEMMA ReachGoal == ASSUME NEW from \in SUBSET Targets PROVE from \subseteq Reach(from)
BY DEF Reach

LEMMA ClosureStep ==
  ASSUME TypeOK, NEW from \in SUBSET Targets, NEW t \in Reach(from), t \in defined
  PROVE  rules[t] \subseteq Reach(from)
<1>1. t \in Targets /\ rules[t] \subseteq Targets
  BY DEF TypeOK, Reach
<1> QED BY <1>1 DEF Reach, Closed

LEMMA ReachLeast ==
  ASSUME NEW from \in SUBSET Targets, NEW Z \in SUBSET Targets,
         from \subseteq Z, Closed(Z)
  PROVE  Reach(from) \subseteq Z
BY DEF Reach

\* At the end of the loop the set seen is closed, hence all that is reachable.
LEMMA ClosureDone ==
  ASSUME TypeOK, LoopInv, pc \in {"closure", "surface", "claims"}, Pending = {}
  PROVE  seen = Reach(goal)
<1>1. goal \subseteq seen /\ seen \subseteq Reach(goal) /\ seen \subseteq Targets
      /\ goal \subseteq Targets
  BY DEF LoopInv, TypeOK
<1>2. Closed(seen)
  BY DEF LoopInv, Closed
<1> QED BY <1>1, <1>2, ReachLeast

LEMMA AsBagType ==
  ASSUME NEW Z \in SUBSET Targets
  PROVE  AsBag(Z) \in [Targets -> Nat] /\ {t \in Targets : AsBag(Z)[t] > 0} = Z
<1>1. \A t \in Targets : /\ t \in Z => AsBag(Z)[t] = 1
                         /\ t \notin Z => AsBag(Z)[t] = 0
  BY DEF AsBag
<1>2. AsBag(Z) \in [Targets -> Nat]
  BY DEF AsBag
<1>3. ASSUME NEW t \in Targets PROVE (AsBag(Z)[t] > 0) <=> (t \in Z)
  <2>1. CASE t \in Z
    BY <1>1, <2>1
  <2>2. CASE t \notin Z
    BY <1>1, <2>2
  <2> QED BY <2>1, <2>2
<1> QED BY <1>2, <1>3

LEMMA InitPopulation == Init => PopulationInv
<1> SUFFICES ASSUME Init PROVE PopulationInv
  OBVIOUS
<1>1. {Verify} \in SUBSET Targets
  BY TargetsAssumption
<1>2. pending \in [Targets -> Nat] /\ Pending = {Verify}
  BY <1>1, AsBagType DEF Init, Pending
<1>3. TypeOK
  BY <1>1, <1>2 DEF Init, TypeOK, NoExit
<1>4. LoopInv
  BY <1>1, <1>2, ReachGoal DEF Init, LoopInv
<1>5. CallInv /\ Summary
  BY DEF Init, CallInv, Summary
<1>6. VerdictIsRight
  BY DEF Init, VerdictIsRight, NoExit, COVERED, REFERENT_UNAUTHORED
<1> QED BY <1>3, <1>4, <1>5, <1>6 DEF PopulationInv

\* The invariants that a step of the loop leaves alone.
LEMMA LoopFrame ==
  ASSUME PopulationInv,
         UNCHANGED <<makefile, goal, surface, covered, left, task, accepted>>,
         \/ pc' = pc /\ exit' = exit
         \/ pc' = "done" /\ exit' = MEASUREMENT_INVALID
  PROVE  CallInv' /\ Summary' /\ VerdictIsRight'
<1>1. UNCHANGED <<defined, rules>> /\ \A from : Reach(from)' = Reach(from)
  BY DEF makefile, Reach, Closed
<1>2. CallInv' /\ Summary'
  BY <1>1 DEF PopulationInv, CallInv, Summary
<1>3. exit' = exit \/ exit' \notin {COVERED, REFERENT_UNAUTHORED}
  BY DEF MEASUREMENT_INVALID, COVERED, REFERENT_UNAUTHORED
<1>4. VerdictIsRight'
  BY <1>1, <1>3 DEF PopulationInv, VerdictIsRight, Vouched
<1> QED BY <1>2, <1>4

LEMMA PopInv == ASSUME PopulationInv, Pop PROVE PopulationInv'
<1>1. TypeOK /\ LoopInv /\ pc = "closure" /\ UNCHANGED <<defined, rules, goal>>
      /\ UNCHANGED <<makefile, goal, surface, covered, left, task, accepted>>
  BY DEF PopulationInv, Pop, makefile
<1>2. \A from : Reach(from)' = Reach(from)
  BY <1>1 DEF Reach, Closed
<1>3. PICK t \in Pending : Revisit(t) \/ Undefined(t) \/ Expand(t)
  BY DEF Pop
<1>4. /\ t \in Targets /\ pending \in [Targets -> Nat] /\ pending[t] > 0
      /\ rules[t] \subseteq Targets
  BY <1>1 DEF TypeOK, Pending
<1>5. CASE Revisit(t)
  <2>1. pending' \in [Targets -> Nat]
    BY <1>4, <1>5 DEF Revisit
  <2>2. Pending \subseteq Pending' \cup {t} /\ Pending' \subseteq Pending
    BY <1>4, <1>5 DEF Revisit, Pending
  <2>3. t \in seen /\ seen' = seen /\ pc' = pc /\ exit' = exit
    BY <1>5 DEF Revisit
  <2>4. LoopInv'
    BY <1>1, <1>2, <2>2, <2>3 DEF LoopInv
  <2>5. TypeOK'
    BY <1>1, <2>1, <2>3 DEF TypeOK
  <2> QED BY <1>1, <2>3, <2>4, <2>5, LoopFrame DEF PopulationInv
<1>6. CASE Undefined(t)
  <2>1. pc' = "done" /\ exit' = MEASUREMENT_INVALID /\ UNCHANGED <<seen, pending>>
    BY <1>6 DEF Undefined, Ends
  <2>2. TypeOK' /\ LoopInv'
    BY <1>1, <2>1 DEF TypeOK, LoopInv
  <2> QED BY <1>1, <2>1, <2>2, LoopFrame DEF PopulationInv
<1>7. CASE Expand(t)
  <2>1. t \in defined /\ seen' = seen \cup {t} /\ pc' = pc /\ exit' = exit
    BY <1>7 DEF Expand
  <2>2. \A u \in Targets : pending'[u] =
          pending[u] - (IF u = t THEN 1 ELSE 0) + (IF u \in Prerequisites(t) THEN 1 ELSE 0)
    BY <1>7 DEF Expand
  <2>3. pending' \in [Targets -> Nat]
    <3>1. \A u \in Targets :
            pending[u] - (IF u = t THEN 1 ELSE 0)
              + (IF u \in Prerequisites(t) THEN 1 ELSE 0) \in Nat
      BY <1>4
    <3> QED BY <1>7, <3>1 DEF Expand
  <2>4. /\ Pending \subseteq Pending' \cup {t}
        /\ rules[t] \subseteq seen' \cup Pending'
        /\ Pending' \subseteq Pending \cup rules[t]
    BY <1>4, <2>1, <2>2 DEF Pending, Prerequisites
  <2>5. rules[t] \subseteq Reach(goal)
    BY <1>1, <1>3, <2>1, ClosureStep DEF TypeOK, LoopInv
  <2>6. LoopInv'
    BY <1>1, <1>2, <1>3, <2>1, <2>4, <2>5 DEF LoopInv
  <2>7. TypeOK'
    BY <1>1, <1>4, <2>1, <2>3 DEF TypeOK
  <2> QED BY <1>1, <2>1, <2>6, <2>7, LoopFrame DEF PopulationInv
<1> QED BY <1>3, <1>5, <1>6, <1>7

LEMMA ReturnInv == ASSUME PopulationInv, Return PROVE PopulationInv'
<1>1. /\ TypeOK /\ LoopInv /\ CallInv /\ pc = "closure" /\ Pending = {}
      /\ UNCHANGED <<defined, rules, goal, seen, pending, surface, covered, left, task,
                     accepted, exit>>
      /\ pc' = IF task = NoTask THEN "surface" ELSE "claims"
  BY DEF PopulationInv, Return, makefile
<1>2. Pending' = Pending /\ \A from : Reach(from)' = Reach(from)
  BY <1>1 DEF Pending, Reach, Closed
<1>3. TypeOK'
  BY <1>1 DEF TypeOK
<1>4. LoopInv'
  BY <1>1, <1>2 DEF LoopInv
<1>5. CallInv'
  BY <1>1, <1>2 DEF CallInv
<1>6. Summary' /\ VerdictIsRight'
  BY <1>1, <1>2 DEF PopulationInv, Summary, VerdictIsRight, Vouched
<1> QED BY <1>3, <1>4, <1>5, <1>6 DEF PopulationInv

LEMMA SurfaceInv == ASSUME PopulationInv, Surface PROVE PopulationInv'
<1>1. /\ TypeOK /\ LoopInv /\ CallInv /\ pc = "surface"
      /\ UNCHANGED <<defined, rules, goal, seen, pending, covered, left, task, accepted>>
      /\ surface' = seen \ {Verify}
      /\ pc' \in {"tasks", "done"} /\ exit' \in {exit, MEASUREMENT_INVALID}
      /\ pc' # "done" => exit' = exit
  BY DEF PopulationInv, Surface, makefile, Ends
<1>2. \A from : Reach(from)' = Reach(from)
  BY <1>1 DEF Reach, Closed
<1>3. surface' = Reach({Verify}) \ {Verify}
  BY <1>1, ClosureDone DEF LoopInv, CallInv
<1>4. TypeOK'
  BY <1>1 DEF TypeOK
<1>5. LoopInv' /\ CallInv'
  BY <1>1, <1>2, <1>3 DEF LoopInv, CallInv
<1>6. exit' = exit \/ exit' \notin {COVERED, REFERENT_UNAUTHORED}
  BY <1>1 DEF MEASUREMENT_INVALID, COVERED, REFERENT_UNAUTHORED
<1>7. Summary' /\ VerdictIsRight'
  BY <1>1, <1>2, <1>6 DEF PopulationInv, Summary, VerdictIsRight, Vouched
<1> QED BY <1>4, <1>5, <1>7 DEF PopulationInv

LEMMA ReadTaskInv == ASSUME PopulationInv, ReadTask PROVE PopulationInv'
<1>1. /\ TypeOK /\ LoopInv /\ CallInv /\ pc = "tasks" /\ left > 0
      /\ UNCHANGED <<defined, rules, surface, covered, accepted>>
      /\ surface = Reach({Verify}) \ {Verify}
  BY DEF PopulationInv, ReadTask, makefile, CallInv
<1>2. \A from : Reach(from)' = Reach(from)
  BY <1>1 DEF Reach, Closed
<1>3. exit' = exit \/ exit' \notin {COVERED, REFERENT_UNAUTHORED}
  BY DEF ReadTask, SkipsTask, Malformed, CallsClosure, Ends,
         MEASUREMENT_INVALID, COVERED, REFERENT_UNAUTHORED
<1>4. Summary' /\ VerdictIsRight'
  BY <1>1, <1>2, <1>3 DEF PopulationInv, Summary, VerdictIsRight, Vouched
<1>5. left - 1 \in 0..MaxTasks
  BY <1>1, TargetsAssumption DEF TypeOK
<1>6. CASE SkipsTask
  <2>1. TypeOK'
    BY <1>1, <1>5, <1>6 DEF TypeOK, SkipsTask
  <2>2. LoopInv' /\ CallInv'
    BY <1>1, <1>2, <1>6 DEF SkipsTask, LoopInv, CallInv
  <2> QED BY <1>4, <2>1, <2>2 DEF PopulationInv
<1>7. CASE Malformed
  <2>1. TypeOK'
    BY <1>1, <1>7 DEF TypeOK, Malformed, Ends
  <2>2. LoopInv' /\ CallInv'
    BY <1>1, <1>2, <1>7 DEF Malformed, Ends, LoopInv, CallInv
  <2> QED BY <1>4, <2>1, <2>2 DEF PopulationInv
<1>8. ASSUME NEW t \in TaskFiles, CallsClosure(t) PROVE PopulationInv'
  <2>1. t.words \in SUBSET Targets /\ t # NoTask
    BY DEF TaskFiles, NoTask, Task
  <2>2. /\ task' = t /\ pc' = "closure" /\ goal' = t.words /\ seen' = {}
        /\ pending' = AsBag(t.words) /\ left' = left - 1 /\ exit' = exit
    BY <1>8 DEF CallsClosure
  <2>3. pending' \in [Targets -> Nat] /\ Pending' = t.words
    BY <2>1, <2>2, AsBagType DEF Pending
  <2>4. TypeOK'
    BY <1>1, <1>5, <2>1, <2>2, <2>3 DEF TypeOK
  <2>5. LoopInv'
    BY <1>2, <2>1, <2>2, <2>3, ReachGoal DEF LoopInv
  <2>6. CallInv'
    BY <1>1, <1>2, <2>1, <2>2 DEF CallInv, NoTask
  <2> QED BY <1>4, <2>4, <2>5, <2>6 DEF PopulationInv
<1> QED BY <1>6, <1>7, <1>8 DEF ReadTask

LEMMA ClaimsInv == ASSUME PopulationInv, Claims PROVE PopulationInv'
<1>1. /\ TypeOK /\ LoopInv /\ CallInv /\ Summary /\ VerdictIsRight /\ pc = "claims"
      /\ UNCHANGED <<defined, rules, goal, seen, pending, surface, left, task>>
      /\ pc' \in {"tasks", "done"}
      /\ pc' # "done" => exit' = exit
  BY DEF PopulationInv, Claims, makefile, Ends
<1>2. \A from : Reach(from)' = Reach(from)
  BY <1>1 DEF Reach, Closed
<1>3. /\ seen = Reach(task.words) /\ task \in TaskFiles
      /\ surface = Reach({Verify}) \ {Verify}
  BY <1>1, ClosureDone DEF LoopInv, CallInv, TypeOK
<1>4. LoopInv' /\ CallInv'
  BY <1>1, <1>2, <1>3 DEF LoopInv, CallInv
<1>5. CASE /\ task.claims \subseteq surface \cap seen
           /\ covered' = covered \cup task.claims
           /\ accepted' = accepted \cup {task}
           /\ pc' = "tasks" /\ UNCHANGED exit
  <2>1. TypeOK'
    BY <1>1, <1>3, <1>5 DEF TypeOK, TaskFiles
  <2>2. Summary'
    BY <1>1, <1>2, <1>3, <1>5 DEF Summary
  <2>3. exit' \notin {COVERED, REFERENT_UNAUTHORED}
    BY <1>1, <1>5 DEF CallInv, NoExit, COVERED, REFERENT_UNAUTHORED
  <2>4. VerdictIsRight'
    BY <2>2, <2>3 DEF Summary, VerdictIsRight
  <2> QED BY <1>4, <2>1, <2>2, <2>4 DEF PopulationInv
<1>6. CASE Ends(MEASUREMENT_INVALID) /\ UNCHANGED <<covered, accepted>>
  <2>1. TypeOK'
    BY <1>1, <1>6 DEF TypeOK, Ends
  <2>2. exit' \notin {COVERED, REFERENT_UNAUTHORED}
    BY <1>6 DEF Ends, MEASUREMENT_INVALID, COVERED, REFERENT_UNAUTHORED
  <2>3. Summary' /\ VerdictIsRight'
    BY <1>1, <1>2, <1>6, <2>2 DEF Summary, VerdictIsRight, Vouched
  <2> QED BY <1>4, <2>1, <2>3 DEF PopulationInv
<1> QED BY <1>5, <1>6 DEF Claims, Reached

LEMMA ReportInv == ASSUME PopulationInv, Report PROVE PopulationInv'
<1>1. /\ TypeOK /\ LoopInv /\ CallInv /\ Summary /\ pc = "tasks"
      /\ UNCHANGED <<defined, rules, goal, seen, pending, surface, covered, left, task,
                     accepted>>
      /\ pc' = "done"
      /\ exit' = IF surface \subseteq covered THEN COVERED ELSE REFERENT_UNAUTHORED
      /\ surface = Reach({Verify}) \ {Verify}
  BY DEF PopulationInv, Report, makefile, Ends, CallInv
<1>2. \A from : Reach(from)' = Reach(from)
  BY <1>1 DEF Reach, Closed
<1>3. TypeOK'
  BY <1>1 DEF TypeOK
<1>4. LoopInv' /\ CallInv' /\ Summary'
  BY <1>1, <1>2 DEF LoopInv, CallInv, Summary
<1>5. \A t : t \in covered => Vouched(t)
  BY <1>1 DEF Summary, Vouched
<1>6. \A t : Vouched(t) => t \in covered
  BY <1>1 DEF Summary, Vouched
<1>7. VerdictIsRight'
  <2>1. COVERED # REFERENT_UNAUTHORED
    BY DEF COVERED, REFERENT_UNAUTHORED
  <2>2. \A t : Vouched(t)' <=> Vouched(t)
    BY <1>1, <1>2 DEF Vouched
  <2> QED BY <1>1, <1>2, <1>5, <1>6, <2>1, <2>2 DEF VerdictIsRight, Summary
<1> QED BY <1>3, <1>4, <1>7 DEF PopulationInv

LEMMA NextPopulation == ASSUME PopulationInv, [Next]_vars PROVE PopulationInv'
<1>1. CASE UNCHANGED vars
  <2>1. UNCHANGED <<defined, rules>> /\ Pending' = Pending
    BY <1>1 DEF vars, Pending
  <2>2. \A from : Reach(from)' = Reach(from)
    BY <2>1 DEF Reach, Closed
  <2> QED BY <1>1, <2>1, <2>2
       DEF vars, PopulationInv, TypeOK, LoopInv, CallInv, Summary, VerdictIsRight, Vouched
<1> QED BY <1>1, PopInv, ReturnInv, SurfaceInv, ReadTaskInv, ClaimsInv, ReportInv
        DEF Next

\* The inductive invariant: the loop invariant of closure, and what check has
\* made of the calls before.
LEMMA PopulationInvariance == Init /\ [][Next]_vars => []PopulationInv
BY InitPopulation, NextPopulation, PTL

\* Type correctness, for any Makefile and any task files.
THEOREM TypeCorrect == Spec => []TypeOK
BY PopulationInvariance, PTL DEF Spec, PopulationInv

\* closure (lines 29-40) returns what make would visit, in whatever order its
\* list is worked through.
THEOREM ClosureCorrect == Spec => []ClosureIsReach
<1>1. PopulationInv => ClosureIsReach
  BY ClosureDone DEF PopulationInv, LoopInv, ClosureIsReach
<1> QED BY <1>1, PopulationInvariance, PTL DEF Spec

\* The exit codes of main (lines 75-85) tell the truth about coverage.
THEOREM VerdictCorrect == Spec => []VerdictIsRight
BY PopulationInvariance, PTL DEF Spec, PopulationInv

-----------------------------------------------------------------------------
(* check_population: the refinement. *)

\* What the two modules call reachable is the same.
LEMMA SameReach == ASSUME TypeOK PROVE S!Reach = Reach(goal)
<1>1. \A T \in SUBSET Targets : S!Closed(T) <=> Closed(T)
  BY DEF S!Closed, Closed
<1> QED BY <1>1 DEF S!Reach, Reach

\* Between two calls the list is empty.
BetweenCalls == pc = "tasks" => Pending = {}

LEMMA BetweenCallsStep ==
  ASSUME PopulationInv, BetweenCalls, [Next]_vars PROVE BetweenCalls'
<1>1. pc \in {"surface", "claims"} => Pending = {}
  BY DEF PopulationInv, LoopInv
<1>2. CASE pending' = pending /\ (pc' # "tasks" \/ pc \in {"surface", "claims", "tasks"})
  BY <1>1, <1>2 DEF BetweenCalls, Pending
<1>3. CASE Pop
  BY <1>3 DEF Pop, Revisit, Undefined, Expand, Ends, BetweenCalls
<1>4. CASE Return
  BY <1>2, <1>4 DEF Return
<1>5. CASE Surface \/ Claims \/ Report
  BY <1>2, <1>5 DEF Surface, Claims, Report
<1>6. CASE ReadTask
  <2>1. CASE \E t \in TaskFiles : CallsClosure(t)
    BY <2>1 DEF CallsClosure, BetweenCalls
  <2>2. CASE SkipsTask \/ Malformed
    BY <1>2, <1>6, <2>2 DEF ReadTask, SkipsTask, Malformed
  <2> QED BY <1>6, <2>1, <2>2 DEF ReadTask
<1>7. CASE UNCHANGED vars
  BY <1>2, <1>7 DEF vars, BetweenCalls, Pending
<1> QED BY <1>3, <1>4, <1>5, <1>6, <1>7 DEF Next

\* A step that leaves the call of closure alone is a stutter of the search.
LEMMA SearchStutters ==
  ASSUME UNCHANGED <<defined, rules, goal, seen, pending>>,
         (pc = "closure") = (pc' = "closure")
  PROVE  UNCHANGED S!vars
<1>1. Pending' = Pending
  BY DEF Pending
<1> QED BY <1>1 DEF S!vars, S!question

LEMMA PopSearches == ASSUME PopulationInv, Pop PROVE [S!Next]_(S!vars)
<1>1. /\ TypeOK /\ LoopInv /\ pc = "closure" /\ UNCHANGED <<defined, rules, goal>>
      /\ S!Reach = Reach(goal)
  BY SameReach DEF PopulationInv, Pop, makefile
<1>2. PICK t \in Pending : Revisit(t) \/ Undefined(t) \/ Expand(t)
  BY DEF Pop
<1>3. t \in Targets /\ t \in Reach(goal) /\ seen \subseteq Reach(goal)
  BY <1>1 DEF LoopInv, Pending
<1>4. CASE Revisit(t)
  BY <1>1, <1>4 DEF Revisit, S!vars, S!question
<1>5. CASE Undefined(t)
  <2>1. t \in Pending' /\ pc' = "done" /\ seen' = seen /\ t \notin defined
    BY <1>3, <1>5 DEF Undefined, Ends, Pending
  <2>2. S!Fail
    BY <1>1, <1>3, <2>1 DEF S!Fail, S!question
  <2> QED BY <2>2 DEF S!Next
<1>6. CASE Expand(t)
  <2>1. S!Grow
    <3>1. seen' = seen \cup {t} /\ pc' = pc
      BY <1>6 DEF Expand
    <3>2. seen' \in SUBSET S!Reach /\ seen \subseteq seen'
      BY <1>1, <1>3, <3>1
    <3> QED BY <1>1, <3>1, <3>2 DEF S!Grow, S!question
  <2> QED BY <2>1 DEF S!Next
<1> QED BY <1>2, <1>4, <1>5, <1>6

LEMMA ReturnSearches == ASSUME PopulationInv, Return PROVE [S!Next]_(S!vars)
<1>1. /\ TypeOK /\ LoopInv /\ pc = "closure" /\ Pending = {}
      /\ UNCHANGED <<defined, rules, goal, seen, pending>> /\ pc' # "closure"
  BY DEF PopulationInv, Return, makefile
<1>2. seen = S!Reach /\ seen \subseteq defined /\ Pending' = {}
  BY <1>1, ClosureDone, SameReach DEF LoopInv, Pending
<1>3. S!Finish
  BY <1>1, <1>2 DEF S!Finish, S!question
<1> QED BY <1>3 DEF S!Next

LEMMA ReadTaskSearches ==
  ASSUME PopulationInv, BetweenCalls, ReadTask PROVE [S!Next]_(S!vars)
<1>1. pc = "tasks" /\ Pending = {} /\ UNCHANGED <<defined, rules>>
  BY DEF ReadTask, BetweenCalls, makefile
<1>2. CASE SkipsTask \/ Malformed
  <2>1. UNCHANGED <<defined, rules, goal, seen, pending>> /\ pc' \in {"tasks", "done"}
    BY <1>1, <1>2 DEF SkipsTask, Malformed, Ends
  <2> QED BY <1>1, <2>1, SearchStutters
<1>3. ASSUME NEW t \in TaskFiles, CallsClosure(t) PROVE S!Ask
  <2>1. t.words \in SUBSET Targets
    BY DEF TaskFiles
  <2>2. pc' = "closure" /\ goal' = t.words /\ seen' = {}
    BY <1>3 DEF CallsClosure
  <2> QED BY <1>1, <2>1, <2>2 DEF S!Ask
<1> QED BY <1>2, <1>3 DEF ReadTask, S!Next

\* Every call of closure is a search in the sense of module Search: it grows
\* within what can be reached, and ends at all of it or at a missing rule.
LEMMA PopulationSearches == Init /\ [][Next]_vars => Searches
<1>1. Init => S!Init /\ BetweenCalls
  <2> SUFFICES ASSUME Init PROVE S!Init /\ BetweenCalls
    OBVIOUS
  <2>1. goal \in SUBSET Targets /\ rules \in [Targets -> SUBSET Targets] /\ seen = {}
        /\ pc = "closure"
    BY TargetsAssumption DEF Init
  <2> QED BY <2>1 DEF S!Init, BetweenCalls
<1>2. ASSUME PopulationInv, BetweenCalls, [Next]_vars PROVE [S!Next]_(S!vars)
  <2>1. CASE Surface \/ Claims \/ Report
    <3>1. UNCHANGED <<defined, rules, goal, seen, pending>>
          /\ pc # "closure" /\ pc' # "closure"
      BY <2>1 DEF Surface, Claims, Report, Ends, makefile
    <3> QED BY <3>1, SearchStutters
  <2>2. CASE UNCHANGED vars
    BY <2>2, SearchStutters DEF vars
  <2> QED BY <1>2, <2>1, <2>2, PopSearches, ReturnSearches, ReadTaskSearches DEF Next
<1> QED BY <1>1, <1>2, BetweenCallsStep, PopulationInvariance, PTL DEF Searches, S!Spec

\* check_population by itself: closure (lines 29-40) implements the search.
THEOREM ImplementsSearch == Spec => Searches
BY PopulationSearches, PTL DEF Spec

-----------------------------------------------------------------------------
(* drill_ci_coverage. *)

\* What has been worked off has its prerequisites among the referenced, and
\* nothing is referenced that cannot be reached.
WorkList ==
  /\ stage # "read" /\ readable => named \subseteq referenced
  /\ stage = "read" => referenced = {}
  /\ stage \in {"expand", "compare"} => readable
  /\ work \subseteq referenced
  /\ \A t \in referenced \ work : dependencies[t] \subseteq referenced
  /\ referenced \subseteq C!S!Reach
  /\ stage # "expand" => work = {}

CoverageInv == C!TypeOK /\ WorkList /\ C!VerdictIsRight

LEMMA ReachStep ==
  ASSUME C!TypeOK, NEW t \in C!S!Reach PROVE dependencies[t] \subseteq C!S!Reach
<1>1. t \in Targets /\ dependencies[t] \subseteq Targets
  BY DEF C!TypeOK, C!S!Reach
<1> QED BY <1>1 DEF C!S!Reach, C!S!Closed

\* At the end of the loop what is referenced is closed, hence all there is.
LEMMA LoopDone ==
  ASSUME C!TypeOK, WorkList, work = {}, readable, stage # "read"
  PROVE  referenced = C!S!Reach
<1>1. named \subseteq referenced /\ referenced \in SUBSET Targets
  BY DEF C!TypeOK, WorkList
<1>2. C!S!Closed(referenced)
  BY <1>1 DEF WorkList, C!S!Closed
<1>3. C!S!Reach \subseteq referenced
  BY <1>1, <1>2 DEF C!S!Reach
<1> QED BY <1>3 DEF WorkList

LEMMA InitCoverage == C!Init => CoverageInv /\ C!S!Init
<1> SUFFICES ASSUME C!Init PROVE CoverageInv /\ C!S!Init
  OBVIOUS
<1>1. C!TypeOK
  BY DEF C!Init, C!Begins, C!TypeOK, C!NoVerdict
<1>3. WorkList
  BY DEF C!Init, C!Begins, WorkList
<1>4. C!VerdictIsRight
  BY DEF C!Init, C!Begins, C!VerdictIsRight
<1>5. C!S!Init
  BY <1>1 DEF C!S!Init, C!TypeOK, C!Init, C!Begins
<1> QED BY <1>1, <1>3, <1>4, <1>5 DEF CoverageInv

\* The question stays the same all through.
LEMMA SameQuestion ==
  ASSUME [C!Next]_(C!vars) PROVE UNCHANGED C!files /\ C!S!Reach' = C!S!Reach
<1>1. UNCHANGED C!files
  BY DEF C!Next, C!Read, C!Raises, C!Expand, C!Expanded, C!Compare, C!vars
<1>2. UNCHANGED <<named, dependencies>>
  BY <1>1 DEF C!files
<1> QED BY <1>1, <1>2 DEF C!S!Reach, C!S!Closed

LEMMA ReadSearches == ASSUME CoverageInv, C!Read PROVE CoverageInv' /\ C!S!Grow
<1>1. /\ C!TypeOK /\ WorkList /\ C!S!Reach' = C!S!Reach
      /\ stage = "read" /\ stage' = "expand" /\ readable
      /\ referenced' = named /\ work' = named
      /\ UNCHANGED <<readable, named, dependencies, phony, verdict>>
  BY SameQuestion DEF CoverageInv, C!Read, C!Next, C!files
<1>2. named \subseteq C!S!Reach /\ named \subseteq Targets
  BY <1>1 DEF C!S!Reach, C!TypeOK
<1>3. C!TypeOK'
  BY <1>1, <1>2 DEF C!TypeOK
<1>4. WorkList' /\ C!VerdictIsRight'
  BY <1>1, <1>2 DEF WorkList, C!VerdictIsRight
<1>5. referenced' \in SUBSET C!S!Reach /\ referenced \subseteq referenced'
  BY <1>1, <1>2 DEF WorkList
<1>6. C!S!Grow
  BY <1>1, <1>5 DEF C!S!Grow, C!S!question
<1> QED BY <1>3, <1>4, <1>6 DEF CoverageInv

LEMMA RaisesDecides ==
  ASSUME CoverageInv, C!Raises PROVE CoverageInv' /\ UNCHANGED C!S!vars
<1>1. /\ C!TypeOK /\ WorkList /\ stage = "read" /\ stage' = "over"
      /\ ~readable /\ verdict' = 1
      /\ C!S!Reach' = C!S!Reach
      /\ UNCHANGED <<readable, named, dependencies, phony, referenced, work>>
  BY SameQuestion DEF CoverageInv, C!Raises, C!Next, C!files
<1>2. C!TypeOK' /\ C!VerdictIsRight'
  BY <1>1 DEF C!TypeOK, C!VerdictIsRight
<1>3. work = {}
  BY <1>1 DEF WorkList
<1>4. WorkList'
  BY <1>1, <1>3 DEF WorkList
<1> QED BY <1>1, <1>2, <1>4 DEF CoverageInv, C!S!vars, C!S!question

LEMMA ExpandSearches == ASSUME CoverageInv, C!Expand PROVE CoverageInv' /\ C!S!Grow
<1>1. /\ C!TypeOK /\ WorkList /\ C!S!Reach' = C!S!Reach
      /\ stage = "expand" /\ UNCHANGED <<readable, phony, named, dependencies, stage, verdict>>
  BY SameQuestion DEF CoverageInv, C!Expand, C!Next, C!files
<1>2. PICK t \in work : /\ referenced' = referenced \cup C!Children(t)
                        /\ work' = (work \ {t}) \cup C!Children(t)
  BY DEF C!Expand
<1>3. t \in Targets /\ t \in referenced /\ C!Children(t) \subseteq dependencies[t]
      /\ dependencies[t] \subseteq referenced \cup C!Children(t)
  BY <1>1, <1>2 DEF WorkList, C!TypeOK, C!Children
<1>4. dependencies[t] \subseteq C!S!Reach /\ dependencies[t] \subseteq Targets
  BY <1>1, <1>3, ReachStep DEF WorkList, C!TypeOK
<1>5. C!TypeOK'
  BY <1>1, <1>2, <1>3, <1>4 DEF C!TypeOK
<1>6. WorkList'
  BY <1>1, <1>2, <1>3, <1>4 DEF WorkList
<1>7. C!VerdictIsRight'
  BY <1>1 DEF C!VerdictIsRight
<1>8. referenced' \in SUBSET C!S!Reach /\ referenced \subseteq referenced'
  BY <1>1, <1>2, <1>3, <1>4 DEF WorkList
<1>9. C!S!Grow
  BY <1>1, <1>8 DEF C!S!Grow, C!S!question
<1> QED BY <1>5, <1>6, <1>7, <1>9 DEF CoverageInv

LEMMA ExpandedSearches == ASSUME CoverageInv, C!Expanded PROVE CoverageInv' /\ C!S!Finish
<1>1. /\ C!TypeOK /\ WorkList /\ C!S!Reach' = C!S!Reach
      /\ stage = "expand" /\ work = {} /\ stage' = "compare"
      /\ UNCHANGED <<readable, phony, named, dependencies, referenced, work, verdict>>
  BY SameQuestion DEF CoverageInv, C!Expanded, C!Next, C!files
<1>2. CoverageInv'
  BY <1>1 DEF CoverageInv, C!TypeOK, WorkList, C!VerdictIsRight
<1>3. readable /\ readable' /\ referenced = C!S!Reach
  BY <1>1, LoopDone DEF WorkList
<1>4. C!S!Finish
  BY <1>1, <1>3 DEF C!S!Finish, C!S!question
<1> QED BY <1>2, <1>4

LEMMA CompareDecides ==
  ASSUME CoverageInv, C!Compare PROVE CoverageInv' /\ UNCHANGED C!S!vars
<1>1. /\ C!TypeOK /\ WorkList /\ C!S!Reach' = C!S!Reach
      /\ stage = "compare" /\ stage' = "over"
      /\ phony' \in SUBSET Targets
      /\ verdict' = IF C!Missing(phony') = {} THEN 0 ELSE 1
      /\ UNCHANGED <<readable, named, dependencies, referenced, work>>
  BY SameQuestion DEF CoverageInv, C!Compare, C!Next, C!files
<1>2. referenced = C!S!Reach /\ readable
  BY <1>1, LoopDone DEF WorkList
<1>3. C!Missing(phony') = {} <=> Required \subseteq phony' \cap C!S!Reach
  BY <1>2 DEF C!Missing
<1>4. C!VerdictIsRight'
  BY <1>1, <1>2, <1>3 DEF C!VerdictIsRight
<1>5. C!TypeOK' /\ WorkList'
  BY <1>1 DEF C!TypeOK, WorkList
<1> QED BY <1>1, <1>4, <1>5 DEF CoverageInv, C!S!vars, C!S!question

LEMMA NextCoverage ==
  ASSUME CoverageInv, [C!Next]_(C!vars) PROVE CoverageInv' /\ [C!S!Next]_(C!S!vars)
<1>1. CASE UNCHANGED C!vars
  BY <1>1, SameQuestion DEF C!vars, C!files, CoverageInv, C!TypeOK, WorkList,
       C!VerdictIsRight, C!S!vars, C!S!question
<1> QED BY <1>1, ReadSearches, RaisesDecides, ExpandSearches, ExpandedSearches,
        CompareDecides DEF C!Next, C!S!Next

\* The inductive invariant: the state of the work list, and the verdict.
LEMMA CoverageInvariance == C!Init /\ [][C!Next]_(C!vars) => []CoverageInv
BY InitCoverage, NextCoverage, PTL

\* expand_prerequisites (lines 129-145) finds what the named targets reach.
LEMMA CoverageSearches == C!Init /\ [][C!Next]_(C!vars) => C!Searches
BY InitCoverage, NextCoverage, CoverageInvariance, PTL DEF C!Searches, C!S!Spec

\* drill_ci_coverage by itself: its loop (lines 129-145) implements the search, and
\* the exit code of main (lines 148-201) tells the truth about the Makefile and
\* the workflows, those it cannot read included.
THEOREM CoverageAlone == C!Spec => []C!VerdictIsRight /\ C!Searches
BY CoverageInvariance, CoverageSearches, PTL DEF C!Spec, CoverageInv

\* The drill keeps the last rule of a target, check_population and make take all
\* of them, and a rule more can only add to what is reached: what the drill takes
\* for covered by the targets CI names, closure reaches from them as well.
THEOREM NeverOverclaims ==
  ASSUME TypeOK, C!TypeOK,
         \A t \in Targets : dependencies[t] \subseteq rules[t],
         \A t \in Targets \ defined : dependencies[t] = {}
  PROVE  C!S!Reach \subseteq Reach(named)
<1>1. ASSUME NEW T \in SUBSET Targets, Closed(T)
      PROVE  C!S!Closed(T)
  BY <1>1 DEF Closed, C!S!Closed
<1> QED BY <1>1 DEF C!S!Reach, Reach

-----------------------------------------------------------------------------
(* The drill of the deny catalogue. *)

\* Which of the two files a step of main has read, once the drill is past it.
LoadRead    == IF edited \in {"never", "load"} THEN golden ELSE before
CompileRead == IF edited \in {"never", "load", "parity", "additive", "compile"}
               THEN golden ELSE before
FireRead    == IF edited = "report" THEN before ELSE golden

\* What main knows as long as it has noted no error, and that an error it has
\* noted is one of the catalogue if nobody has edited that.
FoundSound ==
  /\ drill \in {"parity", "additive", "compile", "fire", "report"} =>
       LoadRead.loads /\ catalog = LoadRead.rules
  /\ drill \in {"additive", "compile", "fire", "report"} => errors \/ edited # "parity"
  /\ drill \in {"fire", "report"} => errors \/ D!Compiles(CompileRead)
  /\ drill = "report" => errors \/ (FireRead.loads /\ D!Fires(FireRead))
  /\ drill = "parity" => ~errors
FoundErrors ==
  /\ drill # "over" /\ edited = "never" /\ errors => ~D!Sound(golden)
  /\ drill # "over" => status = D!NoStatus
  /\ drill = "load" => ~errors
\* An edit is made before a step that is still to come.
EditOrder ==
  /\ edited = "never" => before = golden
  /\ edited # "never" => before # golden
  /\ drill = "load" => edited \in {"never", "load"}
  /\ drill = "parity" => edited \in {"never", "load", "parity"}
  /\ drill = "additive" => edited \in {"never", "load", "parity", "additive"}
  /\ drill = "compile" => edited \in {"never", "load", "parity", "additive", "compile"}
  /\ drill = "fire" => edited # "report"
  /\ edited # "over"

CatalogInv == D!TypeOK /\ EditOrder /\ FoundSound /\ FoundErrors /\ D!VerdictIsRight

\* Every category fires: the two ways in which drill and property say it.
LEMMA FiresIsGuarded ==
  ASSUME NEW c \in D!Files PROVE D!Fires(c) <=> D!Guarded(c)
<1>1. \A r \in c.rules : r.category \in Categories
  BY DEF D!Files, D!Rules
<1>2. ASSUME D!Fires(c) PROVE D!Guarded(c)
  BY <1>1, <1>2 DEF D!Fires, D!OfCategory, D!Guarded
<1>3. ASSUME D!Guarded(c), NEW k \in Categories
      PROVE  \E r \in D!OfCategory(c, k) : r.pattern = "fires"
  BY <1>3 DEF D!Guarded, D!OfCategory
<1> QED BY <1>2, <1>3 DEF D!Fires

\* Two files of which both load differ in their rules.
LEMMA FilesDiffer ==
  ASSUME NEW b \in D!Files, NEW c \in D!Files, b # c, b.loads, c.loads
  PROVE  b.rules # c.rules
<1>1. /\ b \in [loads : {TRUE}, rules : SUBSET D!Rules]
      /\ c \in [loads : {TRUE}, rules : SUBSET D!Rules]
  BY DEF D!Files
<1>2. b = [loads |-> TRUE, rules |-> b.rules] /\ c = [loads |-> TRUE, rules |-> c.rules]
  BY <1>1
<1> QED BY <1>2

\* The additive check finds nothing: every rule of the baseline is refused.
LEMMA AdditiveFindsNothing ==
  ~(\E r \in golden.rules : ~D!Refuses(golden.rules, {r}))
BY DEF D!Refuses

LEMMA InitCatalog == D!Init => CatalogInv
BY DEF D!Init, D!Begins, CatalogInv, D!TypeOK, D!Files, D!Steps, EditOrder, FoundSound,
       FoundErrors, D!VerdictIsRight, D!NoStatus

LEMMA EditCatalog == ASSUME CatalogInv, D!Edit PROVE CatalogInv'
<1>1. /\ D!TypeOK /\ edited = "never" /\ drill # "over" /\ before = golden
      /\ golden' \in D!Files /\ golden' # golden /\ edited' = drill
      /\ UNCHANGED <<before, drill, catalog, errors, status>>
  BY DEF D!Edit, CatalogInv, EditOrder
<1>2. D!TypeOK'
  BY <1>1 DEF D!TypeOK
<1>3. EditOrder'
  BY <1>1 DEF EditOrder, D!TypeOK, D!Steps
<1>4. FoundSound'
  <2>1. drill # "load" => LoadRead' = LoadRead
    BY <1>1 DEF LoadRead, D!TypeOK, D!Steps
  <2>2. drill \in {"fire", "report"} => CompileRead' = CompileRead
    BY <1>1 DEF CompileRead
  <2>3. drill = "report" => FireRead' = FireRead
    BY <1>1 DEF FireRead
  <2> QED BY <1>1, <2>1, <2>2, <2>3
       DEF CatalogInv, FoundSound, D!Compiles, D!Fires, D!OfCategory
<1>5. FoundErrors' /\ D!VerdictIsRight'
  BY <1>1 DEF CatalogInv, FoundErrors, D!VerdictIsRight, D!TypeOK, D!Steps, D!NoStatus
<1> QED BY <1>2, <1>3, <1>4, <1>5 DEF CatalogInv

\* The drill ends in an exception: status 1.
LEMMA RaisesCatalog ==
  ASSUME CatalogInv, D!file' = D!file, NEW n \in D!Steps, D!Raises(n), n # "over",
         edited = "never" => ~D!Sound(golden)
  PROVE  CatalogInv'
<1>1. /\ D!TypeOK /\ UNCHANGED <<golden, before, edited, catalog, errors>>
      /\ drill' = "over" /\ status' = 1 /\ drill # "over"
  BY DEF D!Raises, CatalogInv, D!file
<1>2. D!TypeOK' /\ EditOrder' /\ FoundSound' /\ FoundErrors'
  BY <1>1 DEF D!TypeOK, D!Steps, CatalogInv, EditOrder, FoundSound, FoundErrors
<1>3. D!VerdictIsRight'
  BY <1>1 DEF D!VerdictIsRight, D!Sound, D!Compiles, D!Guarded
<1> QED BY <1>2, <1>3 DEF CatalogInv

LEMMA DrillCatalog == ASSUME CatalogInv, D!Drill PROVE CatalogInv'
<1>1. /\ D!TypeOK /\ EditOrder /\ FoundSound /\ FoundErrors
      /\ UNCHANGED <<golden, before, edited>>
  BY DEF CatalogInv, D!Drill, D!file
<1>2. UNCHANGED <<LoadRead, CompileRead, FireRead>>
  BY <1>1 DEF LoadRead, CompileRead, FireRead
<1>3. golden \in D!Files /\ before \in D!Files /\ errors \in BOOLEAN
  BY <1>1 DEF D!TypeOK
<1>4. CASE D!Unreadable
  <2>1. PICK n \in D!Steps \ {"report", "over"} : D!Raises(n)
    BY <1>4 DEF D!Unreadable
  <2>2. ~D!Sound(golden)
    BY <1>4 DEF D!Unreadable, D!Sound
  <2> QED BY <1>1, <2>1, <2>2, RaisesCatalog DEF D!file
<1>5. ASSUME UNCHANGED status, status = D!NoStatus, drill' # "over",
             D!TypeOK', EditOrder', FoundSound', drill' # "load",
             edited = "never" /\ errors' => ~D!Sound(golden)
      PROVE  CatalogInv'
  <2>1. FoundErrors'
    BY <1>1, <1>5 DEF FoundErrors, D!Sound, D!Compiles, D!Guarded
  <2>2. D!VerdictIsRight'
    BY <1>5 DEF D!VerdictIsRight
  <2> QED BY <1>5, <2>1, <2>2 DEF CatalogInv
<1>6. CASE D!Load
  <2>1. /\ golden.loads /\ drill = "load" /\ drill' = "parity"
        /\ errors' = FALSE /\ UNCHANGED status /\ catalog' = golden.rules
        /\ status = D!NoStatus
    BY <1>1, <1>3, <1>6 DEF D!Load, D!Finds, FoundErrors
  <2>2. D!TypeOK'
    BY <1>1, <2>1 DEF D!TypeOK, D!Files, D!Steps
  <2>3. EditOrder' /\ FoundSound'
    BY <1>1, <1>2, <2>1 DEF EditOrder, FoundSound, LoadRead
  <2> QED BY <1>5, <2>1, <2>2, <2>3
<1>7. CASE D!Parity
  <2>1. /\ golden.loads /\ drill = "parity" /\ drill' = "additive"
        /\ errors' = (catalog # golden.rules) /\ UNCHANGED <<status, catalog>>
        /\ status = D!NoStatus /\ LoadRead.loads /\ catalog = LoadRead.rules
    BY <1>1, <1>3, <1>7 DEF D!Parity, D!Finds, FoundErrors, FoundSound
  <2>2. D!TypeOK'
    BY <1>1, <2>1 DEF D!TypeOK, D!Steps
  <2>3. edited = "parity" => errors'
    BY <1>1, <1>3, <2>1, FilesDiffer DEF EditOrder, LoadRead
  <2>4. EditOrder' /\ FoundSound'
    BY <1>1, <1>2, <2>1, <2>3 DEF EditOrder, FoundSound
  <2>5. edited = "never" => ~errors'
    BY <2>1 DEF LoadRead
  <2> QED BY <1>5, <2>1, <2>2, <2>4, <2>5
<1>8. CASE D!Additive
  <2>1. /\ golden.loads /\ drill = "additive" /\ drill' = "compile"
        /\ errors' = errors /\ UNCHANGED <<status, catalog>>
        /\ status = D!NoStatus
    BY <1>1, <1>3, <1>8, AdditiveFindsNothing DEF D!Additive, D!Finds, FoundErrors
  <2>2. D!TypeOK'
    BY <1>1, <2>1 DEF D!TypeOK, D!Steps
  <2>3. EditOrder' /\ FoundSound'
    BY <1>1, <1>2, <2>1 DEF EditOrder, FoundSound
  <2>4. edited = "never" /\ errors' => ~D!Sound(golden)
    BY <1>1, <2>1 DEF FoundErrors
  <2> QED BY <1>5, <2>1, <2>2, <2>3, <2>4
<1>9. CASE D!Compile
  <2>1. /\ golden.loads /\ drill = "compile" /\ drill' = "fire"
        /\ errors' = (errors \/ ~D!Compiles(golden)) /\ UNCHANGED <<status, catalog>>
        /\ status = D!NoStatus
    BY <1>1, <1>9 DEF D!Compile, D!Finds, FoundErrors
  <2>2. D!TypeOK'
    BY <1>1, <2>1 DEF D!TypeOK, D!Steps
  <2>3. EditOrder' /\ FoundSound'
    <3>1. CompileRead' = golden
      BY <1>1, <2>1 DEF CompileRead, EditOrder
    <3> QED BY <1>1, <1>2, <2>1, <3>1 DEF EditOrder, FoundSound, D!Compiles
  <2>4. edited = "never" /\ errors' => ~D!Sound(golden)
    BY <1>1, <2>1 DEF FoundErrors, D!Sound
  <2> QED BY <1>5, <2>1, <2>2, <2>3, <2>4
<1>10. CASE D!Fire
  <2>1. CASE ~D!Compiles(golden) /\ D!Raises("fire")
    BY <1>1, <2>1, RaisesCatalog DEF D!Steps, D!Sound, D!file
  <2>2. CASE D!Finds("fire", "report", ~D!Fires(golden)) /\ UNCHANGED catalog
    <3>1. /\ golden.loads /\ drill = "fire" /\ drill' = "report"
          /\ errors' = (errors \/ ~D!Fires(golden)) /\ UNCHANGED <<status, catalog>>
          /\ status = D!NoStatus
      BY <1>1, <1>10, <2>2 DEF D!Fire, D!Finds, FoundErrors
    <3>2. D!TypeOK'
      BY <1>1, <3>1 DEF D!TypeOK, D!Steps
    <3>3. EditOrder' /\ FoundSound'
      <4>1. FireRead' = golden
        BY <1>1, <3>1 DEF FireRead, EditOrder
      <4> QED BY <1>1, <1>2, <3>1, <4>1
           DEF EditOrder, FoundSound, D!Compiles, D!Fires, D!OfCategory
    <3>4. edited = "never" /\ errors' => ~D!Sound(golden)
      BY <1>1, <1>3, <3>1, FiresIsGuarded DEF FoundErrors, D!Sound
    <3> QED BY <1>5, <3>1, <3>2, <3>3, <3>4
  <2> QED BY <1>10, <2>1, <2>2 DEF D!Fire
<1>11. CASE D!Report
  <2>1. /\ drill = "report" /\ drill' = "over" /\ status' = (IF errors THEN 1 ELSE 0)
        /\ UNCHANGED <<catalog, errors>>
    BY <1>11 DEF D!Report
  <2>2. D!TypeOK' /\ EditOrder' /\ FoundSound' /\ FoundErrors'
    BY <1>1, <2>1 DEF D!TypeOK, D!Steps, EditOrder, FoundSound, FoundErrors
  <2>3. ASSUME ~errors
        PROVE  /\ LoadRead.loads /\ edited # "parity" /\ D!Compiles(CompileRead)
               /\ FireRead.loads /\ D!Guarded(FireRead)
    <3>1. FireRead \in D!Files
      BY <1>3 DEF FireRead
    <3> QED BY <1>1, <2>1, <2>3, <3>1, FiresIsGuarded DEF FoundSound
  <2>4. ASSUME ~errors
        PROVE  \/ D!Sound(golden) /\ edited \in {"never", "load", "additive", "compile"}
               \/ D!Sound(before) /\ edited = "report"
               \/ D!Compiles(before) /\ D!Guarded(golden) /\ edited = "fire"
    <3>1. edited \in {"never", "load", "additive", "compile", "report", "fire"}
      BY <1>1, <2>3, <2>4 DEF D!TypeOK, D!Steps, EditOrder
    <3> QED BY <2>3, <2>4, <3>1 DEF LoadRead, CompileRead, FireRead, D!Sound
  <2>5. edited = "never" => (status' = 0 <=> D!Sound(golden))
    BY <1>1, <2>1, <2>4 DEF FoundErrors, EditOrder
  <2>6. /\ D!Sound(golden)' <=> D!Sound(golden)
        /\ D!Sound(before)' <=> D!Sound(before)
        /\ D!Compiles(before)' <=> D!Compiles(before)
        /\ D!Guarded(golden)' <=> D!Guarded(golden)
    BY <1>1 DEF D!Sound, D!Compiles, D!Guarded
  <2>7. D!VerdictIsRight'
    BY <1>1, <2>1, <2>4, <2>5, <2>6 DEF D!VerdictIsRight
  <2> QED BY <2>2, <2>7 DEF CatalogInv
<1> QED BY <1>4, <1>6, <1>7, <1>8, <1>9, <1>10, <1>11 DEF D!Drill

LEMMA NextCatalog == ASSUME CatalogInv, [D!Next]_(D!vars) PROVE CatalogInv'
<1>1. CASE UNCHANGED D!vars
  BY <1>1 DEF D!vars, CatalogInv, D!TypeOK, EditOrder, FoundSound, FoundErrors, LoadRead,
       CompileRead, FireRead, D!VerdictIsRight, D!Sound, D!Compiles, D!Guarded, D!Fires,
       D!OfCategory
<1> QED BY <1>1, EditCatalog, DrillCatalog DEF D!Next

-----------------------------------------------------------------------------
(* The falsifier of dead guards. *)

\* Which sources have been executed, by the step that comes next; what trust
\* that took; and what is known of the call of the reference.
Executions ==
  /\ at \in {"load", "shape", "custody", "reference"} => executed = {}
  /\ at = "variant" => executed = {"reference"}
  /\ at \in {"probe", "compare"} => executed = {"reference", "variant"}
  /\ at # "over" => outcome = "none"
Trust ==
  /\ at = "load" => trusted = "not asked"
  /\ trusted = "in it" => manifest = "names it" \/ withdrawn
  /\ at \in {"reference", "variant", "probe", "compare"} \/ executed # {} =>
       trusted \in {"first party", "in it"}
  /\ at \in {"shape", "custody"} => trusted # "not asked"
Probed ==
  at = "compare" =>
    /\ spec.reference.call # "raises"
    /\ fires = (spec.reference.call = "ValueError")

GuardInv == G!TypeOK /\ Executions /\ Trust /\ Probed /\ G!VerdictIsRight

LEMMA InitGuard == G!Init => GuardInv
BY DEF G!Init, G!Begins, GuardInv, G!TypeOK, G!Manifests, G!Steps, Executions, Trust,
       Probed, G!VerdictIsRight

\* A review changes the manifest alone; one that comes after the manifest was
\* loaded is what `withdrawn` says.
LEMMA ReviewGuard == ASSUME GuardInv, G!Review PROVE GuardInv'
<1>1. /\ G!TypeOK /\ at # "over" /\ ~withdrawn
      /\ manifest' \in G!Manifests /\ withdrawn' = (at # "load")
      /\ UNCHANGED <<spec, at, trusted, executed, fires, outcome>>
  BY DEF G!Review, GuardInv
<1>2. G!TypeOK' /\ Executions' /\ Probed'
  BY <1>1 DEF G!TypeOK, GuardInv, Executions, Probed
<1>3. at = "load" => trusted = trusted' /\ executed = {}
  BY <1>1 DEF GuardInv, Executions
<1> QED BY <1>1, <1>2, <1>3 
        DEF GuardInv, Trust, Executions, G!VerdictIsRight, G!Admitted, G!Separates

\* What a step of the falsifier that does not end it has to keep.
LEMMA GoesOnGuard ==
  ASSUME GuardInv, UNCHANGED <<spec, manifest, withdrawn, outcome>>,
         G!TypeOK', Executions', Trust', Probed', at' # "over"
  PROVE  GuardInv'
<1>1. outcome' = "none"
  BY DEF Executions
<1>2. executed' # {} => G!Admitted'
  BY DEF Trust, G!Admitted
<1>3. G!VerdictIsRight'
  BY <1>1, <1>2 DEF G!VerdictIsRight
<1> QED BY <1>3 DEF GuardInv

\* And one that ends it without a verdict on the guard.
LEMMA FailsGuard ==
  ASSUME GuardInv, UNCHANGED <<spec, manifest, withdrawn>>, G!TypeOK', Trust', at' = "over",
         outcome' \notin {"ok", "not ok"}, outcome' = "Untrusted" => executed' = {}
  PROVE  GuardInv'
<1>1. Executions' /\ Probed'
  BY DEF Executions, Probed
<1>2. executed' # {} => G!Admitted'
  BY DEF Trust, G!Admitted
<1>3. G!VerdictIsRight'
  BY <1>2 DEF G!VerdictIsRight
<1> QED BY <1>1, <1>3 DEF GuardInv

LEMMA LoadGuard == ASSUME GuardInv, G!Falsify, G!LoadTrusted \/ G!Shape PROVE GuardInv'
<1>1. /\ G!TypeOK /\ Executions /\ Trust /\ executed = {} /\ outcome = "none"
      /\ UNCHANGED <<spec, manifest, withdrawn, executed, fires>>
  BY DEF GuardInv, G!Falsify, Executions, G!LoadTrusted, G!Shape
<1>2. \/ at' = "over" /\ outcome' \in {"SpecError", "raised"}
      \/ /\ at' \in {"shape", "custody"} /\ UNCHANGED outcome
         /\ trusted' # "not asked"
  BY <1>1 DEF G!LoadTrusted, G!Shape, G!Ended, G!GoesOn, Trust
<1>3. G!TypeOK'
  BY <1>1, <1>2 DEF G!TypeOK, G!Steps, G!LoadTrusted, G!Shape
<1>4. Trust'
  BY <1>1, <1>2 DEF Trust, G!LoadTrusted, G!Shape
<1>5. at' # "over" => Executions' /\ Probed'
  BY <1>1, <1>2 DEF Executions, Probed
<1> QED BY <1>1, <1>2, <1>3, <1>4, <1>5, GoesOnGuard, FailsGuard

LEMMA CustodyGuard == ASSUME GuardInv, G!Falsify, G!Custody PROVE GuardInv'
<1>1. /\ G!TypeOK /\ Executions /\ Trust /\ at = "custody" /\ executed = {}
      /\ UNCHANGED <<spec, manifest, withdrawn, trusted, executed, fires>>
  BY DEF GuardInv, G!Falsify, Executions, G!Custody
<1>2. \/ at' = "over" /\ outcome' \in {"raised", "Untrusted"}
      \/ at' = "reference" /\ UNCHANGED outcome /\ trusted \in {"first party", "in it"}
  BY <1>1 DEF G!Custody, G!Ended, G!GoesOn, G!Refused, Trust, G!TypeOK
<1>3. G!TypeOK'
  BY <1>1, <1>2 DEF G!TypeOK, G!Steps
<1>4. Trust'
  BY <1>1, <1>2 DEF Trust
<1>5. at' # "over" => Executions' /\ Probed'
  BY <1>1, <1>2 DEF Executions, Probed
<1> QED BY <1>1, <1>2, <1>3, <1>4, <1>5, GoesOnGuard, FailsGuard

LEMMA CompileGuard == ASSUME GuardInv, G!Falsify, G!Compile PROVE GuardInv'
<1>1. /\ G!TypeOK /\ Executions /\ Trust
      /\ UNCHANGED <<spec, manifest, withdrawn, trusted, fires>>
  BY DEF GuardInv, G!Falsify, G!Compile, G!Compiles
<1>2. spec.reference.loads \in G!Loads /\ spec.variant.loads \in G!Loads
  BY <1>1 DEF G!TypeOK, G!Specs
<1>3. /\ \/ at = "reference" /\ executed' = {"reference"}
         \/ at = "variant" /\ executed' = {"reference", "variant"}
      /\ \/ at' = "over" /\ outcome' \in {"raised", "SpecError"}
         \/ /\ UNCHANGED outcome
            /\ \/ at = "reference" /\ at' = "variant"
               \/ at = "variant" /\ at' = "probe"
  BY <1>1, <1>2 DEF G!Compile, G!Compiles, G!Ended, G!GoesOn, G!Loads, Executions
<1>4. G!TypeOK'
  BY <1>1, <1>3 DEF G!TypeOK, G!Steps
<1>5. Trust'
  BY <1>1, <1>3 DEF Trust
<1>6. at' # "over" => Executions' /\ Probed'
  BY <1>1, <1>3 DEF Executions, Probed
<1> QED BY <1>1, <1>3, <1>4, <1>5, <1>6, GoesOnGuard, FailsGuard

LEMMA ProbeGuard == ASSUME GuardInv, G!Falsify, G!Probe PROVE GuardInv'
<1>1. /\ G!TypeOK /\ Executions /\ Trust /\ at = "probe"
      /\ UNCHANGED <<spec, manifest, withdrawn, trusted, executed>>
      /\ fires' = (spec.reference.call = "ValueError")
  BY DEF GuardInv, G!Falsify, G!Probe, G!Signals
<1>2. \/ at' = "over" /\ outcome' = "raised"
      \/ at' = "compare" /\ UNCHANGED outcome /\ spec.reference.call # "raises"
  BY DEF G!Probe, G!Ended, G!GoesOn, G!Escapes, G!Signals
<1>3. G!TypeOK'
  BY <1>1, <1>2 DEF G!TypeOK, G!Steps
<1>4. Trust'
  BY <1>1, <1>2 DEF Trust
<1>5. at' # "over" => Executions' /\ Probed'
  BY <1>1, <1>2 DEF Executions, Probed
<1> QED BY <1>1, <1>2, <1>3, <1>4, <1>5, GoesOnGuard, FailsGuard

LEMMA CompareGuard == ASSUME GuardInv, G!Falsify, G!Compare PROVE GuardInv'
<1>1. /\ G!TypeOK /\ Executions /\ Trust /\ Probed /\ at = "compare" /\ at' = "over"
      /\ UNCHANGED <<spec, manifest, withdrawn, trusted, executed, fires>>
  BY DEF GuardInv, G!Falsify, G!Compare, G!Ended
<1>2. CASE G!Escapes(G!VariantEnd) \/ spec.shape = "no pattern"
  <2>1. outcome' = "raised"
    BY <1>2 DEF G!Compare, G!Ended
  <2>2. G!TypeOK' /\ Trust'
    BY <1>1, <2>1 DEF G!TypeOK, G!Steps, Trust
  <2> QED BY <1>1, <2>1, <2>2, FailsGuard
<1>3. CASE ~G!Escapes(G!VariantEnd) /\ spec.shape # "no pattern"
  <2>1. outcome' = IF /\ fires /\ G!VariantEnd # "ValueError"
                      /\ spec.reference.marked /\ spec.variant.marked
                   THEN "ok" ELSE "not ok"
    BY <1>3 DEF G!Compare, G!Ended, G!Signals
  <2>2. G!TypeOK' /\ Trust' /\ Executions' /\ Probed'
    BY <1>1, <2>1 DEF G!TypeOK, G!Steps, Trust, Executions, Probed
  <2>3. ~spec.reference.changes =>
          (G!VariantEnd # "ValueError" <=> spec.variant.given = "returns")
    BY <1>1, <1>3 DEF G!VariantEnd, G!Escapes, G!Signals, G!TypeOK, G!Specs, G!Ends
  <2>4. ~spec.reference.changes => (outcome' = "ok" <=> G!Separates)
    BY <1>1, <2>1, <2>3 DEF Probed, G!Separates
  <2>5. executed' # {} => G!Admitted'
    BY <2>2 DEF Trust, G!Admitted
  <2>6. G!VerdictIsRight'
    BY <1>1, <2>1, <2>4, <2>5 DEF G!VerdictIsRight, G!Separates, Executions
  <2> QED BY <2>2, <2>6 DEF GuardInv
<1> QED BY <1>2, <1>3

LEMMA NextGuard == ASSUME GuardInv, [G!Next]_(G!vars) PROVE GuardInv'
<1>1. CASE UNCHANGED G!vars
  BY <1>1 DEF G!vars, GuardInv, G!TypeOK, Executions, Trust, Probed, G!VerdictIsRight,
       G!Admitted, G!Separates
<1> QED BY <1>1, ReviewGuard, LoadGuard, CustodyGuard, CompileGuard, ProbeGuard,
        CompareGuard
        DEF G!Next, G!Falsify

-----------------------------------------------------------------------------
(* The four programs together. *)

\* One of them starts as its module says, and the others too, on files that do
\* not matter; and a step of one leaves the others alone.
LEMMA GateStarts == GateInit => Init /\ C!Init /\ D!Init /\ G!Init
<1>1. PopulationWaits => Init
  BY TargetsAssumption DEF PopulationWaits, Init
<1>2. CoverageWaits => C!Init
  BY DEF CoverageWaits, C!Init
<1>3. DrillWaits => D!Init
  BY DEF DrillWaits, D!Init, D!Files
<1>4. GuardWaits => G!Init
  BY DEF GuardWaits, G!Init, G!Specs, G!Loads, G!Ends
<1> QED BY <1>1, <1>2, <1>3, <1>4 DEF GateInit

LEMMA GateSteps ==
  [GateNext]_gateVars =>
    [Next]_vars /\ [C!Next]_(C!vars) /\ [D!Next]_(D!vars) /\ [G!Next]_(G!vars)
BY DEF GateNext, gateVars, coverageVars, drillVars, guardVars, C!vars, C!files,
   D!vars, G!vars

LEMMA GatesInvariance ==
  GateSpec => []PopulationInv /\ []CoverageInv /\ []CatalogInv /\ []GuardInv
BY GateStarts, GateSteps, InitPopulation, NextPopulation, InitCoverage, NextCoverage,
   InitCatalog, NextCatalog, InitGuard, NextGuard, PTL DEF GateSpec

\* Type correctness of the four programs, on whatever files.
THEOREM GateTypesCorrect == GateSpec => []GateTypes
BY GatesInvariance, PTL
   DEF GateTypes, PopulationInv, CoverageInv, CatalogInv, GuardInv

\* check_population: the exit codes of main (lines 75-85) tell the truth.
THEOREM PopulationVerdictCorrect == GateSpec => []VerdictIsRight
BY GatesInvariance, PTL DEF PopulationInv

\* drill_ci_coverage: exit 0 of main (lines 148-201) says that CI reaches all
\* required targets, exit 1 that it does not or that a reading raised (lines
\* 106-126).
THEOREM CoverageVerdictCorrect == GateSpec => []CoverageVerdict
BY GatesInvariance, PTL DEF CoverageVerdict, CoverageInv

\* The drill of the deny catalogue: for any categories and rules, what a pass
\* says of the golden file, edited or not while the drill reads it five times.
THEOREM CatalogVerdictCorrect == GateSpec => []CatalogVerdict
BY GatesInvariance, PTL DEF CatalogVerdict, CatalogInv

\* The falsifier of dead guards: what its answers say of the guard, and that
\* nothing is executed of a spec that is not trusted (run_from_spec).
THEOREM GuardVerdictCorrect == GateSpec => []GuardVerdict
BY GatesInvariance, PTL DEF GuardVerdict, GuardInv

\* Both loops that read the Makefile implement the search.
THEOREM WorkListsCorrect == GateSpec => WorkListsSearch
BY GateStarts, GateSteps, PopulationSearches, CoverageSearches, PTL
   DEF GateSpec, WorkListsSearch
=============================================================================
