-------------------------- MODULE Adoption_proofs ---------------------------
(***************************************************************************)
(* Adoption never overwrites, explains its failures and means its success, *)
(* for any number of runs and files and any interleaving with the user.    *)
(***************************************************************************)
EXTENDS Adoption, TLAPS

RunTypes == [pc : Pcs, next : 1..N + 1, plan : SUBSET Files,
             made : SUBSET Files, outcome : Outcomes]

\* What a run has created bears its name, as long as it exists.
Created == \A f \in Files : files[f].by \in Runs => Exists(f)

\* A run under way has no outcome; before the second loop it has made nothing.
Phases(a) ==
  /\ run[a].pc # "idle" => run[a].outcome = "none"
  /\ run[a].pc \in {"plan", "check"} => run[a].made = {}
  /\ run[a].pc = "write" => run[a].next \in run[a].plan \cap run[a].made

\* Where the first loop has passed and the second has not, nothing is, unless
\* somebody else has put it there.
Clear(a, f) == files[f].kind = "absent" \/ f \in others[a]
Checked(a) ==
  \A f \in run[a].plan :
    /\ run[a].pc = "check" /\ f < run[a].next => Clear(a, f)
    /\ run[a].pc = "open" /\ run[a].next <= f => Clear(a, f)
    /\ run[a].pc = "write" /\ run[a].next < f => Clear(a, f)

\* A file left out of the plan was there, and only the user can remove it.
LeftOut(a) ==
  \A f \in Files \ run[a].plan :
    run[a].pc \in {"check", "open", "write"} \/ (run[a].pc = "plan" /\ f < run[a].next)
      => Exists(f) \/ f \in deleted[a]

\* A file of the plan that the second loop has passed was made; one that was
\* made is still there, and written unless the run is at it or has stopped.
Built(a) ==
  /\ \A f \in run[a].plan :
       run[a].pc \in {"open", "write"} /\ f < run[a].next => f \in run[a].made
  /\ \A f \in run[a].made \ deleted[a] :
       /\ files[f].by = a
       /\ files[f].kind = "empty" =>
            run[a].pc = "idle" \/ (run[a].pc = "write" /\ run[a].next = f)

Explained(a) ==
  /\ run[a].outcome \in {"invalid", "previewed", "stale"} => run[a].made = {}
  /\ run[a].outcome = "exists" => run[a].plan \cap others[a] # {}

RunInv(a) ==
  Phases(a) /\ Checked(a) /\ LeftOut(a) /\ Built(a) /\ Explained(a)

IInv ==
  /\ TypeOK
  /\ Created
  /\ \A a \in Runs : RunInv(a)
  /\ OneAuthor

LEMMA InitIInv == Init => IInv
<1> SUFFICES ASSUME Init PROVE IInv
  OBVIOUS
<1>1. TypeOK
  <2>1. run \in [Runs -> RunTypes]
    BY BoundsAssumption DEF Init, Idle, RunTypes, Pcs, Outcomes, Files
  <2> QED BY <2>1, BoundsAssumption DEF Init, TypeOK, File, Kinds, RunTypes
<1>2. Created
  BY RunsAssumption DEF Init, Created, File
<1>3. \A a \in Runs : RunInv(a)
  BY DEF Init, Idle, RunInv, Phases, Checked, LeftOut, Built, Explained
<1>4. OneAuthor
  BY DEF Init, Idle, OneAuthor
<1> QED BY <1>1, <1>2, <1>3, <1>4 DEF IInv

-----------------------------------------------------------------------------
(* What a run is left with when somebody else acts. *)

\* The user or another run touched f: it made the file, deleted it, or wrote
\* to a file that is there and that this run did not create or is not writing.
Touched(a, f) ==
  \/ files'[f] = files[f]
  \/ files[f].kind = "absent" /\ f \in others'[a]
  \/ f \in deleted'[a]
  \/ /\ Exists(f) /\ files'[f].kind \in {"text", "generated"}
     /\ files'[f].by = files[f].by

Elsewhere(a) ==
  /\ run'[a] = run[a]
  /\ others[a] \subseteq others'[a] /\ deleted[a] \subseteq deleted'[a]
  /\ \A f \in Files : Touched(a, f)

\* Absence of a file is explained by others or deleted: needed for Checked.
LEMMA ElsewhereInv ==
  ASSUME IInv, NEW a \in Runs, Elsewhere(a),
         \A f \in Files : files'[f].kind # "absent" =>
             files[f].kind # "absent" \/ f \in others'[a]
  PROVE  RunInv(a)'
<1> DEFINE s == run[a]
<1>1. run'[a] = s /\ s.plan \subseteq Files /\ s.made \subseteq Files /\ RunInv(a)
  BY DEF IInv, TypeOK, Elsewhere
<1>2. Phases(a)'
  BY <1>1 DEF RunInv, Phases
<1>3. \A f \in s.plan : Clear(a, f) => Clear(a, f)'
  BY <1>1 DEF Clear, Elsewhere
<1>4. Checked(a)'
  BY <1>1, <1>3 DEF RunInv, Checked
<1>5. \A f \in Files : Exists(f) \/ f \in deleted[a] => Exists(f)' \/ f \in deleted'[a]
  BY DEF Exists, Elsewhere, Touched
<1>6. LeftOut(a)'
  BY <1>1, <1>5 DEF RunInv, LeftOut
<1>7. \A f \in s.made \ deleted'[a] :
        /\ f \in s.made \ deleted[a]
        /\ files'[f].by = files[f].by
        /\ files'[f].kind = "empty" => files[f].kind = "empty"
  <2> SUFFICES ASSUME NEW f \in s.made \ deleted'[a]
               PROVE  /\ f \in s.made \ deleted[a]
                      /\ files'[f].by = files[f].by
                      /\ files'[f].kind = "empty" => files[f].kind = "empty"
    OBVIOUS
  <2>1. f \in s.made \ deleted[a] /\ f \in Files
    BY <1>1 DEF Elsewhere
  <2>2. Exists(f)
    BY <1>1, <2>1 DEF RunInv, Built, IInv, Created
  <2> QED BY <2>1, <2>2 DEF Elsewhere, Touched, Exists
<1>8. Built(a)'
  BY <1>1, <1>7 DEF RunInv, Built
<1>9. Explained(a)'
  BY <1>1 DEF RunInv, Explained, Elsewhere
<1> QED BY <1>2, <1>4, <1>6, <1>8, <1>9 DEF RunInv

-----------------------------------------------------------------------------
LEMMA UserIInv == ASSUME IInv, User PROVE IInv'
<1>1. PICK f \in Files :
        (\E kind \in {"text", "dangling"} : UserPuts(f, kind))
        \/ UserEdits(f) \/ UserDeletes(f)
  BY DEF User
<1>2. /\ files \in [Files -> [kind : Kinds, by : Runs \cup {"user"}]]
      /\ others \in [Runs -> SUBSET Files] /\ deleted \in [Runs -> SUBSET Files]
      /\ run' = run /\ starts' = starts
      /\ userSteps \in 0..MaxUser
      /\ userSteps < MaxUser /\ userSteps' = userSteps + 1
  BY <1>1 DEF IInv, TypeOK, UserPuts, UserEdits, UserDeletes
<1>3. TypeOK'
  <2>1. userSteps' \in 0..MaxUser
    BY <1>2, BoundsAssumption
  <2>2. files' \in [Files -> [kind : Kinds, by : Runs \cup {"user"}]]
    BY <1>1, <1>2 DEF UserPuts, UserEdits, UserDeletes, File, Kinds
  <2>3. others' \in [Runs -> SUBSET Files] /\ deleted' \in [Runs -> SUBSET Files]
    BY <1>1, <1>2 DEF UserPuts, UserEdits, UserDeletes
  <2> QED BY <1>2, <2>1, <2>2, <2>3 DEF IInv, TypeOK
<1>4. Created'
  BY <1>1, <1>2, RunsAssumption
     DEF UserPuts, UserEdits, UserDeletes, File, IInv, Created, Exists
<1>5. ASSUME NEW a \in Runs PROVE RunInv(a)'
  <2>1. others[a] \subseteq others'[a] /\ deleted[a] \subseteq deleted'[a]
    BY <1>1, <1>2 DEF UserPuts, UserEdits, UserDeletes
  <2>2. \A g \in Files : Touched(a, g)
    BY <1>1, <1>2 DEF UserPuts, UserEdits, UserDeletes, File, Touched, Exists
  <2>3. \A g \in Files : files'[g].kind # "absent" =>
             files[g].kind # "absent" \/ g \in others'[a]
    BY <1>1, <1>2 DEF UserPuts, UserEdits, UserDeletes, File, Exists
  <2> QED BY <1>2, <2>1, <2>2, <2>3, ElsewhereInv DEF Elsewhere
<1>6. OneAuthor'
  <2>1. \A a \in Runs : deleted[a] \subseteq deleted'[a]
    BY <1>1, <1>2 DEF UserPuts, UserEdits, UserDeletes
  <2> QED BY <1>2, <2>1 DEF IInv, OneAuthor
<1> QED BY <1>3, <1>4, <1>5, <1>6 DEF IInv

-----------------------------------------------------------------------------
(* A step of a run. *)

\* What every step of a run keeps, given what it does to the run's own state.
LEMMA StepIInv ==
  ASSUME IInv, NEW a \in Runs, NEW s \in RunTypes,
         run' = [run EXCEPT ![a] = s],
         UNCHANGED <<files, others, deleted, userSteps, starts>>,
         s.made \subseteq run[a].made,
         RunInv(a)'
  PROVE  IInv'
<1>1. TypeOK'
  BY DEF IInv, TypeOK, RunTypes
<1>2. Created'
  BY DEF IInv, Created, Exists
<1>3. ASSUME NEW b \in Runs PROVE RunInv(b)'
  <2>1. CASE b = a
    BY <2>1
  <2>2. CASE b # a
    BY <2>2, ElsewhereInv DEF Elsewhere, Touched, IInv, TypeOK
  <2> QED BY <2>1, <2>2
<1>4. OneAuthor'
  <2>1. \A b \in Runs : run'[b].made \subseteq run[b].made
    BY DEF IInv, TypeOK
  <2> QED BY <2>1 DEF IInv, OneAuthor
<1> QED BY <1>1, <1>2, <1>3, <1>4 DEF IInv

\* Ending keeps the plan and what was made; the outcome must be explained.
LEMMA EndsIInv ==
  ASSUME IInv, NEW a \in Runs, NEW outcome \in Outcomes, Ends(a, outcome),
         UNCHANGED <<files, others, deleted, userSteps, starts>>,
         outcome \in {"invalid", "previewed", "stale"} => run[a].made = {},
         outcome = "exists" => run[a].plan \cap others[a] # {}
  PROVE  IInv'
<1> DEFINE s == Idle(outcome, run[a].plan, run[a].made)
<1>1. run[a] \in RunTypes /\ run \in [Runs -> RunTypes] /\ RunInv(a)
  BY DEF IInv, TypeOK, RunTypes
<1>2. s \in RunTypes
  BY <1>1, BoundsAssumption DEF Idle, RunTypes, Pcs, Files
<1>3. run' = [run EXCEPT ![a] = s] /\ run'[a] = s
  BY <1>1 DEF Ends
<1>4. RunInv(a)'
  BY <1>1, <1>3
     DEF Idle, RunInv, Phases, Checked, LeftOut, Built, Explained
<1> QED BY <1>2, <1>3, <1>4, StepIInv DEF Idle

\* A step that goes on, having made nothing new.
LEMMA GoesIInv ==
  ASSUME IInv, NEW a \in Runs,
         NEW pc \in Pcs, NEW next \in 1..N + 1, NEW plan \in SUBSET Files,
         Goes(a, pc, next, plan, run[a].made),
         UNCHANGED <<files, others, deleted, userSteps, starts>>,
         RunInv(a)'
  PROVE  IInv'
<1>1. run[a] \in RunTypes /\ "none" \in Outcomes
  BY DEF IInv, TypeOK, RunTypes, Outcomes
<1>2. Busy(pc, next, plan, run[a].made) \in RunTypes
  BY <1>1 DEF Busy, RunTypes
<1> QED BY <1>1, <1>2, StepIInv DEF Goes, Busy

LEMMA GoesFields ==
  ASSUME IInv, NEW a \in Runs, NEW pc, NEW next, NEW plan, NEW made,
         Goes(a, pc, next, plan, made)
  PROVE  /\ run'[a].pc = pc /\ run'[a].next = next /\ run'[a].plan = plan
         /\ run'[a].made = made /\ run'[a].outcome = "none"
BY DEF IInv, TypeOK, Goes, Busy

\* Before anything is created: the plan and the first loop.
LEMMA PlanningIInv ==
  ASSUME IInv, NEW a \in Runs,
         PlanFile(a) \/ PlanDone(a) \/ CheckFile(a) \/ CheckDone(a)
  PROVE  IInv'
<1>1. /\ run[a] \in RunTypes /\ RunInv(a)
      /\ N \in Nat /\ run[a].next \in 1..N + 1 /\ run[a].plan \in SUBSET Files
      /\ UNCHANGED <<files, others, deleted, userSteps, starts>>
      /\ 1 \in 1..N + 1
  BY BoundsAssumption
     DEF IInv, TypeOK, RunTypes, PlanFile, PlanDone, CheckFile, CheckDone, world
<1> DEFINE f == run[a].next
<1>2. f <= N => f \in Files /\ f + 1 \in 1..N + 1
  BY <1>1 DEF Files
<1>3. \A g \in Files : (g < f + 1 <=> g < f \/ g = f) /\ ~(g < 1) /\ (f > N => g < f)
  BY <1>1 DEF Files
<1>4. CASE PlanFile(a)
  <2> DEFINE p == IF Exists(f) THEN run[a].plan ELSE run[a].plan \cup {f}
  <2>1. f \in Files /\ run[a].pc = "plan" /\ p \in SUBSET Files
    BY <1>1, <1>2, <1>4 DEF PlanFile
  <2>2. Goes(a, "plan", f + 1, p, run[a].made)
    BY <1>4 DEF PlanFile
  <2>3. LeftOut(a)'
    BY <1>1, <1>3, <2>1, <2>2, GoesFields DEF RunInv, LeftOut, Exists
  <2>4. RunInv(a)'
    BY <1>1, <2>1, <2>2, <2>3, GoesFields
       DEF RunInv, Phases, Checked, Built, Explained
  <2> QED BY <1>1, <1>2, <1>4, <2>1, <2>2, <2>4, GoesIInv DEF PlanFile, Pcs
<1>5. CASE PlanDone(a)
  <2>1. run[a].pc = "plan" /\ run[a].next > N
    BY <1>5 DEF PlanDone
  <2>2. CASE Ends(a, "previewed")
    BY <1>1, <2>1, <2>2, EndsIInv DEF RunInv, Phases, Outcomes
  <2>3. CASE Goes(a, "check", 1, run[a].plan, run[a].made)
    <3>1. LeftOut(a)' /\ Checked(a)'
      BY <1>1, <1>3, <2>1, <2>3, GoesFields
         DEF RunInv, LeftOut, Checked, Clear, Exists
    <3>2. RunInv(a)'
      BY <1>1, <2>1, <2>3, <3>1, GoesFields DEF RunInv, Phases, Built, Explained
    <3> QED BY <1>1, <2>3, <3>2, GoesIInv DEF Pcs
  <2> QED BY <1>5, <2>2, <2>3 DEF PlanDone
<1>6. CASE CheckFile(a)
  <2>1. f \in Files /\ run[a].pc = "check"
    BY <1>1, <1>2, <1>6 DEF CheckFile
  <2>2. CASE Ends(a, "stale")
    BY <1>1, <2>1, <2>2, EndsIInv DEF RunInv, Phases, Outcomes
  <2>3. CASE /\ f \notin run[a].plan \/ ~(Exists(f) \/ IsSymlink(f))
             /\ Goes(a, "check", f + 1, run[a].plan, run[a].made)
    <3>1. f \in run[a].plan => Clear(a, f)
      BY <2>3 DEF Clear, Exists, IsSymlink
    <3>2. Checked(a)'
      BY <1>1, <1>3, <2>1, <2>3, <3>1, GoesFields DEF RunInv, Checked, Clear
    <3>3. RunInv(a)'
      BY <1>1, <2>1, <2>3, <3>2, GoesFields
         DEF RunInv, Phases, LeftOut, Built, Explained, Exists
    <3> QED BY <1>1, <1>2, <1>6, <2>3, <3>3, GoesIInv DEF CheckFile, Pcs
  <2> QED BY <1>6, <2>2, <2>3 DEF CheckFile
<1>7. CASE CheckDone(a)
  <2>1. run[a].pc = "check" /\ run[a].next > N
    BY <1>7 DEF CheckDone
  <2>2. Goes(a, "open", 1, run[a].plan, run[a].made)
    BY <1>7 DEF CheckDone
  <2>3. Checked(a)' /\ Built(a)'
    BY <1>1, <1>3, <2>1, <2>2, GoesFields DEF RunInv, Phases, Checked, Built, Clear
  <2>4. RunInv(a)'
    BY <1>1, <2>1, <2>2, <2>3, GoesFields
       DEF RunInv, Phases, LeftOut, Explained, Exists
  <2> QED BY <1>1, <2>2, <2>4, GoesIInv DEF Pcs
<1> QED BY <1>4, <1>5, <1>6, <1>7

\* Histories begin anew with a run; the others are untouched.
LEMMA StartIInv == ASSUME IInv, NEW a \in Runs, Start(a) PROVE IInv'
<1>1. /\ run \in [Runs -> RunTypes] /\ UNCHANGED <<files, userSteps>>
      /\ others \in [Runs -> SUBSET Files] /\ deleted \in [Runs -> SUBSET Files]
  BY DEF IInv, TypeOK, RunTypes, Start
<1>2. PICK s \in {Idle("invalid", {}, {}), Busy("plan", 1, {}, {})} :
        run' = [run EXCEPT ![a] = s]
  BY DEF Start, Goes
<1>3. /\ s \in RunTypes /\ s.made = {} /\ s.plan = {}
      /\ s.pc \in {"idle", "plan"} /\ s.outcome \in {"invalid", "none"}
      /\ s.pc # "idle" => s.outcome = "none" /\ s.next = 1
  BY BoundsAssumption DEF Idle, Busy, RunTypes, Pcs, Outcomes, Files
<1>4. TypeOK'
  <2>1. starts' \in 0..MaxRestarts
    BY BoundsAssumption DEF Start, IInv, TypeOK
  <2>2. run' \in [Runs -> RunTypes]
    BY <1>1, <1>2, <1>3
  <2>3. others' \in [Runs -> SUBSET Files] /\ deleted' \in [Runs -> SUBSET Files]
    BY <1>1 DEF Start
  <2> QED BY <1>1, <2>1, <2>2, <2>3 DEF IInv, TypeOK, RunTypes
<1>5. Created'
  BY <1>1 DEF IInv, Created, Exists
<1>6. ASSUME NEW b \in Runs PROVE RunInv(b)'
  <2>1. CASE b = a
    <3>1. run'[a] = s /\ \A f \in Files : ~(f < 1)
      BY <1>1, <1>2 DEF Files
    <3> QED BY <1>3, <2>1, <3>1
       DEF RunInv, Phases, Checked, LeftOut, Built, Explained
  <2>2. CASE b # a
    <3>1. run'[b] = run[b] /\ others'[b] = others[b] /\ deleted'[b] = deleted[b]
      BY <1>1, <1>2, <2>2 DEF Start
    <3> QED BY <1>1, <3>1, ElsewhereInv DEF Elsewhere, Touched
  <2> QED BY <2>1, <2>2
<1>7. OneAuthor'
  <2>1. \A b \in Runs : b # a => run'[b] = run[b] /\ deleted'[b] = deleted[b]
    BY <1>1, <1>2 DEF Start
  <2>2. run'[a].made = {}
    BY <1>1, <1>2, <1>3
  <2> QED BY <2>1, <2>2 DEF IInv, OneAuthor
<1> QED BY <1>4, <1>5, <1>6, <1>7 DEF IInv

\* The second loop creates a file that is not there; whoever else had made it
\* must have lost it to the user.
LEMMA CreateIInv ==
  ASSUME IInv, NEW a \in Runs, NEW f, f = run[a].next,
         run[a].pc = "open", f \in run[a].plan,
         files[f].kind = "absent",
         files' = [files EXCEPT ![f] = File("empty", a)],
         others' = [b \in Runs |-> IF b = a THEN others[b] ELSE others[b] \cup {f}],
         Goes(a, "write", f, run[a].plan, run[a].made \cup {f}),
         UNCHANGED <<deleted, userSteps, starts>>
  PROVE  IInv'
<1> DEFINE s == Busy("write", f, run[a].plan, run[a].made \cup {f})
<1>1. /\ run \in [Runs -> RunTypes] /\ run[a] \in RunTypes /\ RunInv(a)
      /\ files \in [Files -> [kind : Kinds, by : Runs \cup {"user"}]]
      /\ others \in [Runs -> SUBSET Files] /\ deleted \in [Runs -> SUBSET Files]
      /\ f \in Files /\ N \in Nat
  BY BoundsAssumption DEF IInv, TypeOK, RunTypes
<1>2. /\ files'[f] = File("empty", a)
      /\ \A g \in Files : g # f => files'[g] = files[g]
      /\ run' = [run EXCEPT ![a] = s]
  BY <1>1 DEF Goes
<1>3. TypeOK'
  <2>1. s \in RunTypes
    BY <1>1 DEF Busy, RunTypes, Pcs, Outcomes
  <2>2. run' \in [Runs -> RunTypes]
    BY <1>1, <1>2, <2>1
  <2>3. files' \in [Files -> [kind : Kinds, by : Runs \cup {"user"}]]
    BY <1>1 DEF File, Kinds
  <2>4. others' \in [Runs -> SUBSET Files]
    BY <1>1
  <2> QED BY <1>1, <2>2, <2>3, <2>4 DEF IInv, TypeOK, RunTypes
<1>4. Created'
  BY <1>1, <1>2 DEF IInv, Created, Exists, File
<1>5. RunInv(a)'
  <2>1. /\ run'[a].pc = "write" /\ run'[a].next = f /\ run'[a].plan = run[a].plan
        /\ run'[a].made = run[a].made \cup {f} /\ run'[a].outcome = "none"
    BY GoesFields
  <2>2. others'[a] = others[a] /\ deleted' = deleted
    BY <1>1
  <2>3. Phases(a)' /\ Explained(a)'
    BY <2>1 DEF Phases, Explained
  <2>4. Checked(a)'
    <3>1. \A g \in run[a].plan : f < g => f <= g /\ g # f /\ g \in Files
      BY <1>1 DEF RunTypes, Files
    <3> QED BY <1>1, <1>2, <2>1, <2>2, <3>1 DEF RunInv, Checked, Clear
  <2>5. LeftOut(a)'
    BY <1>1, <1>2, <2>1, <2>2 DEF RunInv, LeftOut, Exists
  <2>6. Built(a)'
    <3>1. \A g \in run[a].made : g \in Files
      BY <1>1 DEF RunTypes
    <3> QED BY <1>1, <1>2, <2>1, <2>2, <3>1 DEF RunInv, Built, File
  <2> QED BY <2>3, <2>4, <2>5, <2>6 DEF RunInv
<1>6. ASSUME NEW b \in Runs, b # a PROVE RunInv(b)'
  <2>1. run'[b] = run[b] /\ others'[b] = others[b] \cup {f} /\ deleted' = deleted
    BY <1>1, <1>2, <1>6
  <2>2. \A g \in Files : Touched(b, g)
    BY <1>2, <2>1 DEF Touched
  <2>3. \A g \in Files : files'[g].kind # "absent" =>
          files[g].kind # "absent" \/ g \in others'[b]
    BY <1>2, <2>1
  <2> QED BY <2>1, <2>2, <2>3, ElsewhereInv DEF Elsewhere
<1>7. OneAuthor'
  <2>1. \A b \in Runs : f \in run[b].made => f \in deleted[b]
    <3> SUFFICES ASSUME NEW b \in Runs, f \in run[b].made, f \notin deleted[b]
                 PROVE  FALSE
      OBVIOUS
    <3>1. files[f].by = b
      BY DEF IInv, RunInv, Built
    <3> QED BY <1>1, <3>1 DEF IInv, Created, Exists
  <2>2. run'[a].made = run[a].made \cup {f}
    BY GoesFields
  <2>3. \A b \in Runs : b # a => run'[b].made = run[b].made
    BY <1>1, <1>2
  <2> QED BY <2>1, <2>2, <2>3 DEF IInv, OneAuthor
<1> QED BY <1>3, <1>4, <1>5, <1>6, <1>7 DEF IInv

\* The text reaches the file the run created, if that is still there.
LEMMA WrittenIInv ==
  ASSUME IInv, NEW a \in Runs, NEW f, f = run[a].next, run[a].pc = "write",
         files' = IF files[f].by = a
                  THEN [files EXCEPT ![f].kind = "generated"] ELSE files,
         Goes(a, "open", f + 1, run[a].plan, run[a].made),
         UNCHANGED <<others, deleted, userSteps, starts>>
  PROVE  IInv'
<1> DEFINE s == Busy("open", f + 1, run[a].plan, run[a].made)
<1>1. /\ run \in [Runs -> RunTypes] /\ run[a] \in RunTypes /\ RunInv(a)
      /\ files \in [Files -> [kind : Kinds, by : Runs \cup {"user"}]]
  BY DEF IInv, TypeOK, RunTypes
<1>2. f \in run[a].plan /\ f \in Files /\ f + 1 \in 1..N + 1
  BY <1>1, BoundsAssumption DEF RunInv, Phases, RunTypes, Files
<1>3. run' = [run EXCEPT ![a] = s]
  BY DEF Goes
<1>4. /\ files' \in [Files -> [kind : Kinds, by : Runs \cup {"user"}]]
      /\ \A g \in Files : files'[g].by = files[g].by
      /\ \A g \in Files : g # f => files'[g] = files[g]
      /\ files[f].by = a => files'[f].kind = "generated"
      /\ files[f].by # a => files'[f] = files[f]
  BY <1>1, <1>2 DEF Kinds
<1>5. TypeOK'
  <2>1. s \in RunTypes
    BY <1>1, <1>2 DEF Busy, RunTypes, Pcs, Outcomes
  <2>2. run' \in [Runs -> RunTypes]
    BY <1>1, <1>3, <2>1
  <2> QED BY <1>4, <2>2 DEF IInv, TypeOK, RunTypes
<1>6. files[f].by = a => Exists(f)
  BY <1>2 DEF IInv, Created
<1>7. \A g \in Files : Exists(g) <=> Exists(g)'
  BY <1>4, <1>6 DEF Exists
<1>8. Created'
  BY <1>4, <1>7 DEF IInv, Created
<1>9. \A g \in Files : files'[g].kind = "absent" <=> files[g].kind = "absent"
  BY <1>4, <1>6 DEF Exists
<1>10. RunInv(a)'
  <2>1. /\ run'[a].pc = "open" /\ run'[a].next = f + 1 /\ run'[a].plan = run[a].plan
        /\ run'[a].made = run[a].made /\ run'[a].outcome = "none"
    BY GoesFields
  <2>2. \A g \in run[a].plan : g \in Files /\ (f + 1 <= g <=> f < g)
                               /\ (g < f + 1 => g < f \/ g = f)
    BY <1>1, <1>2 DEF RunTypes, Files
  <2>3. Phases(a)' /\ Explained(a)'
    BY <2>1 DEF Phases, Explained
  <2>4. Checked(a)'
    BY <1>1, <1>9, <2>1, <2>2 DEF RunInv, Checked, Clear
  <2>5. LeftOut(a)'
    BY <1>1, <1>7, <2>1 DEF RunInv, LeftOut
  <2>6. f \in run[a].made
    BY <1>1 DEF RunInv, Phases
  <2>7. \A g \in run[a].made : g \in Files
    BY <1>1 DEF RunTypes
  <2>8. Built(a)'
    BY <1>1, <1>4, <2>1, <2>2, <2>6, <2>7 DEF RunInv, Built
  <2> QED BY <2>3, <2>4, <2>5, <2>8 DEF RunInv
<1>11. ASSUME NEW b \in Runs, b # a PROVE RunInv(b)'
  <2>1. run'[b] = run[b]
    BY <1>1, <1>3, <1>11
  <2>2. \A g \in Files : Touched(b, g)
    BY <1>4, <1>6 DEF Touched
  <2> QED BY <1>9, <2>1, <2>2, ElsewhereInv DEF Elsewhere
<1>12. OneAuthor'
  <2>1. \A b \in Runs : run'[b].made = run[b].made
    BY <1>1, <1>3 DEF Busy
  <2> QED BY <2>1 DEF IInv, OneAuthor
<1> QED BY <1>5, <1>8, <1>10, <1>11, <1>12 DEF IInv

LEMMA CreatingIInv ==
  ASSUME IInv, NEW a \in Runs, OpenFile(a) \/ SkipFile(a) \/ WriteFile(a) \/ Report(a)
  PROVE  IInv'
<1>1. /\ run[a] \in RunTypes /\ RunInv(a)
      /\ N \in Nat /\ run[a].next \in 1..N + 1 /\ run[a].plan \in SUBSET Files
      /\ UNCHANGED <<userSteps, starts>> /\ deleted' = deleted
  BY BoundsAssumption
     DEF IInv, TypeOK, RunTypes, OpenFile, SkipFile, WriteFile, Report, world
<1>2. "exists" \in Outcomes /\ "io_error" \in Outcomes /\ "applied" \in Outcomes
  BY DEF Outcomes
<1> DEFINE f == run[a].next
<1>3. CASE OpenFile(a)
  <2>1. run[a].pc = "open" /\ f \in run[a].plan /\ f <= f /\ f \in Files
    BY <1>1, <1>3 DEF OpenFile
  <2>2. CASE /\ files[f].kind = "absent"
             /\ files' = [files EXCEPT ![f] = File("empty", a)]
             /\ others' = [b \in Runs |-> IF b = a THEN others[b] ELSE others[b] \cup {f}]
             /\ Goes(a, "write", f, run[a].plan, run[a].made \cup {f})
    BY <1>1, <2>1, <2>2, CreateIInv
  <2>3. CASE files[f].kind # "absent" /\ Ends(a, "exists") /\ UNCHANGED <<files, others>>
    <3>1. f \in others[a]
      BY <1>1, <2>1, <2>3 DEF RunInv, Checked, Clear
    <3> QED BY <1>1, <1>2, <2>1, <2>3, <3>1, EndsIInv
  <2>4. CASE Ends(a, "io_error") /\ UNCHANGED <<files, others>>
    BY <1>1, <1>2, <2>4, EndsIInv
  <2> QED BY <1>3, <2>2, <2>3, <2>4 DEF OpenFile, Free
<1>4. CASE SkipFile(a)
  <2>1. /\ run[a].pc = "open" /\ f \notin run[a].plan /\ f + 1 \in 1..N + 1
        /\ Goes(a, "open", f + 1, run[a].plan, run[a].made)
        /\ UNCHANGED <<files, others>>
    BY <1>1, <1>4 DEF SkipFile
  <2>2. \A g \in run[a].plan : (g < f + 1 => g < f) /\ (f + 1 <= g => f <= g)
    BY <1>1, <2>1 DEF Files
  <2>3. RunInv(a)'
    BY <1>1, <2>1, <2>2, GoesFields
       DEF RunInv, Phases, Checked, Clear, LeftOut, Built, Explained, Exists
  <2> QED BY <1>1, <2>1, <2>3, GoesIInv DEF Pcs
<1>5. CASE WriteFile(a)
  <2>1. CASE Ends(a, "io_error") /\ UNCHANGED files
    BY <1>1, <1>2, <1>5, <2>1, EndsIInv DEF WriteFile
  <2>2. CASE ~(Ends(a, "io_error") /\ UNCHANGED files)
    BY <1>1, <1>5, <2>2, WrittenIInv DEF WriteFile
  <2> QED BY <2>1, <2>2
<1>6. CASE Report(a)
  BY <1>1, <1>2, <1>6, EndsIInv DEF Report
<1> QED BY <1>3, <1>4, <1>5, <1>6

LEMMA CrashIInv == ASSUME IInv, NEW a \in Runs, Crash(a) PROVE IInv'
BY EndsIInv DEF Crash, Outcomes, world

LEMMA NextIInv == ASSUME IInv, [Next]_vars PROVE IInv'
<1>1. CASE User
  BY <1>1, UserIInv
<1>2. ASSUME NEW a \in Runs, Adopt(a) PROVE IInv'
  BY <1>2, StartIInv, PlanningIInv, CreatingIInv, CrashIInv DEF Adopt
<1>3. CASE UNCHANGED vars
  <2>1. \A a \in Runs : RunInv(a)'
    BY <1>3 DEF vars, IInv, RunInv, Phases, Checked, Clear, LeftOut, Built,
                Explained, Exists
  <2>2. TypeOK' /\ Created' /\ OneAuthor'
    BY <1>3 DEF vars, IInv, TypeOK, Created, Exists, OneAuthor
  <2> QED BY <2>1, <2>2 DEF IInv
<1> QED BY <1>1, <1>2, <1>3 DEF Next

\* The inductive invariant.
THEOREM Invariance == Spec => []IInv
BY InitIInv, NextIInv, PTL DEF Spec

\* Type correctness, for any number of runs and files.
THEOREM TypeCorrect == Spec => []TypeOK
BY Invariance, PTL DEF IInv

\* apply_plan refuses a stale plan before it creates anything, and stops half
\* way only at a file somebody else has made (lines 206-216).
THEOREM FailuresExplained == Spec => []FailureIsExplained
<1>1. IInv => FailureIsExplained
  BY DEF IInv, RunInv, Explained, FailureIsExplained
<1> QED BY <1>1, Invariance, PTL

\* open("x") decides between two runs that both passed the check (line 215).
THEOREM SingleAuthor == Spec => []OneAuthor
BY Invariance, PTL DEF IInv

\* "It does not overwrite existing files" (README.md:48).
THEOREM NoOverwrite == Spec => UserFilesSurvive
<1> DEFINE A == \A a \in Runs, f \in Files :
                  Adopt(a) /\ files'[f] # files[f] =>
                    \/ files[f].kind = "absent"
                    \/ files[f].by = a /\ run[a].pc = "write" /\ run[a].next = f
<1>1. ASSUME IInv PROVE A
  <2> SUFFICES ASSUME NEW a \in Runs, NEW f \in Files, Adopt(a), files'[f] # files[f]
               PROVE  \/ files[f].kind = "absent"
                      \/ files[f].by = a /\ run[a].pc = "write" /\ run[a].next = f
    OBVIOUS
  <2>1. files \in [Files -> [kind : Kinds, by : Runs \cup {"user"}]]
    BY <1>1 DEF IInv, TypeOK
  <2>2. OpenFile(a) \/ WriteFile(a)
    BY DEF Adopt, Start, PlanFile, PlanDone, CheckFile, CheckDone, SkipFile, Report, Crash
  <2>3. CASE OpenFile(a)
    BY <2>1, <2>3 DEF OpenFile, Free
  <2>4. CASE WriteFile(a)
    <3>1. f = run[a].next /\ files[f].by = a
      BY <2>1, <2>4 DEF WriteFile
    <3> QED BY <2>4, <3>1 DEF WriteFile
  <2> QED BY <2>2, <2>3, <2>4
<1>2. IInv /\ [Next]_vars => [A]_vars
  BY <1>1
<1> QED BY <1>2, Invariance, PTL DEF Spec, UserFilesSurvive

\* "Created n files" means the files are there, as written (lines 212-216).
THEOREM CompleteSuccess == Spec => SuccessIsComplete
<1> DEFINE A == \A a \in Runs : run[a].pc = "open" /\ run'[a].outcome = "applied" =>
                  \A f \in Files \ deleted[a] :
                    /\ files[f].kind \notin {"absent", "dangling"}
                    /\ f \in run[a].plan => files[f].by = a /\ files[f].kind # "empty"
<1>1. ASSUME IInv, [Next]_vars PROVE A
  <2> SUFFICES ASSUME NEW a \in Runs, run[a].pc = "open", run'[a].outcome = "applied",
                      NEW f \in Files \ deleted[a]
               PROVE  /\ files[f].kind \notin {"absent", "dangling"}
                      /\ f \in run[a].plan => files[f].by = a /\ files[f].kind # "empty"
    OBVIOUS
  <2>1. RunInv(a) /\ run[a].outcome = "none" /\ run \in [Runs -> RunTypes] /\ N \in Nat
    BY <1>1, BoundsAssumption DEF IInv, TypeOK, RunInv, Phases, RunTypes
  <2>2. run[a].next > N
    <3>1. PICK b \in Runs : Adopt(b)
      BY <1>1, <2>1 DEF Next, User, UserPuts, UserEdits, UserDeletes, vars
    <3>2. b = a
      <4>1. \E s : run' = [run EXCEPT ![b] = s]
        BY <3>1 DEF Adopt, Start, PlanFile, PlanDone, CheckFile, CheckDone, OpenFile,
                    SkipFile, WriteFile, Report, Crash, Ends, Goes
      <4> QED BY <2>1, <4>1
    <3>3. \A o : Ends(a, o) => run'[a].outcome = o
      BY <2>1 DEF Ends, Idle
    <3>4. \A pc, next, plan, made : ~Goes(a, pc, next, plan, made)
      BY <1>1, GoesFields
    <3>5. Report(a)
      BY <3>1, <3>2, <3>3, <3>4
         DEF Adopt, Start, PlanFile, PlanDone, CheckFile, CheckDone, OpenFile,
             SkipFile, WriteFile, Crash
    <3> QED BY <3>5 DEF Report
  <2>3. f < run[a].next
    BY <2>1, <2>2 DEF Files, RunTypes
  <2>4. CASE f \in run[a].plan
    <3>1. files[f].by = a /\ files[f].kind # "empty"
      BY <2>1, <2>3, <2>4 DEF RunInv, Built
    <3> QED BY <1>1, <3>1 DEF IInv, Created, Exists
  <2>5. CASE f \notin run[a].plan
    BY <2>1, <2>5 DEF RunInv, LeftOut, Exists
  <2> QED BY <2>4, <2>5
<1>2. IInv /\ [Next]_vars => [A]_vars
  BY <1>1
<1> QED BY <1>2, Invariance, PTL DEF Spec, SuccessIsComplete

-----------------------------------------------------------------------------
(* The refinement: module CreateOnly says what adoption promises. *)

\* A step that leaves the files alone and the run not writing is a giving up.
LEMMA GivesUp ==
  ASSUME IInv, NEW a \in Runs, NEW s, run' = [run EXCEPT ![a] = s],
         s.pc # "write", files' = files
  PROVE  Promise!GiveUp(a)
<1>1. \A b \in Runs : Unfilled(b)' = IF b = a THEN 0 ELSE Unfilled(b)
  BY DEF IInv, TypeOK, Unfilled
<1>2. \A f \in Files : MadeBy(f)' = MadeBy(f)
  BY DEF MadeBy
<1> QED BY <1>1, <1>2 DEF Promise!GiveUp, Promise!NoFile

LEMMA EndingGivesUp ==
  ASSUME IInv, NEW a \in Runs, files' = files, NEW o, Ends(a, o)
  PROVE  Promise!GiveUp(a)
<1>1. Idle(o, run[a].plan, run[a].made).pc # "write"
  BY DEF Idle
<1> QED BY <1>1, GivesUp DEF Ends

LEMMA OwnerRefines == ASSUME IInv, User PROVE \E f \in Files : Promise!OwnerActs(f)
<1>1. PICK f \in Files :
        (\E k \in {"text", "dangling"} : UserPuts(f, k)) \/ UserEdits(f) \/ UserDeletes(f)
  BY DEF User
<1>2. files \in [Files -> [kind : Kinds, by : Runs \cup {"user"}]] /\ run' = run
  BY <1>1 DEF IInv, TypeOK, UserPuts, UserEdits, UserDeletes
<1> DEFINE Becomes(k, who) ==
             /\ \A g \in Files \ {f} : files'[g] = files[g]
             /\ files'[f].kind = k /\ files'[f].by = who
             /\ who = "user" \/ (who = files[f].by /\ files[f].kind # "absent" /\ k = "text")
<1>3. \E k \in {"absent", "dangling", "text"}, who \in Runs \cup {"user"} : Becomes(k, who)
  <2>1. ASSUME NEW k \in {"text", "dangling"}, UserPuts(f, k) PROVE Becomes(k, "user")
    BY <1>2, <2>1 DEF UserPuts, File
  <2>2. CASE UserEdits(f)
    <3>1. files[f].by \in Runs \cup {"user"} /\ files[f].kind # "absent"
      BY <1>2, <2>2 DEF UserEdits, Exists
    <3>2. files' = [files EXCEPT ![f].kind = "text"]
      BY <2>2 DEF UserEdits
    <3>3. files'[f].kind = "text" /\ files'[f].by = files[f].by
      BY <1>2, <3>2
    <3>4. \A g \in Files \ {f} : files'[g] = files[g]
      BY <1>2, <3>2
    <3>5. Becomes("text", files[f].by)
      BY <3>1, <3>3, <3>4
    <3> QED BY <3>1, <3>5
  <2>3. ASSUME UserDeletes(f) PROVE Becomes("absent", "user")
    BY <1>2, <2>3 DEF UserDeletes, File
  <2> QED BY <1>1, <2>1, <2>2, <2>3
<1>4. PICK k \in {"absent", "dangling", "text"}, who \in Runs \cup {"user"} : Becomes(k, who)
  BY <1>3
<1> DEFINE owner == IF k = "absent" THEN "nobody" ELSE who
<1>5. /\ \A g \in Files : MadeBy(g)' = IF g = f THEN owner ELSE MadeBy(g)
      /\ \A g \in Files : files'[g].kind = IF g = f THEN k ELSE files[g].kind
      /\ \A a \in Runs : Unfilled(a)' = Unfilled(a)
  BY <1>2, <1>4 DEF MadeBy, Unfilled
<1>6. owner \in {"user", "nobody", MadeBy(f)} /\ (k = "absent" <=> owner = "nobody")
  BY <1>4, RunsAssumption DEF MadeBy
<1>7. [g \in Files |-> MadeBy(g)]' = [[g \in Files |-> MadeBy(g)] EXCEPT ![f] = owner]
  BY <1>5
<1>8. [g \in Files |-> files[g].kind]' = [[g \in Files |-> files[g].kind] EXCEPT ![f] = k]
  BY <1>5
<1>9. [a \in Runs |-> Unfilled(a)]' = [a \in Runs |-> Unfilled(a)]
  BY <1>5
<1> HIDE DEF owner
<1> QED BY <1>4, <1>6, <1>7, <1>8, <1>9 DEF Promise!OwnerActs, Promise!Nobody

LEMMA OpenRefines ==
  ASSUME IInv, NEW a \in Runs, OpenFile(a)
  PROVE  Promise!GiveUp(a) \/ \E f \in Files : Promise!Make(a, f)
<1>1. /\ files \in [Files -> [kind : Kinds, by : Runs \cup {"user"}]]
      /\ run \in [Runs -> RunTypes]
      /\ run[a].pc = "open" /\ run[a].next \in Files
  BY BoundsAssumption DEF IInv, TypeOK, RunTypes, OpenFile, Files
<1> PICK f \in Files : f = run[a].next
  BY <1>1
<1>2. CASE Free(f) /\ files' = [files EXCEPT ![f] = File("empty", a)]
           /\ Goes(a, "write", f, run[a].plan, run[a].made \cup {f})
  <2>1. /\ \A g \in Files : MadeBy(g)' = IF g = f THEN a ELSE MadeBy(g)
        /\ \A g \in Files : files'[g].kind = IF g = f THEN "empty" ELSE files[g].kind
    BY <1>1, <1>2 DEF MadeBy, File
  <2>2. \A b \in Runs : Unfilled(b)' = IF b = a THEN f ELSE Unfilled(b)
    BY <1>1, <1>2 DEF Goes, Busy, Unfilled
  <2>3. MadeBy(f) = "nobody" /\ Unfilled(a) = 0
    BY <1>1, <1>2 DEF Free, MadeBy, Unfilled
  <2>4. Promise!Make(a, f)
    BY <1>1, <2>1, <2>2, <2>3 DEF Promise!Make, Promise!Nobody, Promise!NoFile
  <2> QED BY <2>4
<1>3. ASSUME files' = files, NEW o, Ends(a, o) PROVE Promise!GiveUp(a)
  BY <1>3, EndingGivesUp
<1>4. \/ Free(f) /\ files' = [files EXCEPT ![f] = File("empty", a)]
         /\ Goes(a, "write", f, run[a].plan, run[a].made \cup {f})
      \/ Ends(a, "exists") /\ files' = files
      \/ Ends(a, "io_error") /\ files' = files
  BY DEF OpenFile
<1> QED BY <1>2, <1>3, <1>4

LEMMA WriteRefines ==
  ASSUME IInv, NEW a \in Runs, WriteFile(a)
  PROVE  Promise!GiveUp(a) \/ \E f \in Files : Promise!Fill(a, f)
<1>1. /\ files \in [Files -> [kind : Kinds, by : Runs \cup {"user"}]]
      /\ run \in [Runs -> RunTypes]
      /\ run[a].pc = "write" /\ run[a].next \in Files
      /\ files[run[a].next].by = a => files[run[a].next].kind # "absent"
  BY DEF IInv, TypeOK, RunTypes, WriteFile, RunInv, Phases, Created, Exists
<1> PICK f \in Files : f = run[a].next
  BY <1>1
<1>2. CASE files' = (IF files[f].by = a THEN [files EXCEPT ![f].kind = "generated"] ELSE files)
           /\ Goes(a, "open", f + 1, run[a].plan, run[a].made)
  <2>1. \A g \in Files :
          files'[g].kind = IF g = f /\ MadeBy(f) = a THEN "generated" ELSE files[g].kind
    BY <1>1, <1>2, RunsAssumption DEF MadeBy
  <2>2. \A g \in Files : MadeBy(g)' = MadeBy(g)
    BY <1>1, <1>2 DEF MadeBy
  <2>3. \A b \in Runs : Unfilled(b)' = IF b = a THEN 0 ELSE Unfilled(b)
    BY <1>1, <1>2 DEF Goes, Busy, Unfilled
  <2>4. Unfilled(a) = f
    BY <1>1 DEF Unfilled
  <2>5. Promise!Fill(a, f)
    BY <1>1, <2>1, <2>2, <2>3, <2>4 DEF Promise!Fill, Promise!NoFile
  <2> QED BY <2>5
<1>3. ASSUME files' = files, NEW o, Ends(a, o) PROVE Promise!GiveUp(a)
  BY <1>3, EndingGivesUp
<1>4. \/ /\ files' = (IF files[f].by = a THEN [files EXCEPT ![f].kind = "generated"] ELSE files)
         /\ Goes(a, "open", f + 1, run[a].plan, run[a].made)
      \/ Ends(a, "io_error") /\ files' = files
  BY DEF WriteFile
<1> QED BY <1>2, <1>3, <1>4

LEMMA PlanningRefines ==
  ASSUME IInv, NEW a \in Runs,
         Start(a) \/ PlanFile(a) \/ PlanDone(a) \/ CheckFile(a) \/ CheckDone(a)
           \/ SkipFile(a) \/ Report(a) \/ Crash(a)
  PROVE  Promise!GiveUp(a)
<1>1. files' = files
  BY DEF Start, PlanFile, PlanDone, CheckFile, CheckDone, SkipFile, Report, Crash
<1>2. \E s : run' = [run EXCEPT ![a] = s] /\ s.pc # "write"
  <2>1. \A o, p, m : Idle(o, p, m).pc # "write"
    BY DEF Idle
  <2>2. \A pc, n, p, m : Busy(pc, n, p, m).pc = pc
    BY DEF Busy
  <2> QED BY <2>1, <2>2 DEF Start, PlanFile, PlanDone, CheckFile, CheckDone, SkipFile,
                            Report, Crash, Ends, Goes
<1> QED BY <1>1, <1>2, GivesUp

\* adopt creates files, one by one, and does nothing else (lines 204-216).
THEOREM ImplementsPromise == Spec => CreatesOnly
<1>1. Init => Promise!Init
  <2> SUFFICES ASSUME Init PROVE Promise!Init
    OBVIOUS
  <2>1. /\ \A f \in Files : /\ files[f].kind \in {"absent", "dangling", "text"}
                            /\ files[f].by = "user"
        /\ \A a \in Runs : Unfilled(a) = 0
    BY DEF Init, File, Idle, Unfilled
  <2> QED BY <2>1 DEF Promise!Init, Promise!Nobody, Promise!NoFile, MadeBy
<1>2. ASSUME IInv, [Next]_vars PROVE [Promise!Next]_(Promise!vars)
  <2>1. CASE User
    BY <1>2, <2>1, OwnerRefines DEF Promise!Next
  <2>2. ASSUME NEW a \in Runs, Adopt(a) PROVE Promise!Next
    BY <1>2, <2>2, PlanningRefines, OpenRefines, WriteRefines DEF Adopt, Promise!Next
  <2>3. CASE UNCHANGED vars
    BY <2>3 DEF vars, Promise!vars, MadeBy, Unfilled
  <2> QED BY <1>2, <2>1, <2>2, <2>3 DEF Next
<1> QED BY <1>1, <1>2, Invariance, PTL DEF Spec, CreatesOnly, Promise!Spec
=============================================================================
