------------------------------ MODULE Adoption ------------------------------
(***************************************************************************)
(* `ai-ready adopt`: plan_adoption proposes the files a repository does    *)
(* not have, and with --apply apply_plan checks that none of them exists   *)
(* and then creates them one by one.                                       *)
(*                                                                         *)
(* Several runs may work on one repository while its user creates, edits   *)
(* and deletes the same files.  Each test for existence, each open and     *)
(* each write is a step.  What the files say is left out.                  *)
(***************************************************************************)
EXTENDS Integers

CONSTANTS Runs,         \* processes running `ai-ready adopt`
          N,            \* files a plan may create, in the plan's order:
                        \* Makefile, AGENTS.md, ADOPTION.md
          MaxUser,      \* bound of the model: steps of the user
          MaxRestarts   \* bound of the model: how often adopt is started

ASSUME BoundsAssumption == N \in Nat \ {0} /\ MaxUser \in Nat /\ MaxRestarts \in Nat
ASSUME RunsAssumption == "user" \notin Runs /\ "nobody" \notin Runs

Files == 1..N

VARIABLES
  files,     \* file -> what is there, and who created that very file
  run,       \* the runs; `made` is what the run has created so far
  others,    \* history: run -> files made by anybody else since it started
  deleted,   \* history: run -> files deleted since it started
  userSteps, starts

vars == <<files, run, others, deleted, userSteps, starts>>

Kinds == {"absent", "dangling", "text", "empty", "generated"}
File(kind, by) == [kind |-> kind, by |-> by]

Outcomes == {"none", "invalid", "previewed", "stale", "exists", "io_error", "applied"}
Pcs == {"idle", "plan", "check", "open", "write"}

TypeOK ==
  /\ files \in [Files -> [kind : Kinds, by : Runs \cup {"user"}]]
  /\ run \in [Runs -> [pc : Pcs, next : 1..N + 1, plan : SUBSET Files,
                       made : SUBSET Files, outcome : Outcomes]]
  /\ others \in [Runs -> SUBSET Files]
  /\ deleted \in [Runs -> SUBSET Files]
  /\ userSteps \in 0..MaxUser
  /\ starts \in 0..MaxRestarts

Idle(outcome, plan, made) ==
  [pc |-> "idle", next |-> 1, plan |-> plan, made |-> made, outcome |-> outcome]

Busy(pc, next, plan, made) ==
  [pc |-> pc, next |-> next, plan |-> plan, made |-> made, outcome |-> "none"]

Init ==
  /\ files \in [Files -> {File(k, "user") : k \in {"absent", "dangling", "text"}}]
  /\ run = [a \in Runs |-> Idle("none", {}, {})]
  /\ others = [a \in Runs |-> {}]
  /\ deleted = [a \in Runs |-> {}]
  /\ userSteps = 0
  /\ starts = 0

\* Path.exists follows a symbolic link, is_symlink does not.
Exists_Link(f) == files[f].kind # "absent"   \* mutant: os.path.lexists
IsSymlink_Ignored(f) == FALSE                \* mutant: the test is left out
Exists(f)    == files[f].kind \notin {"absent", "dangling"}
IsSymlink(f) == files[f].kind = "dangling"

-----------------------------------------------------------------------------
(* The user, with an editor or git. *)

UserPuts(f, kind) ==
  /\ userSteps < MaxUser
  /\ files[f].kind = "absent"
  /\ files' = [files EXCEPT ![f] = File(kind, "user")]
  /\ others' = [a \in Runs |-> others[a] \cup {f}]
  /\ userSteps' = userSteps + 1
  /\ UNCHANGED <<run, deleted, starts>>

\* An edit in place: the file stays the one that was created.
UserEdits(f) ==
  /\ userSteps < MaxUser
  /\ Exists(f)
  /\ files' = [files EXCEPT ![f].kind = "text"]
  /\ userSteps' = userSteps + 1
  /\ UNCHANGED <<run, others, deleted, starts>>

UserDeletes(f) ==
  /\ userSteps < MaxUser
  /\ files[f].kind # "absent"
  /\ files' = [files EXCEPT ![f] = File("absent", "user")]
  /\ deleted' = [a \in Runs |-> deleted[a] \cup {f}]
  /\ userSteps' = userSteps + 1
  /\ UNCHANGED <<run, others, starts>>

User ==
  \E f \in Files :
    \/ \E kind \in {"text", "dangling"} : UserPuts(f, kind)
    \/ UserEdits(f)
    \/ UserDeletes(f)

-----------------------------------------------------------------------------
(* A run. *)

world == <<userSteps, starts>>
Ends(a, outcome) ==
  run' = [run EXCEPT ![a] = Idle(outcome, run[a].plan, run[a].made)]
Goes(a, pc, next, plan, made) ==
  run' = [run EXCEPT ![a] = Busy(pc, next, plan, made)]

\* cli.main and the checks of plan_adoption before the first test for a file.
Start(a) ==
  /\ run[a].pc = "idle"
  /\ starts < MaxRestarts
  /\ starts' = starts + 1
  /\ others' = [others EXCEPT ![a] = {}]
  /\ deleted' = [deleted EXCEPT ![a] = {}]
  /\ \/ run' = [run EXCEPT ![a] = Idle("invalid", {}, {})]
     \/ Goes(a, "plan", 1, {}, {})
  /\ UNCHANGED <<files, userSteps>>

\* plan_adoption: a file is proposed unless it exists.
PlanFile(a) ==
  LET f == run[a].next
  IN  /\ run[a].pc = "plan" /\ f <= N
      /\ Goes(a, "plan", f + 1,
              IF Exists(f) THEN run[a].plan ELSE run[a].plan \cup {f}, run[a].made)
      /\ UNCHANGED <<files, others, deleted, world>>

\* The plan is printed; without --apply that is all.
PlanDone(a) ==
  /\ run[a].pc = "plan" /\ run[a].next > N
  /\ \/ Ends(a, "previewed")
     \/ Goes(a, "check", 1, run[a].plan, run[a].made)
  /\ UNCHANGED <<files, others, deleted, world>>

\* The first loop of apply_plan.
CheckFile(a) ==
  LET f == run[a].next
  IN  /\ run[a].pc = "check" /\ f <= N
      /\ \/ f \in run[a].plan /\ (Exists(f) \/ IsSymlink(f)) /\ Ends(a, "stale")
         \/ /\ f \notin run[a].plan \/ ~(Exists(f) \/ IsSymlink(f))
            /\ Goes(a, "check", f + 1, run[a].plan, run[a].made)
      /\ UNCHANGED <<files, others, deleted, world>>

CheckDone(a) ==
  /\ run[a].pc = "check" /\ run[a].next > N
  /\ Goes(a, "open", 1, run[a].plan, run[a].made)
  /\ UNCHANGED <<files, others, deleted, world>>

\* The second loop: open("x") creates the file or finds the name taken, by a
\* symbolic link too, or fails for a reason of the system's.
Free_Always(f) == TRUE   \* mutant: open("w")
Free(f) == files[f].kind = "absent"

OpenFile(a) ==
  LET f == run[a].next
  IN  /\ run[a].pc = "open" /\ f <= N /\ f \in run[a].plan
      /\ \/ /\ Free(f)
            /\ files' = [files EXCEPT ![f] = File("empty", a)]
            /\ others' = [b \in Runs |-> IF b = a THEN others[b] ELSE others[b] \cup {f}]
            /\ Goes(a, "write", f, run[a].plan, run[a].made \cup {f})
         \/ /\ ~Free(f)
            /\ Ends(a, "exists") /\ UNCHANGED <<files, others>>
         \/ Ends(a, "io_error") /\ UNCHANGED <<files, others>>
      /\ UNCHANGED <<deleted, world>>

SkipFile(a) ==
  LET f == run[a].next
  IN  /\ run[a].pc = "open" /\ f <= N /\ f \notin run[a].plan
      /\ Goes(a, "open", f + 1, run[a].plan, run[a].made)
      /\ UNCHANGED <<files, others, deleted, world>>

\* The text reaches the file that was opened, which may by now have been
\* deleted, when the stream is closed; or the disk is full.
WriteFile(a) ==
  LET f == run[a].next
  IN  /\ run[a].pc = "write"
      /\ \/ /\ files' = IF files[f].by = a
                        THEN [files EXCEPT ![f].kind = "generated"] ELSE files
            /\ Goes(a, "open", f + 1, run[a].plan, run[a].made)
         \/ Ends(a, "io_error") /\ UNCHANGED files
      /\ UNCHANGED <<others, deleted, world>>

Report(a) ==
  /\ run[a].pc = "open" /\ run[a].next > N
  /\ Ends(a, "applied")
  /\ UNCHANGED <<files, others, deleted, world>>

Crash(a) ==
  /\ run[a].pc # "idle"
  /\ Ends(a, "none")
  /\ UNCHANGED <<files, others, deleted, world>>

Adopt(a) ==
  \/ Start(a) \/ PlanFile(a) \/ PlanDone(a) \/ CheckFile(a) \/ CheckDone(a)
  \/ OpenFile(a) \/ SkipFile(a) \/ WriteFile(a) \/ Report(a) \/ Crash(a)

Next == User \/ \E a \in Runs : Adopt(a)

Spec == Init /\ [][Next]_vars

-----------------------------------------------------------------------------
(* Properties. *)

\* README, "It does not overwrite existing files": a step of adopt changes a
\* name only where there is nothing, or in the very file that run created.
UserFilesSurvive ==
  [][\A a \in Runs, f \in Files :
       Adopt(a) /\ files'[f] # files[f] =>
         \/ files[f].kind = "absent"
         \/ files[f].by = a /\ run[a].pc = "write" /\ run[a].next = f]_vars

\* A refused plan has created nothing, and a plan that stops half way for a
\* name already taken does so only because somebody else made a file of the
\* plan after this run had started: never because of the run's own plan.
FailureIsExplained ==
  \A a \in Runs :
    /\ run[a].outcome \in {"invalid", "previewed", "stale"} => run[a].made = {}
    /\ run[a].outcome = "exists" => run[a].plan \cap others[a] # {}

\* "Created n files" means it: all the files are there, those of the plan as
\* the run wrote them, except what the user has edited or deleted meanwhile.
SuccessIsComplete ==
  [][\A a \in Runs : run[a].pc = "open" /\ run'[a].outcome = "applied" =>
       \A f \in Files \ deleted[a] :
         /\ files[f].kind \notin {"absent", "dangling"}
         /\ f \in run[a].plan => files[f].by = a /\ files[f].kind # "empty"]_vars

\* The check and the creation are not atomic, yet of two runs only one creates
\* a file, unless it was deleted in between.
OneAuthor ==
  \A a, b \in Runs : a # b =>
    run[a].made \cap run[b].made \subseteq deleted[a] \cup deleted[b]

\* Adoption implements its promise: whatever the plan and the first loop saw,
\* and wherever a run stops, a step of adopt makes a file where there is none
\* or fills in the one it has just made.
MadeBy(f) == IF files[f].kind = "absent" THEN "nobody" ELSE files[f].by
Unfilled(a) == IF run[a].pc = "write" THEN run[a].next ELSE 0
Promise == INSTANCE CreateOnly WITH
  Owner   <- "user",
  by      <- [f \in Files |-> MadeBy(f)],
  kind    <- [f \in Files |-> files[f].kind],
  filling <- [a \in Runs |-> Unfilled(a)]
CreatesOnly == Promise!Spec
=============================================================================
