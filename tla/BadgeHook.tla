----------------------------- MODULE BadgeHook -----------------------------
(***************************************************************************)
(* sync_readme_badges.py and the pre-commit hook that runs it.  The script *)
(* counts what is in the documents and writes the counts into the badges   *)
(* of README.md, in the working tree; the hook then stages README.md, and  *)
(* git commits the index.  The user works on all of these meanwhile.       *)
(*                                                                         *)
(* A document is its count; README.md is its badges and its other text.    *)
(***************************************************************************)
EXTENDS Naturals

CONSTANTS Docs,       \* the documents that are counted
          Trigger,    \* docs/backlog.md: the one the hook looks at
          Saves,      \* the badges that a README.md may have when an editor saves it
          MaxSteps    \* bound of the model: what the user does to files and index

Counts == 0..1
NoBadge == 2   \* where README.md has none for a document
Badges == [Docs -> Counts \cup {NoBadge}]

ASSUME TriggerAssumption == Trigger \in Docs /\ MaxSteps \in Nat /\ Saves \subseteq Badges

VARIABLES
  tree, index, head,   \* the working tree, the index, the last commit
  pc, mode,            \* the script or hook that runs
  seen,                \* its counts
  text,                \* README.md as it has read it
  steps,
  latest, lapsed,      \* history: the last text the user gave README.md, and
                       \* whether it met the script's write or that was cut off
  changed,             \* history: documents whose badge the user has changed since
                       \* the hook wrote it
  excused              \* history: documents whose badge may be wrong in head

histories == <<latest, lapsed, changed, excused>>
vars == <<tree, index, head, pc, mode, seen, text, steps, histories>>

Readme(badges, prose) == [badges |-> badges, prose |-> prose]
Torn == Readme([d \in Docs |-> NoBadge], 0)
Readmes == [badges : Badges, prose : 0..MaxSteps + 1]
Snapshots == [docs : [Docs -> Counts], readme : Readmes]

TypeOK ==
  /\ tree \in Snapshots /\ index \in Snapshots /\ head \in Snapshots
  /\ pc \in {"idle", "test", "read", "readme", "open", "write", "add", "commit"}
  /\ mode \in {"hook", "fix", "check"}
  /\ mode = "check" => pc \in {"idle", "read", "readme"}
  /\ seen \in Badges /\ text \in Readmes
  /\ steps \in 0..MaxSteps /\ latest \in 0..MaxSteps + 1
  /\ lapsed \in BOOLEAN
  /\ changed \in SUBSET Docs /\ excused \in SUBSET Docs

Unread == [d \in Docs |-> NoBadge]
Begins ==
  /\ index = tree /\ head = tree
  /\ pc = "idle" /\ mode = "hook" /\ seen = Unread /\ text = Torn
  /\ steps = 0 /\ latest = 1 /\ lapsed = FALSE /\ changed = {}
  /\ excused = {d \in Docs : tree.readme.badges[d] # tree.docs[d]}
Init ==
  /\ \E docs \in [Docs -> Counts], badges \in Badges :
       /\ \A d \in Docs : badges[d] \in {docs[d], NoBadge}
       /\ tree = [docs |-> docs, readme |-> Readme(badges, 1)]
  /\ Begins

-----------------------------------------------------------------------------
(* The user: an editor, git add, git checkout. *)

Works == steps < MaxSteps /\ steps' = steps + 1
running == <<pc, mode, seen, text>>

EditDoc(d) ==
  /\ Works
  /\ \E n \in Counts : n # tree.docs[d] /\ tree' = [tree EXCEPT !.docs[d] = n]
  /\ UNCHANGED <<index, head, running, histories>>

\* README.md is replaced as a whole, badges and text, at any time: by what an
\* editor saves, the buffer it has had since before the script ran included, or
\* by git checkout.
Replaces(readme) ==
  /\ tree' = [tree EXCEPT !.readme = readme]
  /\ latest' = readme.prose
  /\ lapsed' = (pc \in {"open", "write"})
  /\ changed' = IF pc \in {"add", "commit"}
                THEN changed \cup {d \in Docs : readme.badges[d] # seen[d]}
                ELSE changed
  /\ UNCHANGED <<index, head, running, excused>>

EditReadme == Works /\ \E badges \in Saves : Replaces(Readme(badges, steps + 2))
Restore == Works /\ Replaces(index.readme)

Stage ==
  /\ Works
  /\ \/ \E d \in Docs : index' = [index EXCEPT !.docs[d] = tree.docs[d]]
     \/ index' = [index EXCEPT !.readme = tree.readme]
  /\ UNCHANGED <<tree, head, running, histories>>

User == (\E d \in Docs : EditDoc(d)) \/ EditReadme \/ Stage \/ Restore

-----------------------------------------------------------------------------
(* The script and the hook. *)

\* git commit, make sync-badges or make check-badges is called.
Call ==
  /\ pc = "idle"
  /\ \/ index # head /\ mode' = "hook" /\ pc' = "test"
     \/ mode' \in {"fix", "check"} /\ pc' = "read"
  /\ seen' = Unread
  /\ UNCHANGED <<tree, index, head, text, steps, histories>>

\* git diff --cached: the hook runs the script if the backlog is staged.
Test ==
  /\ pc = "test"
  /\ pc' = IF index.docs[Trigger] # head.docs[Trigger] THEN "read" ELSE "commit"
  /\ UNCHANGED <<tree, index, head, mode, seen, text, steps, histories>>

\* The documents are read one after another, in the working tree.
ReadDoc ==
  /\ pc = "read"
  /\ \E d \in Docs : seen[d] = NoBadge /\ seen' = [seen EXCEPT ![d] = tree.docs[d]]
  /\ pc' = IF \E d \in Docs : seen'[d] = NoBadge THEN "read" ELSE "readme"
  /\ UNCHANGED <<tree, index, head, mode, text, steps, histories>>

\* A badge that is missing ends the script with 1 before anything is written,
\* and with `set -e` the hook and the commit.
Corrected_First(badges) ==   \* mutant: only the first badge is brought up to date
  [badges EXCEPT ![Trigger] = seen[Trigger]]
Corrected(badges) == seen
Stops_IfMissing(missing) == missing   \* mutant: --check is not looked at
Stops(missing) == missing \/ mode = "check"
ReadReadme ==
  LET missing == \E d \in Docs : tree.readme.badges[d] = NoBadge
  IN  /\ pc = "readme"
      /\ text' = Readme(Corrected(tree.readme.badges), tree.readme.prose)
      /\ pc' = IF Stops(missing) THEN "idle" ELSE "open"
      /\ UNCHANGED <<tree, index, head, mode, seen, steps, histories>>

\* README.md is written even if nothing has changed, and is empty meanwhile.
Open ==
  /\ pc = "open" /\ pc' = "write"
  /\ tree' = [tree EXCEPT !.readme = Torn]
  /\ UNCHANGED <<index, head, mode, seen, text, steps, histories>>

\* The text goes in front of whatever was saved meanwhile, of which a tail stays
\* where that was longer.
Write ==
  /\ pc = "write" /\ pc' = IF mode = "hook" THEN "add" ELSE "idle"
  /\ \/ tree' = [tree EXCEPT !.readme = text]
     \/ tree.readme # Torn /\ tree' = [tree EXCEPT !.readme = Readme(text.badges, 0)]
  /\ changed' = {}
  /\ UNCHANGED <<index, head, mode, seen, text, steps, latest, lapsed, excused>>

\* git add README.md
Added_Not(readme) == index.readme   \* mutant: the README is not staged again
Added(readme) == readme
Add ==
  /\ pc = "add" /\ pc' = "commit"
  /\ index' = [index EXCEPT !.readme = Added(tree.readme)]
  /\ UNCHANGED <<tree, head, mode, seen, text, steps, histories>>

\* git commits the index as it now is.  A badge may be wrong in it for a document
\* of which the hook has read another text than the one staged, and for one whose
\* badge the user has changed since; and, where the hook did not run the script,
\* for one that changes, or whose badge changes, as well.
Differs(d) ==
  \/ index.docs[d] # head.docs[d]
  \/ index.readme.badges[d] # head.readme.badges[d]
Commit ==
  /\ pc = "commit" /\ pc' = "idle"
  /\ head' = index
  /\ excused' = IF seen = Unread THEN excused \cup {d \in Docs : Differs(d)}
                ELSE changed \cup {d \in Docs : seen[d] # index.docs[d]}
  /\ UNCHANGED <<tree, index, mode, seen, text, steps, latest, lapsed, changed>>

\* An interrupt ends the script, and with it the hook and the commit.
Kill ==
  /\ pc # "idle" /\ pc' = "idle"
  /\ lapsed' = (lapsed \/ pc = "write")
  /\ UNCHANGED <<tree, index, head, mode, seen, text, steps, latest, changed, excused>>

Next ==
  \/ User \/ Call \/ Test \/ ReadDoc \/ ReadReadme \/ Open \/ Write
  \/ Add \/ Commit \/ Kill

Spec == Init /\ [][Next]_vars

-----------------------------------------------------------------------------
(* Properties. *)

\* What is committed agrees with itself: a badge of the commit says what the
\* document of the commit says, although the hook counts in the working tree
\* and the commit holds the index, unless the two differed for that document
\* when it was read, the user put another badge there between the script's write
\* and the commit, or the commit was one the hook lets pass.
CommitInSync ==
  \A d \in Docs \ excused : head.readme.badges[d] = head.docs[d]

\* The script changes badges only: the user's last text of README.md is there,
\* unless it was saved after the script had read the file, or while README.md
\* is written, or the script was killed in doing so.
ReadmeTextSurvives ==
  tree.readme.prose = latest \/ pc = "write" \/ lapsed
=============================================================================
