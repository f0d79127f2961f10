---------------------------- MODULE ReferentGate ----------------------------
(***************************************************************************)
(* Gate 3 (scripts/referent_liveness.py) and its external witness          *)
(* (scripts/external_reader.py).                                           *)
(*                                                                         *)
(* The surface is the set of eval tasks and what their verification        *)
(* commands name: script files and make targets.  Authors edit it at any   *)
(* time.  Runs of referent_liveness walk it and either stamp the manifest  *)
(* (--stamp) or compare the manifest and the reader's record with it.  The *)
(* reader is a separate program with its own record.  Both files are       *)
(* written with Path.write_text, which empties the file before it writes:  *)
(* in between, and for ever after a crash there, the file is torn.  The    *)
(* manifest may also be deleted at any time, under an open writer too.     *)
(*                                                                         *)
(* One walk is one step.  Days are the unit of the clock.                  *)
(***************************************************************************)
EXTENDS Integers

CONSTANTS Runs,          \* processes running referent_liveness
          Tasks,         \* names of eval task files
          Scripts,       \* referents of the form `python <path>`
          MakeTargets,   \* referents of the form `make <target>`
          Versions,      \* contents of a script or of a recipe, by hash
          MaxAge,        \* MAX_AGE_DAYS
          Drift,         \* MAX_WITNESS_DRIFT_SECONDS, MAX_DRIFT_SECONDS
          Ahead,         \* what the clock of the reader's host is ahead of the gate's
          MaxTime,       \* bound of the model: the clock
          MaxEdits       \* bound of the model: edits of the surface

Referents == Scripts \cup MakeTargets

ASSUME BoundsAssumption ==
  /\ MaxAge \in Nat /\ Drift \in Nat /\ Ahead \in Nat
  /\ MaxTime \in Nat /\ MaxEdits \in Nat
ASSUME ReferentsAssumption ==
  /\ Scripts \cap MakeTargets = {}
  /\ {"odd", "no task"} \cap Referents = {}
  /\ {"gone", "bare", "none"} \cap Versions = {}

VARIABLES
  tasks,     \* task -> its verification: a referent, "odd", or "no task"
  content,   \* referent -> its version, "gone", or "bare" (no recipe)
  manifest,  \* referent_manifest.json
  stamped,   \* history: the fingerprints of the last complete stamp
  witness,   \* reader_witness.json
  run,       \* the runs of referent_liveness; blind and moved are history
  reader,    \* the run of external_reader
  observed,  \* history: when the reader last saw each map of the tasks
  clock, edits

vars == <<tasks, content, manifest, stamped, witness, run, reader, observed, clock, edits>>
stamps == <<manifest, stamped>>
surface == <<tasks, content, edits>>
readerVars == <<reader, witness, observed>>

Maps == [Tasks -> Referents \cup {"odd", "no task"}]
Fingerprints == [Tasks -> Versions \cup {"none"}]
Times == 0..MaxTime + Ahead

\* A file: absent, torn, or what was last written to it.
Absent == [state |-> "absent"]
Torn   == [state |-> "torn"]
Manifest(at, fps) == [state |-> "ok", at |-> at, fps |-> fps]
Record(at, map)   == [state |-> "ok", at |-> at, map |-> map]

EXIT_OK == 0
EXIT_DEAD_REFERENT == 1
EXIT_STALE_MANIFEST == 2
EXIT_MEASUREMENT_INVALID == 3
EXIT_SEMANTIC_DRIFT == 4
NoExit == -1
Never  == -1

NoTasks == [t \in Tasks |-> "no task"]
NoFingerprints == [t \in Tasks |-> "none"]
\* A run between two walks.  `stamp`: a drift was met with --stamp.  `age`: that
\* of the stamp check_freshness found.  `fd`: the manifest it writes to is its
\* own, is being written by another run too, or is deleted.  History: `blind`,
\* its walk did not compare the surface with the last complete stamp; `moved`,
\* the referents edited since the walk and before it read them again, if it does.
Idle(exit, stamp) ==
  [pc |-> "idle", stamp |-> stamp, exit |-> exit,
   at |-> 0, map |-> NoTasks, fps |-> NoFingerprints,
   age |-> 0, fd |-> "alone", blind |-> FALSE, moved |-> {}]

TypeOK ==
  /\ tasks \in Maps
  /\ content \in [Referents -> Versions \cup {"gone", "bare"}]
  /\ manifest \in {Absent, Torn} \cup
       [state : {"ok"}, at : Times, fps : Fingerprints]
  /\ stamped \in Fingerprints
  /\ witness \in {Absent, Torn} \cup [state : {"ok"}, at : Times, map : Maps]
  /\ run \in [Runs -> [pc : {"idle", "stamp", "write", "fresh", "witness"},
                       stamp : BOOLEAN, exit : -1..4,
                       at : Times, map : Maps, fps : Fingerprints,
                       age : Int, fd : {"alone", "shared", "unlinked"},
                       blind : BOOLEAN, moved : SUBSET Referents]]
  /\ reader \in [pc : {"idle", "write"}, at : Times, map : Maps]
  /\ observed \in [Maps -> Times \cup {Never}]
  /\ clock \in 0..MaxTime
  /\ edits \in 0..MaxEdits

\* A checkout of a healthy repository, before the gate has ever been run.
Init ==
  /\ tasks \in [Tasks -> Referents]
  /\ content \in [Referents -> Versions]
  /\ manifest = Absent
  /\ stamped = NoFingerprints
  /\ witness = Absent
  /\ run = [r \in Runs |-> Idle(NoExit, FALSE)]
  /\ reader = [pc |-> "idle", at |-> 0, map |-> NoTasks]
  /\ observed = [m \in Maps |-> Never]
  /\ clock = 0
  /\ edits = 0

-----------------------------------------------------------------------------
(* Authors and the clock. *)

EditTask(t, v) ==
  /\ edits < MaxEdits
  /\ v # tasks[t]
  /\ tasks' = [tasks EXCEPT ![t] = v]
  /\ edits' = edits + 1
  /\ UNCHANGED <<content, stamps, run, readerVars, clock>>

EditContent(f, c) ==
  /\ edits < MaxEdits
  /\ c # content[f]
  /\ c = "bare" => f \in MakeTargets
  /\ content' = [content EXCEPT ![f] = c]
  /\ run' = [r \in Runs |-> IF run[r].pc \in {"stamp", "fresh", "witness"}
                             THEN [run[r] EXCEPT !.moved = @ \cup {f}] ELSE run[r]]
  /\ edits' = edits + 1
  /\ UNCHANGED <<tasks, stamps, readerVars, clock>>

\* Whoever has the manifest open goes on writing to a file without a name.
DeleteManifest ==
  /\ edits < MaxEdits
  /\ manifest # Absent
  /\ manifest' = Absent
  /\ run' = [r \in Runs |-> IF run[r].pc = "write"
                             THEN [run[r] EXCEPT !.fd = "unlinked"] ELSE run[r]]
  /\ edits' = edits + 1
  /\ UNCHANGED <<tasks, content, stamped, readerVars, clock>>

Tick ==
  /\ clock < MaxTime
  /\ clock' = clock + 1
  /\ UNCHANGED <<surface, stamps, run, readerVars>>

-----------------------------------------------------------------------------
(* external_reader.record: read the tasks, empty the record, write it. *)

ReaderRecords ==
  /\ reader.pc = "idle"
  /\ tasks # NoTasks
  /\ reader' = [pc |-> "write", at |-> clock + Ahead, map |-> tasks]
  /\ witness' = Torn
  /\ observed' = [observed EXCEPT ![tasks] = clock]
  /\ UNCHANGED <<surface, stamps, run, clock>>

ReaderIdle == reader' = [pc |-> "idle", at |-> 0, map |-> NoTasks]

ReaderWrites ==
  /\ reader.pc = "write"
  /\ witness' = Record(reader.at, reader.map)
  /\ ReaderIdle
  /\ UNCHANGED <<surface, stamps, run, observed, clock>>

ReaderCrashes ==
  /\ reader.pc = "write"
  /\ ReaderIdle
  /\ UNCHANGED <<surface, stamps, run, witness, observed, clock>>

-----------------------------------------------------------------------------
(* referent_liveness. *)

\* The content hash of a referent, when the form supports one.
Fingerprint_Raw(v) ==   \* mutant: what cannot be hashed is hashed all the same
  IF v \in Referents THEN content[v] ELSE "none"
Fingerprint(v) ==
  IF v \in Referents /\ content[v] \in Versions THEN content[v] ELSE "none"

\* classify: existence first, then the stored fingerprint if there is one.
\* A make target without a recipe has no live fingerprint and never drifts.
Changed_Never(v, stored) == FALSE   \* mutant: existence is all that is checked
Changed(v, stored) ==
  /\ stored # "none"
  /\ content[v] # stored
  /\ v \in MakeTargets => content[v] # "bare"

Classify(v, stored) ==
  CASE v \notin Referents       -> "REFERENT_MISMATCH"
    [] v \in Referents /\ content[v] = "gone" -> "STALE_OR_DRIFTED"
    [] v \in Referents /\ content[v] # "gone" /\ Changed(v, stored) -> "SEMANTIC_DRIFT"
    [] OTHER                    -> "LIVE"

\* walk: an unreadable manifest is passed over, as if nothing were stamped.
StoredFingerprint(t) == IF manifest.state = "ok" THEN manifest.fps[t] ELSE "none"
Walked == {t \in Tasks : tasks[t] # "no task"}
Statuses == {Classify(tasks[t], StoredFingerprint(t)) : t \in Walked}

Exits(r, code) ==
  run' = [run EXCEPT ![r] = Idle(code, FALSE)]

\* The walk found every referent alive: the run goes on to stamp or to compare.
AllLive(stamp) ==
  [Idle(NoExit, FALSE) EXCEPT
     !.pc = IF stamp THEN "stamp" ELSE "fresh", !.map = tasks,
     !.blind = (manifest.state # "ok")]

\* main up to line 480: the walk, which ends the run unless all are LIVE.
Walk(r, stamp) ==
  LET dead == Statuses \ {"LIVE"}
  IN  /\ run[r].pc = "idle"
      /\ \/ Walked = {} /\ Exits(r, EXIT_MEASUREMENT_INVALID)
         \/ dead = {"SEMANTIC_DRIFT"}
            /\ run' = [run EXCEPT ![r] = Idle(EXIT_SEMANTIC_DRIFT, stamp)]
         \/ dead \notin {{}, {"SEMANTIC_DRIFT"}} /\ Exits(r, EXIT_DEAD_REFERENT)
         \/ Walked # {} /\ dead = {} /\ run' = [run EXCEPT ![r] = AllLive(stamp)]
      /\ UNCHANGED <<surface, stamps, readerVars, clock>>

\* stamp_manifest reads the clock, the Makefile and the scripts afresh, and
\* opens the manifest for writing, perhaps while others have it open.
Writers == {q \in Runs : run[q].pc = "write" /\ run[q].fd # "unlinked"}
StampOpens(r) ==
  LET opened == [run[r] EXCEPT !.pc = "write", !.at = clock,
                               !.fps = [t \in Tasks |-> Fingerprint(run[r].map[t])],
                               !.fd = IF Writers = {} THEN "alone" ELSE "shared"]
  IN  /\ run[r].pc = "stamp"
      /\ run' = [q \in Runs |-> CASE q = r -> opened
                                  [] q # r /\ q \in Writers ->
                                       [run[q] EXCEPT !.fd = "shared"]
                                  [] OTHER -> run[q]]
      /\ manifest' = Torn
      /\ UNCHANGED <<surface, stamped, readerVars, clock>>

\* The write, each writer from the start of the file: over another's text the
\* tail of a longer one may stay, and a deleted file takes it without a trace.
\* A complete stamp is one no other run's walk has compared the surface with.
StampWrites(r) ==
  /\ run[r].pc = "write"
  /\ \/ /\ run[r].fd # "unlinked"
        /\ manifest' = Manifest(run[r].at, run[r].fps) /\ stamped' = run[r].fps
        /\ run' = [q \in Runs |-> CASE q = r -> Idle(EXIT_OK, FALSE)
                                    [] q # r /\ run[q].pc # "idle" ->
                                         [run[q] EXCEPT !.blind = TRUE]
                                    [] OTHER -> run[q]]
     \/ /\ run[r].fd = "shared"
        /\ manifest' = Torn /\ UNCHANGED stamped
        /\ Exits(r, EXIT_OK)
     \/ run[r].fd = "unlinked" /\ UNCHANGED stamps /\ Exits(r, EXIT_OK)
  /\ UNCHANGED <<surface, readerVars, clock>>

\* check_freshness, on the manifest as it is now.
Freshness(r) ==
  /\ run[r].pc = "fresh"
  /\ \/ manifest.state = "torn" /\ Exits(r, EXIT_MEASUREMENT_INVALID)
     \/ manifest.state = "absent" /\ Exits(r, EXIT_STALE_MANIFEST)
     \/ /\ manifest.state = "ok" /\ clock - manifest.at > MaxAge
        /\ Exits(r, EXIT_STALE_MANIFEST)
     \/ /\ manifest.state = "ok" /\ clock - manifest.at <= MaxAge
        /\ run' = [run EXCEPT ![r].pc = "witness", ![r].age = clock - manifest.at]
  /\ UNCHANGED <<surface, stamps, readerVars, clock>>

Distance(a, b) == IF a < b THEN b - a ELSE a - b

\* check_external_witness: the record is recent, close to the stamp if there
\* is a manifest, and its map of the tasks is the one this run walked.
WitnessAgrees_NoMap(map) ==         \* mutant: dates without contents
  /\ witness.state = "ok"
  /\ clock - witness.at <= Drift
  /\ manifest.state = "ok" => Distance(witness.at, manifest.at) <= Drift
WitnessAgrees_NoDistance(map) ==    \* mutant: the stamp's date is not compared
  /\ witness.state = "ok"
  /\ clock - witness.at <= Drift
  /\ witness.map = map
WitnessAgrees(map) ==
  /\ witness.state = "ok"
  /\ clock - witness.at <= Drift
  /\ manifest.state = "ok" => Distance(witness.at, manifest.at) <= Drift
  /\ witness.map = map

\* The rest of main: the manifest is read once more, an absent one as {} without
\* a verified_at, then the record.
Witness(r) ==
  /\ run[r].pc = "witness"
  /\ \/ manifest.state = "torn" /\ Exits(r, EXIT_MEASUREMENT_INVALID)
     \/ /\ manifest.state # "torn"
        /\ Exits(r, IF WitnessAgrees(run[r].map) THEN EXIT_OK ELSE EXIT_STALE_MANIFEST)
  /\ UNCHANGED <<surface, stamps, readerVars, clock>>

RunCrashes(r) ==
  /\ run[r].pc # "idle"
  /\ run' = [run EXCEPT ![r] = Idle(NoExit, FALSE)]
  /\ UNCHANGED <<surface, stamps, readerVars, clock>>

Authors ==
  \/ \E t \in Tasks, v \in Referents \cup {"odd", "no task"} : EditTask(t, v)
  \/ \E f \in Referents, c \in Versions \cup {"gone", "bare"} : EditContent(f, c)
  \/ DeleteManifest
  \/ Tick

Next ==
  \/ Authors
  \/ ReaderRecords \/ ReaderWrites \/ ReaderCrashes
  \/ \E r \in Runs :
       \/ \E stamp \in BOOLEAN : Walk(r, stamp)
       \/ StampOpens(r) \/ StampWrites(r)
       \/ Freshness(r) \/ Witness(r)
       \/ RunCrashes(r)

Spec == Init /\ [][Next]_vars

-----------------------------------------------------------------------------
(* Properties. *)

Passes(r) == run[r].pc = "witness" /\ run'[r].exit = EXIT_OK
Stamps(r) == run[r].pc = "write" /\ run'[r].exit = EXIT_OK

\* A pass rests on a computation of the reader's: the reader itself has read
\* exactly the tasks this run walked, at most Drift ago, whatever the authors,
\* crashes of either program and half-written records did meanwhile.  A record
\* from the future has a negative age and is believed: the limit gives way by
\* as much as the reader's clock is ahead, and no more.
WitnessIsIndependent ==
  [][\A r \in Runs : Passes(r) =>
       LET seen == observed[run[r].map]
       IN  seen # Never /\ clock - seen <= Drift + Ahead]_vars

\* The two-day limits of the witness bound the age of the stamp at a pass by
\* twice that, a far tighter bound than MAX_AGE_DAYS, whatever the reader's
\* clock says.  A manifest that is deleted between the two readings has no date
\* to compare (lines 506 and 359): all that is left is MAX_AGE_DAYS, for the
\* stamp check_freshness read.
StampAgeIsBounded ==
  [][\A r \in Runs : Passes(r) =>
       \/ manifest.state = "ok" /\ clock - manifest.at <= 2 * Drift
       \/ manifest.state = "absent" /\ run[r].age <= MaxAge]_vars

\* What a run says of the content of a task's referent when it ends: a stamp what
\* it has hashed, a pass what is there.  Without a fingerprint (no recipe, or
\* gone by the time it is hashed) it says nothing.
Vouched(r, t) ==
  IF run[r].pc = "write" THEN run[r].fps[t] ELSE content[run[r].map[t]]
Drifted(r, t) ==
  /\ run[r].map[t] \in Referents
  /\ stamped[t] # "none"
  /\ Vouched(r, t) \notin {"none", "bare", stamped[t]}

\* No run stamps, or passes, over content that differs from the last complete
\* stamp, but for two things its walk cannot see: a referent edited after the
\* walk, which a stamp hashes afresh (lines 420-426) and a pass never looks at
\* again; and a stamp its walk did not compare with, because the manifest was
\* torn or gone by then (line 264) or another run completed it later.  Content
\* that stood still since the walk is never blessed unseen.
NoSilentDrift ==
  [][\A r \in Runs : (Passes(r) \/ Stamps(r)) /\ ~run[r].blind =>
       \A t \in Tasks : Drifted(r, t) => run[r].map[t] \in run[r].moved]_vars

\* The advice of lines 474-478 for SEMANTIC_DRIFT: "Update the manifest with
\* --stamp after reviewing the change."  A run with --stamp gives the same exit.
StampClearsDrift ==
  \A r \in Runs : run[r].stamp => run[r].exit # EXIT_SEMANTIC_DRIFT
=============================================================================
