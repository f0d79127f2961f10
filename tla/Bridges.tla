------------------------------ MODULE Bridges ------------------------------
(***************************************************************************)
(* setup_tool_bridges.sh: create a file for every coding tool that points  *)
(* to AGENTS.md.  A file that exists is skipped; with --force it is copied *)
(* to a .bak and overwritten; --clean removes them all.  `set -e` ends the *)
(* script at the first command that fails.                                 *)
(***************************************************************************)
EXTENDS Naturals

CONSTANTS N,             \* bridge files, in the order of the script
          MaxVersions,   \* bound of the model: texts the user writes to one file
          MaxStarts      \* bound of the model: how often the script is started

Paths == 1..N
\* What a file holds: a text of the user's, by its version, or one of these.
Absent == 0
Bridge == MaxVersions + 1
Torn   == MaxVersions + 2
Texts  == 0..MaxVersions + 2
Mine(text) == text \in 1..MaxVersions

VARIABLES
  file, bak,   \* path -> the text there, and the text of its backup
  script,      \* where the script is: [pc, mode, dry, next]
  starts,
  newest,      \* history: path -> the last text the user has written, or 0
  lapses       \* history: path -> what has happened to that text

vars == <<file, bak, script, starts, newest, lapses>>

Modes == {"plain", "force", "clean"}
Lapses == {"copied", "copied twice", "forced", "cleaned", "met", "raced"}
TypeOK ==
  /\ file \in [Paths -> Texts] /\ bak \in [Paths -> Texts]
  /\ script \in [pc : {"idle", "next", "test", "copy", "open", "write", "remove"},
                 mode : Modes, dry : BOOLEAN, next : 1..N + 1]
  /\ starts \in 0..MaxStarts
  /\ newest \in [Paths -> 0..MaxVersions]
  /\ lapses \in [Paths -> SUBSET Lapses]

Idle == [pc |-> "idle", mode |-> "plain", dry |-> FALSE, next |-> 1]
Begins ==
  /\ script = Idle /\ starts = 0
  /\ bak = [p \in Paths |-> Absent]
  /\ lapses = [p \in Paths |-> {}]
Init == Begins /\ newest \in [Paths -> 0..1] /\ file = newest

f == script.next
Goes(pc) == script' = [script EXCEPT !.pc = pc]
NextPath == script' = [script EXCEPT !.pc = "next", !.next = f + 1]
Marks(p, what) == lapses' = [lapses EXCEPT ![p] = @ \cup what]
history == <<starts, newest>>

Start ==
  /\ script.pc = "idle" /\ starts < MaxStarts
  /\ \E mode \in Modes, dry \in BOOLEAN :
       script' = [pc |-> "next", mode |-> mode, dry |-> dry, next |-> 1]
  /\ starts' = starts + 1
  /\ UNCHANGED <<file, bak, newest, lapses>>

Done ==
  /\ script.pc = "next" /\ f > N
  /\ script' = Idle
  /\ UNCHANGED <<file, bak, lapses, history>>

\* The loop of --clean: `[ -f ]`, then rm, which fails where nothing is left.
CleanTest ==
  /\ script.pc = "next" /\ f <= N /\ script.mode = "clean"
  /\ IF file[f] # Absent /\ ~script.dry THEN Goes("remove") ELSE NextPath
  /\ UNCHANGED <<file, bak, lapses, history>>
Remove ==
  /\ script.pc = "remove"
  /\ IF file[f] # Absent
     THEN file' = [file EXCEPT ![f] = Absent] /\ Marks(f, {"cleaned"}) /\ NextPath
     ELSE script' = Idle /\ UNCHANGED <<file, lapses>>
  /\ UNCHANGED <<bak, history>>

Skips_Never(text, mode) == FALSE   \* mutant: every run is a forced one
Skips(text, mode) == text # Absent /\ mode # "force"

\* write_file: skip what exists, or stop at saying what a dry run would do.
FirstTest ==
  /\ script.pc = "next" /\ f <= N /\ script.mode # "clean"
  /\ IF Skips(file[f], script.mode) \/ script.dry THEN NextPath ELSE Goes("test")
  /\ UNCHANGED <<file, bak, lapses, history>>

\* The second `[ -e ]` decides whether there is something to back up.
SecondTest ==
  /\ script.pc = "test"
  /\ Goes(IF file[f] # Absent THEN "copy" ELSE "open")
  /\ UNCHANGED <<file, bak, lapses, history>>

MarksCopy ==
  Marks(f, {IF "copied" \in lapses[f] THEN "copied twice" ELSE "copied"}
             \cup IF script.mode = "force" THEN {"forced"} ELSE {})

\* cp -p replaces an older backup; it fails if the file is gone.
Copied_Later(text, old) == old   \* mutant: the backup is made after the bridge
Copied(text, old) == text
Copy ==
  /\ script.pc = "copy"
  /\ IF file[f] # Absent
     THEN /\ bak' = [bak EXCEPT ![f] = Copied(file[f], bak[f])]
          /\ MarksCopy
          /\ Goes("open")
     ELSE script' = Idle /\ UNCHANGED <<bak, lapses>>
  /\ UNCHANGED <<file, history>>

\* printf > "$path": the shell truncates, printf writes.
Open ==
  /\ script.pc = "open"
  /\ file' = [file EXCEPT ![f] = Torn]
  /\ Goes("write")
  /\ UNCHANGED <<bak, lapses, history>>
Write ==
  /\ script.pc = "write"
  /\ file' = [file EXCEPT ![f] = IF @ = Absent THEN Absent ELSE Bridge]
  /\ NextPath
  /\ UNCHANGED <<bak, lapses, history>>

\* An interrupt, a full disk, or AGENTS.md is not there.
Stop ==
  /\ script.pc # "idle"
  /\ script' = Idle
  /\ \/ UNCHANGED <<bak, lapses>>
     \/ script.pc = "copy" /\ bak' = [bak EXCEPT ![f] = Torn] /\ MarksCopy
  /\ UNCHANGED <<file, history>>

\* The user writes a new text into a file, whatever it holds, or removes it.  A
\* text that comes while the script works on the file meets it; one that comes
\* after the script has decided what to back up races with the write.
UserWrites(p) ==
  /\ newest[p] < MaxVersions
  /\ newest' = [newest EXCEPT ![p] = @ + 1]
  /\ file' = [file EXCEPT ![p] = newest[p] + 1]
  /\ lapses' = [lapses EXCEPT ![p] =
       CASE p = f /\ script.pc \in {"test", "copy"}  -> {"met"}
         [] p = f /\ script.pc \in {"open", "write"} -> {"raced"}
         [] OTHER -> {}]
  /\ UNCHANGED <<bak, script, starts>>
UserRemoves(p) ==
  /\ Mine(file[p])
  /\ file' = [file EXCEPT ![p] = Absent]
  /\ newest' = [newest EXCEPT ![p] = 0]
  /\ lapses' = [lapses EXCEPT ![p] = {}]
  /\ UNCHANGED <<bak, script, starts>>

Next ==
  \/ Start \/ Done \/ CleanTest \/ Remove \/ FirstTest \/ SecondTest
  \/ Copy \/ Open \/ Write \/ Stop
  \/ \E p \in Paths : UserWrites(p) \/ UserRemoves(p)

Spec == Init /\ [][Next]_vars

-----------------------------------------------------------------------------
(* Properties. *)

\* "backup at $path.bak": the user's last text is in the file or in its backup,
\* wherever the script stopped, until --clean removes it, a second overwriting
\* replaces the backup, or the user writes under the script's hands.
\* "Existing files are left alone unless --force": but for such a meeting it
\* is in the file itself until --force or --clean.
UserContentSurvives ==
  \A p \in Paths :
    Mine(newest[p]) =>
      /\ \/ newest[p] \in {file[p], bak[p]}
         \/ lapses[p] \cap {"cleaned", "copied twice", "raced"} # {}
      /\ newest[p] = file[p] \/ lapses[p] \cap {"forced", "cleaned", "met", "raced"} # {}
=============================================================================
