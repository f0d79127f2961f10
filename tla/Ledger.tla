------------------------------- MODULE Ledger -------------------------------
(***************************************************************************)
(* recoupling_harness.py: run the frozen verifier over the planted set and *)
(* append one dated row to a ledger.  The ledger is one JSON file which is *)
(* read, extended in memory and written back, under no lock.  A row is     *)
(* named by the run that wrote it.                                         *)
(***************************************************************************)
EXTENDS FiniteSets, Naturals

CONSTANT Runs   \* runs of the harness, each started once

VARIABLES
  ledger,   \* the file: whether it is there, whether it can be parsed, its rows
  run,      \* run -> where it is, and the rows it has read
  met       \* history: run -> the runs under way at the same time

vars == <<ledger, run, met>>

States == {"absent", "whole", "cut", "mixed"}
File(state, rows) == [state |-> state, rows |-> rows]

TypeOK ==
  /\ ledger \in [state : States, rows : SUBSET Runs]
  /\ ledger.state # "whole" => ledger.rows = {}
  /\ run \in [Runs -> [pc : {"ready", "read", "open", "write", "failed", "killed", "reported"},
                       rows : SUBSET Runs]]
  /\ met \in [Runs -> SUBSET Runs]

Begins ==
  /\ run = [r \in Runs |-> [pc |-> "ready", rows |-> {}]]
  /\ met = [r \in Runs |-> {}]
Init == Begins /\ ledger \in {File("absent", {}), File("whole", {})}

Goes(r, pc, rows) == run' = [run EXCEPT ![r] = [pc |-> pc, rows |-> rows]]

\* main up to the row: a frozen arm that fails raises before anything is read.
Start(r) ==
  /\ run[r].pc = "ready"
  /\ \E pc \in {"read", "failed"} : Goes(r, pc, {})
  /\ UNCHANGED <<ledger, met>>

UnderWay == {r \in Runs : run[r].pc \in {"open", "write"}}
Known_Fresh(r) == {}   \* mutant: `if LEDGER.exists()` is left out
Known(r) == ledger.rows

\* LEDGER.exists and read_text; what cannot be parsed raises.
Read(r) ==
  /\ run[r].pc = "read"
  /\ IF ledger.state \in {"absent", "whole"}
     THEN /\ Goes(r, "open", Known(r) \cup {r})
          /\ met' = [s \in Runs |-> CASE s = r           -> UnderWay
                                      [] s \in UnderWay  -> met[s] \cup {r}
                                      [] OTHER           -> met[s]]
     ELSE Goes(r, "failed", {}) /\ UNCHANGED met
  /\ UNCHANGED ledger

\* write_text truncates the file when it opens it ...
Open(r) ==
  /\ run[r].pc = "open"
  /\ ledger' = File("cut", {})
  /\ Goes(r, "write", run[r].rows)
  /\ UNCHANGED met

\* ... and the text replaces it from the start: over what another run has
\* written since, the end of a text that was longer remains.
Write(r) ==
  /\ run[r].pc = "write"
  /\ \/ ledger' = File("whole", run[r].rows)
     \/ /\ \/ ledger.state = "mixed"
           \/ ledger.state = "whole" /\ Cardinality(ledger.rows) >= Cardinality(run[r].rows)
        /\ ledger' = File("mixed", {})
  /\ Goes(r, "reported", {})
  /\ UNCHANGED met

Kill(r) ==
  /\ run[r].pc \in {"read", "open", "write"}
  /\ Goes(r, "killed", {})
  /\ UNCHANGED <<ledger, met>>

Next == \E r \in Runs : Start(r) \/ Read(r) \/ Open(r) \/ Write(r) \/ Kill(r)

Spec == Init /\ [][Next]_vars

-----------------------------------------------------------------------------
(* Properties. *)

\* "dated row appended": while the ledger can be read, a row that was reported
\* is missing from it only if its run met another one; and the ledger cannot be
\* read only while one run writes, after one was killed, or after two met.
\* Where no two runs meet, the ledger is append-only.
RowsSurvive ==
  /\ ledger.state \in {"absent", "whole"} =>
       \A r \in Runs : run[r].pc = "reported" => r \in ledger.rows \/ met[r] # {}
  /\ ledger.state = "cut" =>
       \E r \in Runs : run[r].pc \in {"write", "killed"}
  /\ ledger.state = "mixed" =>
       \E r \in Runs : run[r].pc = "reported" /\ met[r] # {}
=============================================================================
