----------------------------- MODULE CreateOnly -----------------------------
(***************************************************************************)
(* What adoption promises the owner of a repository, whatever it plans and *)
(* checks before: a run makes a file only where there is none, fills in    *)
(* the file it has just made, and touches nothing else.                    *)
(***************************************************************************)
CONSTANTS Runs, Files, Owner

VARIABLES
  by,        \* file -> who made the file that is there, or Nobody
  kind,      \* file -> what it is
  filling    \* run -> the file it has made and not yet filled, if any

vars == <<by, kind, filling>>

Nobody == "nobody"
NoFile == 0

Init ==
  /\ by \in [Files -> {Owner, Nobody}]
  /\ kind \in [Files -> {"absent", "dangling", "text"}]
  /\ \A f \in Files : by[f] = Nobody <=> kind[f] = "absent"
  /\ filling = [a \in Runs |-> NoFile]

\* The owner may do anything to a file, but not make it a run's.
OwnerActs(f) ==
  /\ \E who \in {Owner, Nobody, by[f]} : by' = [by EXCEPT ![f] = who]
  /\ \E k \in {"absent", "dangling", "text"} :
       /\ kind' = [kind EXCEPT ![f] = k]
       /\ k = "absent" <=> by'[f] = Nobody
  /\ UNCHANGED filling

Make(a, f) ==
  /\ by[f] = Nobody /\ filling[a] = NoFile
  /\ by' = [by EXCEPT ![f] = a]
  /\ kind' = [kind EXCEPT ![f] = "empty"]
  /\ filling' = [filling EXCEPT ![a] = f]

\* What is written goes to the file that was made, if it is still there.
Fill(a, f) ==
  /\ filling[a] = f
  /\ kind' = [kind EXCEPT ![f] = IF by[f] = a THEN "generated" ELSE kind[f]]
  /\ filling' = [filling EXCEPT ![a] = NoFile]
  /\ UNCHANGED by

GiveUp(a) ==
  /\ filling' = [filling EXCEPT ![a] = NoFile]
  /\ UNCHANGED <<by, kind>>

Next ==
  \/ \E f \in Files : OwnerActs(f)
  \/ \E a \in Runs : GiveUp(a) \/ \E f \in Files : Make(a, f) \/ Fill(a, f)

Spec == Init /\ [][Next]_vars
=============================================================================
