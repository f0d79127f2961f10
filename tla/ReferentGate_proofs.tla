------------------------ MODULE ReferentGate_proofs -------------------------
(***************************************************************************)
(* What a pass of gate 3 rests on, for any number of runs, tasks and       *)
(* referents and any limits.                                               *)
(***************************************************************************)
EXTENDS ReferentGate, TLAPS

\* A record the reader has made, or is writing, was made of what it saw.
Seen(at, map) == observed[map] # Never /\ at <= observed[map] + Ahead

RecordIsSeen ==
  /\ witness.state = "ok" => Seen(witness.at, witness.map)
  /\ reader.pc = "write" => Seen(reader.at, reader.map)

\* Nothing the reader has seen lies in the future, and what it has recorded
\* only by as much as its clock is ahead.
NothingIsAhead ==
  /\ \A m \in Maps : observed[m] <= clock
  /\ witness.state = "ok" => witness.at <= clock + Ahead
  /\ reader.at <= clock + Ahead

\* A run under way has no exit code yet, and one past check_freshness has found
\* a stamp within MAX_AGE_DAYS.
Pcs == {"idle", "stamp", "write", "fresh", "witness"}
RunTypes == [pc : Pcs, stamp : BOOLEAN, exit : -1..4, at : Times, map : Maps,
             fps : Fingerprints, age : Int,
             fd : {"alone", "shared", "unlinked"},
             blind : BOOLEAN, moved : SUBSET Referents]
RunStates == {s \in RunTypes : /\ s.pc # "idle" => s.exit = NoExit
                               /\ s.pc = "witness" => s.age <= MaxAge}

IInv == TypeOK /\ run \in [Runs -> RunStates] /\ RecordIsSeen /\ NothingIsAhead

\* What a finished or crashed run leaves behind is a run state.
LEMMA IdleType ==
  ASSUME NEW c \in -1..4, NEW s \in BOOLEAN
  PROVE  Idle(c, s) \in RunStates
<1>1. Idle(c, s) \in RunTypes
  BY BoundsAssumption
     DEF Idle, RunTypes, Pcs, Times, NoTasks, NoFingerprints, Maps, Fingerprints
<1>2. Idle(c, s).pc = "idle"
  BY DEF Idle
<1> QED BY <1>1, <1>2 DEF RunStates

LEMMA InitIInv == Init => IInv
<1> SUFFICES ASSUME Init PROVE IInv
  OBVIOUS
<1>1. NoExit \in -1..4 /\ 0 \in Times /\ Never \in Times \cup {Never}
  BY BoundsAssumption DEF NoExit, Times
<1>2. Idle(NoExit, FALSE) \in RunStates
  BY <1>1, IdleType
<1>3. run \in [Runs -> RunStates]
  BY <1>2 DEF Init
<1>4. tasks \in Maps /\ NoTasks \in Maps
  BY DEF Init, Maps, NoTasks
<1>5. observed \in [Maps -> Times \cup {Never}]
  BY <1>1 DEF Init
<1>6. content \in [Referents -> Versions \cup {"gone", "bare"}]
  BY DEF Init
<1>7. clock \in 0..MaxTime /\ edits \in 0..MaxEdits
  BY <1>1, BoundsAssumption DEF Init
<1>8. stamped \in Fingerprints
  BY DEF Init, Fingerprints, NoFingerprints
<1>9. TypeOK
  BY <1>1, <1>3, <1>4, <1>5, <1>6, <1>7, <1>8 DEF Init, TypeOK, RunStates, RunTypes, Pcs
<1>10. RecordIsSeen /\ NothingIsAhead
  BY <1>1, BoundsAssumption DEF Init, RecordIsSeen, NothingIsAhead, Absent, Never
<1> QED BY <1>3, <1>9, <1>10 DEF IInv

\* Every step of a run keeps the runs well typed.
LEMMA RunType ==
  ASSUME IInv, NEW r \in Runs, NEW s \in RunStates,
         run' = [run EXCEPT ![r] = s]
  PROVE  run' \in [Runs -> RunStates]
BY DEF IInv

LEMMA ExitsType ==
  ASSUME IInv, NEW r \in Runs, NEW c \in -1..4, Exits(r, c)
  PROVE  run' \in [Runs -> RunStates]
BY IdleType, RunType DEF Exits

\* The conjuncts a step of a run, an author or the clock leaves alone.
LEMMA ReaderUntouched ==
  ASSUME IInv, UNCHANGED readerVars, clock' \in 0..MaxTime, clock \in 0..MaxTime, clock <= clock'
  PROVE  /\ RecordIsSeen' /\ NothingIsAhead'
         /\ reader' \in [pc : {"idle", "write"}, at : Times, map : Maps]
         /\ witness' \in {Absent, Torn} \cup [state : {"ok"}, at : Times, map : Maps]
         /\ observed' \in [Maps -> Times \cup {Never}]
<1>1. /\ reader' = reader /\ witness' = witness /\ observed' = observed
      /\ TypeOK /\ RecordIsSeen /\ NothingIsAhead
  BY DEF IInv, readerVars
<1>2. RecordIsSeen'
  BY <1>1 DEF RecordIsSeen, Seen
<1>3. /\ clock \in Int /\ clock' \in Int /\ reader.at \in Int /\ Ahead \in Int
      /\ \A m \in Maps : observed[m] \in Int
      /\ witness.state = "ok" => witness.at \in Int
  BY <1>1, BoundsAssumption DEF TypeOK, Times, Never, Absent, Torn
<1>4. NothingIsAhead'
  BY <1>1, <1>3 DEF NothingIsAhead
<1> QED BY <1>1, <1>2, <1>4 DEF TypeOK

\* The arithmetic the clock and the edits need.
LEMMA Numbers ==
  ASSUME IInv
  PROVE  /\ clock \in Int /\ 0 <= clock /\ clock <= MaxTime /\ MaxTime \in Int
         /\ clock \in 0..MaxTime /\ clock \in Times /\ clock + Ahead \in Times
         /\ edits \in Int /\ 0 <= edits /\ edits <= MaxEdits /\ MaxEdits \in Int
         /\ \A m \in Maps : observed[m] \in Int
         /\ NoTasks \in Maps /\ 0 \in Times
<1>1. clock \in 0..MaxTime /\ edits \in 0..MaxEdits /\ observed \in [Maps -> Times \cup {Never}]
  BY Zenon DEF IInv, TypeOK
<1>2. \A m \in Maps : observed[m] \in Times \cup {Never}
  BY <1>1
<1>3. NoTasks \in Maps
  BY DEF NoTasks, Maps
<1> QED BY <1>1, <1>2, <1>3, BoundsAssumption DEF Times, Never

LEMMA AuthorsIInv ==
  ASSUME IInv, Authors
  PROVE  IInv'
<1>1. /\ clock \in Int /\ MaxTime \in Int /\ 0 <= clock
      /\ edits \in Int /\ MaxEdits \in Int /\ 0 <= edits
  BY Numbers
<1>2. clock \in 0..MaxTime /\ clock <= clock
  <2>1. clock \in 0..MaxTime
    BY Zenon DEF IInv, TypeOK
  <2> QED BY <1>1, <2>1
<1>3. TypeOK /\ run \in [Runs -> RunStates]
  BY DEF IInv
<1>4. edits < MaxEdits /\ edits' = edits + 1 => edits' \in 0..MaxEdits
  BY <1>1
<1>5. ASSUME NEW t \in Tasks, NEW v \in Referents \cup {"odd", "no task"},
             EditTask(t, v)
      PROVE  IInv'
  <2>1. tasks' \in Maps
    BY <1>5 DEF EditTask, IInv, TypeOK, Maps
  <2>2. edits' \in 0..MaxEdits
    BY Zenon, <1>5, <1>4 DEF EditTask
  <2>3. UNCHANGED <<content, stamps, run, readerVars, clock>>
    BY <1>5 DEF EditTask
  <2>4. RecordIsSeen' /\ NothingIsAhead' /\ run' \in [Runs -> RunStates]
    BY <1>2, <1>3, <2>3, ReaderUntouched
  <2>5. TypeOK'
    BY <1>2, <1>3, <2>1, <2>2, <2>3, ReaderUntouched DEF TypeOK, stamps
  <2> QED BY <2>4, <2>5 DEF IInv
<1>6. ASSUME NEW f \in Referents, NEW c \in Versions \cup {"gone", "bare"},
             EditContent(f, c)
      PROVE  IInv'
  <2>1. content' \in [Referents -> Versions \cup {"gone", "bare"}]
    BY <1>6 DEF EditContent, IInv, TypeOK
  <2>2. edits' \in 0..MaxEdits
    BY Zenon, <1>6, <1>4 DEF EditContent
  <2>3. UNCHANGED <<tasks, stamps, readerVars, clock>>
    BY <1>6 DEF EditContent
  <2>4. RecordIsSeen' /\ NothingIsAhead'
    BY <1>2, <1>3, <2>3, ReaderUntouched
  <2>5. run' \in [Runs -> RunStates]
    <3>1. \A r \in Runs : [run[r] EXCEPT !.moved = @ \cup {f}] \in RunStates
      BY <1>3 DEF RunStates, RunTypes
    <3> QED BY <1>3, <1>6, <3>1 DEF EditContent
  <2>6. TypeOK'
    BY <1>2, <1>3, <2>1, <2>2, <2>3, <2>5, ReaderUntouched
       DEF TypeOK, stamps, RunStates, RunTypes, Pcs
  <2> QED BY <2>4, <2>5, <2>6 DEF IInv
<1>8. CASE DeleteManifest
  <2>1. manifest' = Absent /\ UNCHANGED <<tasks, content, stamped, readerVars, clock>>
    BY <1>8 DEF DeleteManifest
  <2>2. edits' \in 0..MaxEdits
    BY Zenon, <1>8, <1>4 DEF DeleteManifest
  <2>3. RecordIsSeen' /\ NothingIsAhead'
    BY <1>2, <1>3, <2>1, ReaderUntouched
  <2>4. run' \in [Runs -> RunStates]
    <3>1. \A r \in Runs : [run[r] EXCEPT !.fd = "unlinked"] \in RunStates
      BY <1>3 DEF RunStates, RunTypes
    <3> QED BY <1>3, <1>8, <3>1 DEF DeleteManifest
  <2>5. TypeOK'
    BY <1>2, <1>3, <2>1, <2>2, <2>4, ReaderUntouched
       DEF TypeOK, RunStates, RunTypes, Pcs
  <2> QED BY <2>3, <2>4, <2>5 DEF IInv
<1>7. CASE Tick
  <2>1. clock' \in 0..MaxTime /\ clock <= clock'
    <3>1. clock < MaxTime /\ clock' = clock + 1
      BY <1>7 DEF Tick
    <3> QED BY <1>1, <3>1 DEF Times
  <2>2. UNCHANGED <<surface, stamps, run, readerVars>>
    BY <1>7 DEF Tick
  <2>3. RecordIsSeen' /\ NothingIsAhead' /\ run' \in [Runs -> RunStates]
    BY <1>2, <1>3, <2>1, <2>2, ReaderUntouched
  <2>4. TypeOK'
    BY <1>2, <1>3, <2>1, <2>2, ReaderUntouched DEF TypeOK, surface, stamps
  <2> QED BY <2>3, <2>4 DEF IInv
<1> QED BY Zenon, <1>5, <1>6, <1>7, <1>8 DEF Authors

\* The reader: what it writes is what it has just seen, and seeing the same
\* tasks again only moves the time of a map forward.
LEMMA ReaderIInv ==
  ASSUME IInv, ReaderRecords \/ ReaderWrites \/ ReaderCrashes
  PROVE  IInv'
<1>1. /\ clock \in Int /\ 0 <= clock /\ NoTasks \in Maps /\ 0 \in Times
      /\ clock \in 0..MaxTime /\ clock \in Times /\ clock + Ahead \in Times
      /\ Ahead \in Int /\ 0 <= Ahead
      /\ \A m \in Maps : observed[m] \in Int
  BY Numbers, BoundsAssumption
<1>2. run' \in [Runs -> RunStates]
  BY DEF ReaderRecords, ReaderWrites, ReaderCrashes, IInv
<1>3. CASE ReaderRecords
  <2>1. tasks \in Maps /\ clock \in Times /\ observed \in [Maps -> Times \cup {Never}]
    BY <1>1 DEF IInv, TypeOK
  <2>2. observed' \in [Maps -> Times \cup {Never}]
    BY <1>3, <2>1 DEF ReaderRecords
  <2>3. \A m \in Maps : observed'[m] <= clock
    BY <1>1, <1>3, <2>1 DEF ReaderRecords, IInv, NothingIsAhead
  <2>4. observed'[tasks] = clock /\ clock # Never
    BY <1>1, <1>3, <2>1 DEF ReaderRecords, Never
  <2>5. reader' = [pc |-> "write", at |-> clock + Ahead, map |-> tasks] /\ witness' = Torn
        /\ clock' = clock
    BY <1>3 DEF ReaderRecords
  <2>7. RecordIsSeen' /\ NothingIsAhead'
    BY <1>1, <2>3, <2>4, <2>5 DEF RecordIsSeen, Seen, NothingIsAhead, Torn
  <2>6. TypeOK'
    BY <1>1, <1>3, <2>1, <2>2 DEF ReaderRecords, IInv, TypeOK, surface, stamps
  <2> QED BY <1>2, <2>7, <2>6 DEF IInv
<1>4. CASE ReaderWrites
  <2>1. reader.at \in Times /\ reader.map \in Maps
    BY DEF IInv, TypeOK
  <2>2. TypeOK'
    BY <1>1, <1>4, <2>1 DEF ReaderWrites, ReaderIdle, Record, IInv, TypeOK, surface, stamps
  <2>3. RecordIsSeen' /\ NothingIsAhead'
    BY <1>1, <1>4 DEF ReaderWrites, ReaderIdle, Record, IInv, RecordIsSeen, Seen,
                      NothingIsAhead
  <2> QED BY <1>2, <2>2, <2>3 DEF IInv
<1>5. CASE ReaderCrashes
  <2>1. TypeOK'
    BY <1>1, <1>5 DEF ReaderCrashes, ReaderIdle, IInv, TypeOK, surface, stamps
  <2>2. RecordIsSeen' /\ NothingIsAhead'
    BY <1>1, <1>5 DEF ReaderCrashes, ReaderIdle, IInv, RecordIsSeen, Seen,
                      NothingIsAhead
  <2> QED BY <1>2, <2>1, <2>2 DEF IInv
<1> QED BY <1>3, <1>4, <1>5

\* A live fingerprint is a version or none.
LEMMA FingerprintType ==
  ASSUME IInv, NEW map \in Maps
  PROVE  [t \in Tasks |-> Fingerprint(map[t])] \in Fingerprints
BY DEF Fingerprint, Fingerprints

LEMMA WalkType ==
  ASSUME IInv, NEW r \in Runs, NEW stamp \in BOOLEAN, Walk(r, stamp)
  PROVE  run' \in [Runs -> RunStates]
<1>1. AllLive(stamp) \in RunStates
  <2>1. NoExit \in -1..4
    BY DEF NoExit
  <2>2. Idle(NoExit, FALSE) \in RunStates
    BY <2>1, IdleType
  <2>3. tasks \in Maps
    BY Zenon DEF IInv, TypeOK
  <2>4. (manifest.state # "ok") \in BOOLEAN
    OBVIOUS
  <2> QED BY <2>2, <2>3, <2>4 DEF AllLive, Idle, RunStates, RunTypes, Pcs
<1>2. Idle(EXIT_SEMANTIC_DRIFT, stamp) \in RunStates
  <2>1. EXIT_SEMANTIC_DRIFT \in -1..4
    BY DEF EXIT_SEMANTIC_DRIFT
  <2> QED BY <2>1, IdleType
<1>3. EXIT_MEASUREMENT_INVALID \in -1..4 /\ EXIT_DEAD_REFERENT \in -1..4
  BY DEF EXIT_MEASUREMENT_INVALID, EXIT_DEAD_REFERENT
<1>4. \/ Exits(r, EXIT_MEASUREMENT_INVALID) \/ Exits(r, EXIT_DEAD_REFERENT)
      \/ run' = [run EXCEPT ![r] = Idle(EXIT_SEMANTIC_DRIFT, stamp)]
      \/ run' = [run EXCEPT ![r] = AllLive(stamp)]
  BY Zenon DEF Walk
<1> QED BY Zenon, <1>1, <1>2, <1>3, <1>4, ExitsType, RunType

\* A step of a run of the gate.
LEMMA GateIInv ==
  ASSUME IInv, NEW r \in Runs,
         \/ \E stamp \in BOOLEAN : Walk(r, stamp)
         \/ StampOpens(r) \/ StampWrites(r)
         \/ Freshness(r) \/ Witness(r)
         \/ RunCrashes(r)
  PROVE  IInv'
<1>1. UNCHANGED <<surface, readerVars, clock>>
  BY DEF Walk, StampOpens, StampWrites, Freshness, Witness, RunCrashes
<1>2. clock \in 0..MaxTime /\ clock <= clock
  BY Numbers DEF Times
<1>3. \A c \in -1..4 : Exits(r, c) => run' \in [Runs -> RunStates]
  BY ExitsType
<1>4. run[r] \in RunStates /\ run \in [Runs -> RunStates]
  BY DEF IInv
<1>5. run' \in [Runs -> RunStates]
  <2>1. CASE \E stamp \in BOOLEAN : Walk(r, stamp)
    BY <2>1, WalkType
  <2>2. CASE StampOpens(r)
    <3>1. run[r].map \in Maps
      BY <1>4 DEF RunStates, RunTypes
    <3>2. [t \in Tasks |-> Fingerprint(run[r].map[t])] \in Fingerprints
      BY <3>1, FingerprintType
    <3> DEFINE opened == [run[r] EXCEPT !.pc = "write", !.at = clock,
                            !.fps = [t \in Tasks |-> Fingerprint(run[r].map[t])],
                            !.fd = IF Writers = {} THEN "alone" ELSE "shared"]
    <3>3. opened \in RunStates
      BY <2>2, <1>2, Numbers, <1>4, <3>2 DEF StampOpens, RunStates, RunTypes, Pcs
    <3>4. \A q \in Runs : [run[q] EXCEPT !.fd = "shared"] \in RunStates
      BY <1>4 DEF RunStates, RunTypes
    <3>5. run' = [q \in Runs |-> CASE q = r -> opened
                                  [] q # r /\ q \in Writers ->
                                       [run[q] EXCEPT !.fd = "shared"]
                                  [] OTHER -> run[q]]
      BY <2>2 DEF StampOpens
    <3> HIDE DEF opened
    <3> QED BY <1>4, <3>3, <3>4, <3>5
  <2>3. CASE StampWrites(r)
    <3>1. EXIT_OK \in -1..4
      BY DEF EXIT_OK
    <3>2. Idle(EXIT_OK, FALSE) \in RunStates
      BY <3>1, IdleType
    <3>3. \A q \in Runs : [run[q] EXCEPT !.blind = TRUE] \in RunStates
      BY <1>4 DEF RunStates, RunTypes
    <3>4. \/ Exits(r, EXIT_OK)
          \/ run' = [q \in Runs |-> CASE q = r -> Idle(EXIT_OK, FALSE)
                                       [] q # r /\ run[q].pc # "idle" ->
                                            [run[q] EXCEPT !.blind = TRUE]
                                       [] OTHER -> run[q]]
      BY Zenon, <2>3 DEF StampWrites
    <3> QED BY <1>3, <1>4, <3>1, <3>2, <3>3, <3>4
  <2>4. CASE Freshness(r)
    <3> DEFINE found == [run[r] EXCEPT !.pc = "witness", !.age = clock - manifest.at]
    <3>1. ASSUME manifest.state = "ok", clock - manifest.at <= MaxAge
          PROVE  found \in RunStates
      <4>1. manifest.at \in Int /\ clock \in Int
        BY <3>1, Numbers DEF IInv, TypeOK, Absent, Torn, Times
      <4>2. clock - manifest.at \in Int
        BY <4>1
      <4>3. run[r].pc = "fresh" /\ run[r].exit = NoExit /\ run[r] \in RunTypes
        BY <2>4, <1>4 DEF Freshness, RunStates
      <4>4. found \in RunTypes /\ found.exit = NoExit /\ found.age = clock - manifest.at
        BY <4>2, <4>3 DEF RunTypes, Pcs
      <4> QED BY <3>1, <4>4 DEF RunStates
    <3>2. \/ Exits(r, EXIT_MEASUREMENT_INVALID) \/ Exits(r, EXIT_STALE_MANIFEST)
          \/ /\ manifest.state = "ok" /\ clock - manifest.at <= MaxAge
             /\ run' = [run EXCEPT ![r] = found]
      BY <2>4, <1>4 DEF Freshness
    <3> HIDE DEF found
    <3> QED BY <1>3, <3>1, <3>2, RunType
       DEF EXIT_MEASUREMENT_INVALID, EXIT_STALE_MANIFEST
  <2>5. CASE Witness(r)
    BY <2>5, <1>3 DEF Witness, EXIT_MEASUREMENT_INVALID, EXIT_STALE_MANIFEST, EXIT_OK
  <2>6. CASE RunCrashes(r)
    <3>1. NoExit \in -1..4
      BY DEF NoExit
    <3>2. Idle(NoExit, FALSE) \in RunStates
      BY <3>1, IdleType
    <3> QED BY <2>6, <3>2, RunType DEF RunCrashes
  <2> QED BY <2>1, <2>2, <2>3, <2>4, <2>5, <2>6
<1>6. manifest' \in {Absent, Torn} \cup [state : {"ok"}, at : Times, fps : Fingerprints]
  <2>1. manifest \in {Absent, Torn} \cup [state : {"ok"}, at : Times, fps : Fingerprints]
    BY DEF IInv, TypeOK
  <2>2. \/ manifest' = manifest \/ manifest' = Torn
        \/ manifest' = Manifest(run[r].at, run[r].fps)
    BY DEF Walk, StampOpens, StampWrites, Freshness, Witness, RunCrashes, stamps
  <2>3. Manifest(run[r].at, run[r].fps) \in [state : {"ok"}, at : Times, fps : Fingerprints]
    BY <1>4 DEF Manifest, RunStates, RunTypes
  <2> QED BY <2>1, <2>2, <2>3
<1>7. stamped' \in Fingerprints
  <2>1. stamped \in Fingerprints
    BY DEF IInv, TypeOK
  <2>2. stamped' = stamped \/ stamped' = run[r].fps
    BY DEF Walk, StampOpens, StampWrites, Freshness, Witness, RunCrashes, stamps
  <2> QED BY <1>4, <2>1, <2>2 DEF RunStates, RunTypes
<1> QED
  BY <1>1, <1>2, <1>5, <1>6, <1>7, ReaderUntouched
     DEF IInv, TypeOK, RunStates, RunTypes, Pcs, surface

LEMMA NextIInv == ASSUME IInv, [Next]_vars PROVE IInv'
<1>1. CASE Authors
  BY <1>1, AuthorsIInv
<1>2. CASE ReaderRecords \/ ReaderWrites \/ ReaderCrashes
  BY <1>2, ReaderIInv
<1>3. ASSUME NEW r \in Runs,
             \/ \E stamp \in BOOLEAN : Walk(r, stamp)
             \/ StampOpens(r) \/ StampWrites(r)
             \/ Freshness(r) \/ Witness(r)
             \/ RunCrashes(r)
      PROVE  IInv'
  BY <1>3, GateIInv
<1>4. CASE UNCHANGED vars
  <2>1. clock \in 0..MaxTime /\ clock <= clock
    BY Numbers DEF Times
  <2>2. UNCHANGED <<tasks, content, stamps, run, edits, clock, readerVars>>
    BY <1>4 DEF vars, readerVars, stamps
  <2> QED BY <2>1, <2>2, ReaderUntouched DEF IInv, TypeOK, stamps
<1> QED BY Zenon, <1>1, <1>2, <1>3, <1>4 DEF Next

\* The inductive invariant: types, and records made of what the reader saw.
THEOREM Invariance == Spec => []IInv
BY InitIInv, NextIInv, PTL DEF Spec

\* Type correctness, whatever the runs, the tasks and the limits.
THEOREM TypeCorrect == Spec => []TypeOK
BY Invariance, PTL DEF IInv

\* The steps of one run, and what they do to another: at most mark its open file
\* as shared, or its walk as made before the last stamp.
GateStep(q) ==
  \/ \E stamp \in BOOLEAN : Walk(q, stamp)
  \/ StampOpens(q) \/ StampWrites(q) \/ Freshness(q) \/ Witness(q) \/ RunCrashes(q)

LEMMA OtherStep ==
  ASSUME IInv, NEW r \in Runs, NEW q \in Runs, q # r, GateStep(q)
  PROVE  \/ run'[r] = [run[r] EXCEPT !.blind = TRUE] /\ run[r].pc # "idle"
         \/ /\ run'[r] = run[r] \/ run'[r] = [run[r] EXCEPT !.fd = "shared"]
            /\ run[r].pc # "idle" => stamped' = stamped
<1>1. run \in [Runs -> RunStates]
  BY DEF IInv
<1>2. CASE StampOpens(q)
  BY <1>2 DEF StampOpens
<1>3. CASE StampWrites(q)
  BY <1>1, <1>3 DEF StampWrites, Exits, stamps
<1>4. CASE ~StampOpens(q) /\ ~StampWrites(q)
  <2>1. (\E s : run' = [run EXCEPT ![q] = s]) /\ UNCHANGED stamps
    BY <1>4 DEF GateStep, Walk, Freshness, Witness, RunCrashes, Exits
  <2> QED BY <1>1, <2>1 DEF stamps
<1> QED BY <1>2, <1>3, <1>4

\* Authors never end a run: they only record what they do to it.
LEMMA AuthorsKeep ==
  ASSUME IInv, NEW r \in Runs, Authors
  PROVE  run'[r].exit = run[r].exit /\ run'[r].pc = run[r].pc
<1>1. run \in [Runs -> RunStates] /\ run[r] \in RunStates
  BY DEF IInv
<1>2. CASE \E f \in Referents, c \in Versions \cup {"gone", "bare"} : EditContent(f, c)
  BY <1>1, <1>2 DEF EditContent, RunStates, RunTypes
<1>3. CASE DeleteManifest
  BY <1>1, <1>3 DEF DeleteManifest, RunStates, RunTypes
<1>4. CASE run' = run
  BY <1>4
<1> QED BY <1>2, <1>3, <1>4 DEF Authors, EditTask, Tick

\* Only a witness step of the run itself ends it with EXIT_OK, and that step
\* found the record in agreement.
LEMMA PassIsWitness ==
  ASSUME IInv, [Next]_vars, NEW r \in Runs, Passes(r)
  PROVE  WitnessAgrees(run[r].map) /\ manifest.state # "torn" /\ run[r].age <= MaxAge
<1>1. /\ run[r].pc = "witness" /\ run[r].exit = NoExit /\ run'[r].exit = EXIT_OK
      /\ run[r].age <= MaxAge
  BY DEF Passes, IInv, RunStates
<1>2. NoExit # EXIT_OK /\ EXIT_STALE_MANIFEST # EXIT_OK /\ EXIT_MEASUREMENT_INVALID # EXIT_OK
  BY DEF NoExit, EXIT_OK, EXIT_STALE_MANIFEST, EXIT_MEASUREMENT_INVALID
<1>3. run' # run
  BY <1>1, <1>2
<1>4. PICK q \in Runs : GateStep(q)
  <2>1. ~Authors
    BY <1>1, <1>2, AuthorsKeep
  <2>2. ~(ReaderRecords \/ ReaderWrites \/ ReaderCrashes)
    BY <1>3 DEF ReaderRecords, ReaderWrites, ReaderCrashes
  <2>3. ~UNCHANGED vars
    BY <1>3 DEF vars
  <2> QED BY <2>1, <2>2, <2>3 DEF Next, GateStep
<1>5. run \in [Runs -> RunStates] /\ run[r] \in RunStates /\ \A c : Idle(c, FALSE).exit = c
  BY DEF IInv, Idle
<1>6. q = r
  <2>1. q # r => run'[r].exit = run[r].exit
    BY <1>4, <1>5, OtherStep DEF RunStates, RunTypes
  <2> QED BY <1>1, <1>2, <2>1
<1>7. ~RunCrashes(r)
  BY <1>1, <1>2, <1>5 DEF RunCrashes
<1>8. Witness(r)
  BY <1>1, <1>4, <1>6, <1>7 DEF GateStep, Walk, StampOpens, StampWrites, Freshness
<1>9. \A c : Exits(r, c) => run'[r].exit = c
  BY <1>5 DEF Exits
<1> QED BY <1>1, <1>2, <1>8, <1>9 DEF Witness

\* A pass of check_external_witness (lines 331-415) means the reader itself
\* read the tasks this run walked, at most Drift ago but for what its clock is ahead.
THEOREM IndependentWitness == Spec => WitnessIsIndependent
<1> DEFINE A == \A r \in Runs : Passes(r) =>
                  LET seen == observed[run[r].map]
                  IN  seen # Never /\ clock - seen <= Drift + Ahead
<1>1. ASSUME IInv, [Next]_vars PROVE A
  <2> SUFFICES ASSUME NEW r \in Runs, Passes(r)
               PROVE  observed[run[r].map] # Never /\ clock - observed[run[r].map] <= Drift + Ahead
    OBVIOUS
  <2>1. WitnessAgrees(run[r].map)
    BY <1>1, PassIsWitness
  <2>2. Seen(witness.at, witness.map) /\ witness.map = run[r].map
    BY <1>1, <2>1 DEF WitnessAgrees, IInv, RecordIsSeen
  <2>3. witness.at \in Int /\ observed[run[r].map] \in Int /\ clock \in Int
    <3>1. witness.state = "ok" /\ run[r].map \in Maps
      BY <1>1, <2>1 DEF WitnessAgrees, IInv, RunStates, RunTypes
    <3>2. witness.at \in Times
      BY <1>1, <3>1 DEF IInv, TypeOK, Absent, Torn
    <3> QED BY <1>1, <3>1, <3>2, Numbers DEF Times
  <2> QED BY <2>1, <2>2, <2>3, BoundsAssumption DEF WitnessAgrees, Seen
<1>2. IInv /\ [Next]_vars => [A]_vars
  BY <1>1
<1> QED BY <1>2, Invariance, PTL DEF Spec, WitnessIsIndependent

\* The age of the stamp at a pass: twice Drift, whatever MAX_AGE_DAYS is, unless
\* the manifest is gone by the second reading (lines 349-367 and 506).
THEOREM BoundedStampAge == Spec => StampAgeIsBounded
<1> DEFINE Bounded(r) ==
      \/ manifest.state = "ok" /\ clock - manifest.at <= 2 * Drift
      \/ manifest.state = "absent" /\ run[r].age <= MaxAge
    A == \A r \in Runs : Passes(r) => Bounded(r)
<1>1. ASSUME IInv, [Next]_vars PROVE A
  <2> SUFFICES ASSUME NEW r \in Runs, Passes(r)
               PROVE  Bounded(r)
    OBVIOUS
  <2>1. /\ WitnessAgrees(run[r].map) /\ run[r].age <= MaxAge
        /\ manifest.state \in {"ok", "absent"}
    BY <1>1, PassIsWitness DEF IInv, TypeOK, Absent, Torn
  <2>2. CASE manifest.state = "ok"
    <3>1. witness.at \in Times /\ manifest.at \in Times
      BY <1>1, <2>1, <2>2 DEF WitnessAgrees, IInv, TypeOK, Absent, Torn
    <3>2. clock \in Int
      BY <1>1, Numbers
    <3> QED BY <2>1, <2>2, <3>1, <3>2, BoundsAssumption DEF WitnessAgrees, Distance, Times
  <2> QED BY <2>1, <2>2
<1>2. IInv /\ [Next]_vars => [A]_vars
  BY <1>1
<1> QED BY <1>2, Invariance, PTL DEF Spec, StampAgeIsBounded

\* What a walk compares the surface with, if it can read the manifest, is the
\* last complete stamp.
ManifestIsStamped == manifest.state = "ok" => manifest.fps = stamped

\* What a walk has found keeps to that stamp until somebody edits it or stamps.
WalkStands ==
  \A r \in Runs : run[r].pc # "idle" /\ ~run[r].blind =>
    \A t \in Tasks : Drifted(r, t) => run[r].map[t] \in run[r].moved

DriftInv == ManifestIsStamped /\ WalkStands

LEMMA InitDriftInv == Init => DriftInv
BY DEF Init, DriftInv, ManifestIsStamped, WalkStands, Absent, Idle

\* A walk that finds every referent alive and can read the manifest has found
\* every referent as it was stamped.
LEMMA AliveIsUnchanged ==
  ASSUME IInv, ManifestIsStamped, manifest.state = "ok", Statuses \ {"LIVE"} = {},
         NEW t \in Tasks, tasks[t] \in Referents, stamped[t] # "none"
  PROVE  content[tasks[t]] \in {"bare", stamped[t]}
<1>1. t \in Walked
  BY ReferentsAssumption DEF Walked
<1>2. Classify(tasks[t], stamped[t]) = "LIVE"
  BY <1>1 DEF Statuses, StoredFingerprint, ManifestIsStamped
<1>3. ~Changed(tasks[t], stamped[t]) /\ content[tasks[t]] # "gone"
  BY <1>2 DEF Classify
<1> QED BY <1>3 DEF Changed

LEMMA StampedManifest == ASSUME IInv, ManifestIsStamped, [Next]_vars PROVE ManifestIsStamped'
<1>1. \/ UNCHANGED stamps
      \/ manifest' = Torn \/ manifest' = Absent
      \/ \E r \in Runs : manifest' = Manifest(run[r].at, run[r].fps) /\ stamped' = run[r].fps
  <2>1. CASE Authors
    BY <2>1 DEF Authors, EditTask, EditContent, DeleteManifest, Tick
  <2>2. CASE ReaderRecords \/ ReaderWrites \/ ReaderCrashes
    BY <2>2 DEF ReaderRecords, ReaderWrites, ReaderCrashes
  <2>3. CASE UNCHANGED vars
    BY <2>3 DEF vars, stamps
  <2>4. ASSUME NEW r \in Runs, GateStep(r)
        PROVE  \/ UNCHANGED stamps
               \/ manifest' = Torn
               \/ manifest' = Manifest(run[r].at, run[r].fps) /\ stamped' = run[r].fps
    BY <2>4 DEF GateStep, Walk, StampOpens, StampWrites, Freshness, Witness, RunCrashes
  <2> QED BY <2>1, <2>2, <2>3, <2>4 DEF Next, GateStep
<1> QED BY <1>1 DEF ManifestIsStamped, stamps, Torn, Absent, Manifest

\* One run, one step of its own: what it vouches for is what its walk has seen,
\* or has been edited since.
LEMMA OwnStep ==
  ASSUME IInv, DriftInv, NEW r \in Runs, GateStep(r),
         run'[r].pc # "idle", ~run'[r].blind, NEW t \in Tasks, Drifted(r, t)'
  PROVE  run'[r].map[t] \in run'[r].moved
<1>1. run \in [Runs -> RunStates] /\ run[r] \in RunStates
  BY DEF IInv
<1>2. \A c, s : Idle(c, s).pc = "idle"
  BY DEF Idle
<1>3. /\ \A c, s : run' # [run EXCEPT ![r] = Idle(c, s)]
      /\ \A c : ~Exits(r, c)
  <2>1. \A c, s : run' # [run EXCEPT ![r] = Idle(c, s)]
    BY <1>1, <1>2
  <2> QED BY <2>1 DEF Exits
<1>4. /\ run'[r].map[t] \in Referents /\ stamped'[t] # "none"
      /\ Vouched(r, t)' \notin {"none", "bare", stamped'[t]}
  BY DEF Drifted
<1>5. CASE \E stamp \in BOOLEAN : Walk(r, stamp)
  <2>1. PICK stamp \in BOOLEAN : Walk(r, stamp)
    BY <1>5
  <2>2. Statuses \ {"LIVE"} = {} /\ run' = [run EXCEPT ![r] = AllLive(stamp)]
    BY <1>3, <2>1, Zenon DEF Walk
  <2>3. /\ AllLive(stamp).blind = (manifest.state # "ok")
        /\ AllLive(stamp).map = tasks /\ AllLive(stamp).pc # "write"
    BY DEF AllLive, Idle
  <2>4. run'[r] = AllLive(stamp) /\ UNCHANGED <<content, stamped>>
    BY <1>1, <2>1, <2>2 DEF Walk, surface, stamps
  <2>5. Vouched(r, t)' = content[tasks[t]]
    BY <2>3, <2>4 DEF Vouched
  <2> QED BY <1>4, <2>2, <2>3, <2>4, <2>5, AliveIsUnchanged DEF DriftInv
<1>6. CASE StampOpens(r)
  <2>1. /\ run'[r].pc = "write" /\ run'[r].map = run[r].map /\ run'[r].blind = run[r].blind
        /\ run'[r].moved = run[r].moved /\ run[r].pc = "stamp"
        /\ run'[r].fps = [u \in Tasks |-> Fingerprint(run[r].map[u])]
        /\ UNCHANGED <<content, stamped>>
    BY <1>1, <1>6 DEF StampOpens, RunStates, RunTypes, surface
  <2>2. Vouched(r, t)' = Fingerprint(run[r].map[t])
    BY <2>1 DEF Vouched
  <2>3. Vouched(r, t)' = content[run[r].map[t]] /\ Vouched(r, t) = content[run[r].map[t]]
    BY <1>4, <2>1, <2>2 DEF Fingerprint, Vouched
  <2>4. Drifted(r, t)
    BY <1>4, <2>1, <2>3 DEF Drifted
  <2> QED BY <2>1, <2>4 DEF DriftInv, WalkStands
<1>7. CASE Freshness(r)
  <2>1. run[r].pc = "fresh" /\ \E a : run' = [run EXCEPT ![r].pc = "witness", ![r].age = a]
    BY <1>3, <1>7, Zenon DEF Freshness
  <2>2. /\ run'[r].pc = "witness" /\ run'[r].map = run[r].map
        /\ run'[r].blind = run[r].blind /\ run'[r].moved = run[r].moved
        /\ UNCHANGED <<content, stamped>>
    BY <1>1, <1>7, <2>1 DEF Freshness, RunStates, RunTypes, surface, stamps
  <2>3. Vouched(r, t)' = Vouched(r, t)
    BY <2>1, <2>2 DEF Vouched
  <2>4. Drifted(r, t)
    BY <1>4, <2>2, <2>3 DEF Drifted
  <2> QED BY <2>1, <2>2, <2>4 DEF DriftInv, WalkStands
<1>8. ~(StampWrites(r) \/ Witness(r) \/ RunCrashes(r))
  <2>1. ~StampWrites(r)
    <3>1. Idle(EXIT_OK, FALSE).pc = "idle"
      BY <1>2
    <3>2. run'[r] # Idle(EXIT_OK, FALSE)
      BY <3>1
    <3> QED BY <1>3, <3>2 DEF StampWrites
  <2> QED BY <1>3, <2>1, Zenon DEF Witness, RunCrashes
<1> QED BY <1>5, <1>6, <1>7, <1>8 DEF GateStep

LEMMA AuthorsStand ==
  ASSUME IInv, DriftInv, Authors
  PROVE  WalkStands'
<1> SUFFICES ASSUME NEW r \in Runs, run'[r].pc # "idle", ~run'[r].blind,
                    NEW t \in Tasks, Drifted(r, t)'
             PROVE  run'[r].map[t] \in run'[r].moved
  BY DEF WalkStands
<1>1. run \in [Runs -> RunStates] /\ run[r] \in RunStates /\ stamped' = stamped
      /\ content \in [Referents -> Versions \cup {"gone", "bare"}]
  BY DEF IInv, TypeOK, Authors, EditTask, EditContent, DeleteManifest, Tick, stamps
<1>2. /\ run'[r].map[t] \in Referents /\ stamped'[t] # "none"
      /\ Vouched(r, t)' \notin {"none", "bare", stamped'[t]}
  BY DEF Drifted
<1>3. CASE run' = run /\ content' = content
  <2>1. Drifted(r, t)
    BY <1>1, <1>2, <1>3 DEF Drifted, Vouched
  <2> QED BY <1>3, <2>1 DEF DriftInv, WalkStands
<1>4. ASSUME NEW f \in Referents, NEW c \in Versions \cup {"gone", "bare"},
             EditContent(f, c)
      PROVE  run'[r].map[t] \in run'[r].moved
  <2>1. /\ run'[r].pc = run[r].pc /\ run'[r].map = run[r].map /\ run'[r].fps = run[r].fps
        /\ run'[r].blind = run[r].blind
        /\ run'[r].moved = IF run[r].pc \in {"stamp", "fresh", "witness"}
                           THEN run[r].moved \cup {f} ELSE run[r].moved
    BY <1>1, <1>4 DEF EditContent, RunStates, RunTypes
  <2>2. run[r].pc = "write" \/ run[r].pc \in {"stamp", "fresh", "witness"}
    BY <1>1, <2>1 DEF RunStates, RunTypes, Pcs
  <2>3. CASE run[r].pc # "write" /\ run[r].map[t] = f
    BY <2>1, <2>2, <2>3
  <2>4. CASE run[r].pc = "write" \/ run[r].map[t] # f
    <3>1. Vouched(r, t)' = Vouched(r, t)
      BY <1>1, <1>2, <1>4, <2>1, <2>4 DEF EditContent, Vouched
    <3>2. Drifted(r, t)
      BY <1>1, <1>2, <2>1, <3>1 DEF Drifted
    <3>3. run[r].map[t] \in run[r].moved
      BY <2>1, <3>2 DEF DriftInv, WalkStands
    <3> QED BY <2>1, <3>3
  <2> QED BY <2>3, <2>4
<1>5. CASE DeleteManifest
  <2>1. /\ run'[r].pc = run[r].pc /\ run'[r].map = run[r].map /\ run'[r].fps = run[r].fps
        /\ run'[r].blind = run[r].blind /\ run'[r].moved = run[r].moved
        /\ content' = content
    BY <1>1, <1>5 DEF DeleteManifest, RunStates, RunTypes
  <2>2. Drifted(r, t)
    BY <1>1, <1>2, <2>1 DEF Drifted, Vouched
  <2> QED BY <2>1, <2>2 DEF DriftInv, WalkStands
<1> QED BY <1>3, <1>4, <1>5 DEF Authors, EditTask, Tick, surface

LEMMA NextDriftInv == ASSUME IInv, DriftInv, [Next]_vars PROVE DriftInv'
<1>1. ManifestIsStamped'
  BY StampedManifest DEF DriftInv
<1>2. CASE Authors
  BY <1>1, <1>2, AuthorsStand DEF DriftInv
<1>3. CASE UNCHANGED <<run, content, stamped>>
  BY <1>1, <1>3 DEF DriftInv, WalkStands, Drifted, Vouched
<1>4. ASSUME NEW q \in Runs, GateStep(q) PROVE WalkStands'
  <2> SUFFICES ASSUME NEW r \in Runs, run'[r].pc # "idle", ~run'[r].blind,
                      NEW t \in Tasks, Drifted(r, t)'
               PROVE  run'[r].map[t] \in run'[r].moved
    BY DEF WalkStands
  <2>1. CASE q = r
    BY <1>4, <2>1, OwnStep
  <2>2. CASE q # r
    <3>1. run[r] \in RunStates /\ content' = content
      BY <1>4 DEF IInv, GateStep, Walk, StampOpens, StampWrites, Freshness, Witness,
                  RunCrashes, surface
    <3>2. /\ run'[r] = run[r] \/ run'[r] = [run[r] EXCEPT !.fd = "shared"]
          /\ run[r].pc # "idle" => stamped' = stamped
      BY <1>4, <2>2, <3>1, OtherStep DEF RunStates, RunTypes
    <3>3. /\ run'[r].pc = run[r].pc /\ run'[r].map = run[r].map
          /\ run'[r].fps = run[r].fps /\ run'[r].blind = run[r].blind
          /\ run'[r].moved = run[r].moved
      BY <3>1, <3>2 DEF RunStates, RunTypes
    <3>4. Drifted(r, t)
      BY <3>1, <3>2, <3>3 DEF Drifted, Vouched
    <3> QED BY <3>3, <3>4 DEF DriftInv, WalkStands
  <2> QED BY <2>1, <2>2
<1>5. CASE ReaderRecords \/ ReaderWrites \/ ReaderCrashes
  <2>1. UNCHANGED <<run, content, stamped>>
    BY <1>5 DEF ReaderRecords, ReaderWrites, ReaderCrashes, surface, stamps
  <2> QED BY <1>3, <2>1
<1>6. CASE UNCHANGED vars
  <2>1. UNCHANGED <<run, content, stamped>>
    BY <1>6 DEF vars
  <2> QED BY <1>3, <2>1
<1> QED BY <1>1, <1>2, <1>4, <1>5, <1>6 DEF Next, GateStep, DriftInv

\* Whatever the authors edit and the other runs write meanwhile: what a run
\* stamps or passes has the content of the last complete stamp, unless its walk
\* did not compare it with that stamp or it was edited after the walk (walk and
\* stamp_manifest, referent_liveness.py:246-278 and 418-437).
THEOREM DriftIsNeverSilent == Spec => NoSilentDrift
<1> DEFINE A == \A r \in Runs :
                  (Passes(r) \/ Stamps(r)) /\ ~run[r].blind =>
                     \A t \in Tasks : Drifted(r, t) => run[r].map[t] \in run[r].moved
<1>1. IInv /\ DriftInv /\ [Next]_vars => DriftInv'
  BY NextDriftInv
<1>2. DriftInv => A
  BY DEF DriftInv, WalkStands, Passes, Stamps
<1>3. DriftInv /\ [Next]_vars => [A]_vars
  BY <1>2
<1> QED BY <1>1, <1>3, InitDriftInv, Invariance, PTL DEF Spec, NoSilentDrift
=============================================================================
