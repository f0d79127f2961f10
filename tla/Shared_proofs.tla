---------------------------- MODULE Shared_proofs ----------------------------
(***************************************************************************)
(* The programs that read, change in memory and write back under no lock:  *)
(* what they lose, and only when, for any number of runs, documents,       *)
(* files, callers and steps of the user.                                   *)
(***************************************************************************)
EXTENDS Shared, SequenceTheorems, TLAPS

-----------------------------------------------------------------------------
(* The example's orders. *)

\* Where nobody has made a second object under an id, its log leads to the status
\* of the one there is; what is stored has gone on from what was saved.
Life(status, done) ==
  \/ status = "pending"   /\ done = << >>
  \/ status = "confirmed" /\ done = <<"confirmed">>
  \/ status = "shipped"   /\ done = <<"confirmed", "shipped">>
  \/ status = "delivered" /\ done = <<"confirmed", "shipped", "delivered">>
  \/ status = "cancelled" /\ done \in {<<"cancelled">>, <<"confirmed", "cancelled">>}
OneObject ==
  /\ \A o \in DOMAIN heap : heap[o].id \in 1..o
  /\ \A o, p \in DOMAIN heap : heap[o].id = heap[p].id /\ heap[o].id \notin remade => o = p
Lives ==
  /\ \A o \in DOMAIN heap : heap[o].id \notin remade => Life(heap[o].status, log[heap[o].id])
  /\ \A i \in O!Ids : (\A o \in DOMAIN heap : heap[o].id # i) => log[i] = << >>
StoreFits == \A i \in O!Ids : store[i] # 0 => heap[store[i]].id = i

OrdersInv == O!TypeOK /\ OneObject /\ Lives /\ StoreFits /\ O!SavedIsNeverUndone

\* A transition takes a life on to a life.
LEMMA LifeGoesOn ==
  ASSUME NEW old \in O!Statuses, NEW done \in Seq(O!Statuses), Life(old, done),
         NEW status \in O!Statuses, status \in O!Transitions(old)
  PROVE  Life(status, Append(done, status))
<1>1. /\ Append(<< >>, status) = <<status>>
      /\ Append(<<"confirmed">>, status) = <<"confirmed", status>>
      /\ Append(<<"confirmed", "shipped">>, status) = <<"confirmed", "shipped", status>>
  <2>1. ASSUME NEW s \in Seq(O!Statuses), NEW t \in Seq(O!Statuses), Len(t) = Len(s) + 1,
               t[Len(s) + 1] = status, \A i \in 1..Len(s) : t[i] = s[i]
        PROVE  Append(s, status) = t
    <3>1. /\ Append(s, status) \in Seq(O!Statuses) /\ Len(Append(s, status)) = Len(s) + 1
          /\ \A i \in 1..Len(s) : Append(s, status)[i] = s[i]
          /\ Append(s, status)[Len(s) + 1] = status
      BY AppendProperties
    <3>2. Len(s) \in Nat
      OBVIOUS
    <3>3. \A i \in 1..Len(s) + 1 : Append(s, status)[i] = t[i]
      BY <2>1, <3>1, <3>2
    <3> QED BY <2>1, <3>1, <3>3, SeqEqual
  <2>2. /\ << >> \in Seq(O!Statuses) /\ <<"confirmed">> \in Seq(O!Statuses)
        /\ <<"confirmed", "shipped">> \in Seq(O!Statuses)
        /\ <<status>> \in Seq(O!Statuses) /\ <<"confirmed", status>> \in Seq(O!Statuses)
        /\ <<"confirmed", "shipped", status>> \in Seq(O!Statuses)
    BY DEF O!Statuses
  <2>3. <<status>> = Append(<< >>, status)
    BY <2>1, <2>2
  <2>4. <<"confirmed", status>> = Append(<<"confirmed">>, status)
    BY <2>1, <2>2
  <2>5. <<"confirmed", "shipped", status>> = Append(<<"confirmed", "shipped">>, status)
    BY <2>1, <2>2
  <2> QED BY <2>3, <2>4, <2>5
<1>2. CASE old = "pending"
  BY <1>1, <1>2 DEF O!Transitions, Life, O!Statuses
<1>3. CASE old = "confirmed"
  BY <1>1, <1>3 DEF O!Transitions, Life, O!Statuses
<1>4. CASE old = "shipped"
  BY <1>1, <1>4 DEF O!Transitions, Life, O!Statuses
<1>5. CASE old \in {"delivered", "cancelled"}
  BY <1>5 DEF O!Transitions
<1> QED BY <1>2, <1>3, <1>4, <1>5 DEF O!Statuses

LEMMA LifeIsLegal == OrdersInv => O!OrderIsLegal
<1> SUFFICES ASSUME OrdersInv, NEW i \in O!Ids \ remade
             PROVE  log[i] \in {<< >>, <<"confirmed">>, <<"cancelled">>,
                      <<"confirmed", "shipped">>, <<"confirmed", "cancelled">>,
                      <<"confirmed", "shipped", "delivered">>}
  BY DEF O!OrderIsLegal
<1>1. CASE \E o \in DOMAIN heap : heap[o].id = i
  BY <1>1 DEF OrdersInv, Lives, Life
<1>2. CASE \A o \in DOMAIN heap : heap[o].id # i
  BY <1>2 DEF OrdersInv, Lives
<1> QED BY <1>1, <1>2

LEMMA InitOrders == O!Init => OrdersInv
<1> SUFFICES ASSUME O!Init PROVE OrdersInv
  OBVIOUS
<1>1. heap = << >> /\ Len(heap) = 0 /\ DOMAIN heap = {}
  BY DEF O!Init
<1>2. O!TypeOK
  BY <1>1, BoundsAssumption DEF O!Init, O!TypeOK, O!Statuses
<1>3. OneObject /\ Lives
  BY <1>1 DEF O!Init, OneObject, Lives
<1>4. StoreFits /\ O!SavedIsNeverUndone
  BY DEF O!Init, StoreFits, O!SavedIsNeverUndone
<1> QED BY <1>2, <1>3, <1>4 DEF OrdersInv

\* An object more, under a new id or under one that is noted as remade.
LEMMA MakesOrders ==
  ASSUME OrdersInv, NEW c \in Callers, NEW i \in 1..(Len(heap) + 1), O!Makes(c, i),
         \/ i = Len(heap) + 1 /\ UNCHANGED remade
         \/ remade' = remade \cup {i} /\ \E o \in DOMAIN heap : heap[o].id = i
  PROVE  OrdersInv'
<1> DEFINE made == [id |-> i, status |-> "pending"]
<1>1. /\ heap \in Seq([id : O!Ids, status : O!Statuses]) /\ Len(heap) \in Nat
      /\ Len(heap) + 1 \in O!Ids /\ DOMAIN heap = 1..Len(heap) /\ i \in O!Ids
  <2>1. /\ heap \in Seq([id : O!Ids, status : O!Statuses]) /\ Len(heap) \in Nat
        /\ DOMAIN heap = 1..Len(heap)
    BY DEF OrdersInv, O!TypeOK
  <2>2. Len(heap) < MaxObjects
    BY DEF O!Makes
  <2>3. Len(heap) + 1 \in O!Ids /\ i \in O!Ids
    BY <2>1, <2>2, BoundsAssumption DEF O!Ids
  <2> QED BY <2>1, <2>3
<1>2. made \in [id : O!Ids, status : O!Statuses] /\ made.id = i /\ made.status = "pending"
  BY <1>1 DEF O!Statuses
<1> HIDE DEF made
<1>3. /\ heap' = Append(heap, made) /\ holds' = [holds EXCEPT ![c] = Len(heap) + 1]
      /\ UNCHANGED <<store, log, saved>>
  BY DEF O!Makes, made
<1>4. /\ heap' \in Seq([id : O!Ids, status : O!Statuses]) /\ Len(heap') = Len(heap) + 1
      /\ DOMAIN heap' = 1..(Len(heap) + 1)
      /\ \A o \in 1..Len(heap) : heap'[o] = heap[o]
      /\ heap'[Len(heap) + 1] = made
  BY <1>1, <1>2, <1>3
<1>5. remade' \in SUBSET O!Ids /\ remade \subseteq remade'
  BY <1>1 DEF OrdersInv, O!TypeOK
<1>6. O!TypeOK'
  BY <1>1, <1>3, <1>4, <1>5, BoundsAssumption DEF OrdersInv, O!TypeOK, O!Makes
<1>7. \A o \in 1..Len(heap) : heap[o].id # Len(heap) + 1
  BY <1>1 DEF OrdersInv, OneObject
<1>8. OneObject'
  <2>1. \A o \in DOMAIN heap' : heap'[o].id \in 1..o
    BY <1>1, <1>2, <1>4 DEF OrdersInv, OneObject
  <2>2. ASSUME NEW o \in DOMAIN heap', NEW p \in DOMAIN heap',
               heap'[o].id = heap'[p].id, heap'[o].id \notin remade'
        PROVE  o = p
    <3>1. CASE o \in 1..Len(heap) /\ p \in 1..Len(heap)
      BY <1>1, <1>4, <1>5, <2>2, <3>1 DEF OrdersInv, OneObject
    <3>2. CASE o = Len(heap) + 1 \/ p = Len(heap) + 1
      <4>1. heap'[o].id = i /\ heap'[p].id = i
        BY <1>2, <1>4, <2>2, <3>2
      <4>2. i = Len(heap) + 1
        BY <2>2, <4>1
      <4>3. \A q \in 1..Len(heap) : heap'[q].id # i
        BY <1>4, <1>7, <4>2
      <4>4. o \in 1..(Len(heap) + 1) /\ p \in 1..(Len(heap) + 1)
        BY <1>4, <2>2
      <4> QED BY <1>1, <4>1, <4>3, <4>4
    <3> QED BY <1>4, <3>1, <3>2
  <2> QED BY <2>1, <2>2 DEF OneObject
<1>9. Lives'
  <2>1. ASSUME NEW o \in DOMAIN heap', heap'[o].id \notin remade'
        PROVE  Life(heap'[o].status, log'[heap'[o].id])
    <3>1. CASE o \in 1..Len(heap)
      BY <1>1, <1>3, <1>4, <1>5, <2>1, <3>1 DEF OrdersInv, Lives
    <3>2. CASE o = Len(heap) + 1
      <4>1. heap'[o].id = i /\ heap'[o].status = "pending" /\ i = Len(heap) + 1
        BY <1>2, <1>4, <2>1, <3>2
      <4>2. log[i] = << >>
        BY <1>1, <1>7, <4>1 DEF OrdersInv, Lives
      <4> QED BY <1>3, <4>1, <4>2 DEF Life
    <3> QED BY <1>4, <3>1, <3>2
  <2>2. ASSUME NEW j \in O!Ids, \A o \in DOMAIN heap' : heap'[o].id # j PROVE log'[j] = << >>
    <3>1. \A o \in DOMAIN heap : heap[o].id # j
      BY <1>1, <1>4, <2>2
    <3> QED BY <1>3, <3>1 DEF OrdersInv, Lives
  <2> QED BY <2>1, <2>2 DEF Lives, O!Ids
<1>10. \A j \in O!Ids : store'[j] # 0 => store[j] # 0 /\ heap'[store'[j]] = heap[store[j]]
  BY <1>1, <1>3, <1>4 DEF OrdersInv, O!TypeOK
<1>11. StoreFits' /\ O!SavedIsNeverUndone'
  BY <1>3, <1>10 DEF OrdersInv, StoreFits, O!SavedIsNeverUndone, O!Ids
<1> QED BY <1>6, <1>8, <1>9, <1>11 DEF OrdersInv

\* What a transition reaches, and what it is reached from.
LEMMA GoesBeyond ==
  ASSUME NEW old \in O!Statuses, NEW status \in O!Statuses, NEW first \in O!Statuses,
         old \in O!Beyond(first), status \in O!Transitions(old)
  PROVE  status \in O!Beyond(first)
BY DEF O!Statuses, O!Transitions, O!Beyond

LEMMA AdvanceOrders ==
  ASSUME OrdersInv, NEW c \in Callers, NEW status \in O!Statuses, O!Advance(c, status)
  PROVE  OrdersInv'
<1> DEFINE o == holds[c]
           i == heap[o].id
           moved == [heap[o] EXCEPT !.status = status]
<1>1. /\ heap \in Seq([id : O!Ids, status : O!Statuses]) /\ Len(heap) \in Nat
      /\ DOMAIN heap = 1..Len(heap) /\ log \in [O!Ids -> Seq(O!Statuses)]
      /\ o \in DOMAIN heap
  BY DEF OrdersInv, O!TypeOK, O!Advance
<1>2. heap[o] \in [id : O!Ids, status : O!Statuses] /\ i \in O!Ids
      /\ status \in O!Transitions(heap[o].status)
  <2>1. heap[o] \in [id : O!Ids, status : O!Statuses]
    BY <1>1, ElementOfSeq
  <2>2. status \in O!Transitions(heap[o].status)
    BY DEF O!Advance
  <2> QED BY <2>1, <2>2
<1>3. moved \in [id : O!Ids, status : O!Statuses] /\ moved.id = i /\ moved.status = status
  BY <1>2
<1>4. /\ heap' = [heap EXCEPT ![o] = moved] /\ log' = [log EXCEPT ![i] = Append(@, status)]
      /\ UNCHANGED <<store, holds, saved, remade>>
  BY <1>1, <1>2 DEF O!Advance
<1> HIDE DEF o, i, moved
<1>5. i = heap[o].id
  BY DEF i
<1>6. /\ heap' \in Seq([id : O!Ids, status : O!Statuses]) /\ Len(heap') = Len(heap)
      /\ DOMAIN heap' = DOMAIN heap
      /\ \A q \in DOMAIN heap : heap'[q] = IF q = o THEN moved ELSE heap[q]
  BY <1>1, <1>3, <1>4
<1>7. /\ log' \in [O!Ids -> Seq(O!Statuses)]
      /\ \A j \in O!Ids : log'[j] = IF j = i THEN Append(log[i], status) ELSE log[j]
  BY <1>1, <1>2, <1>4
<1>8. O!TypeOK'
  BY <1>4, <1>6, <1>7 DEF OrdersInv, O!TypeOK
<1>9. \A q \in DOMAIN heap : heap'[q].id = heap[q].id /\ heap[q].id \in O!Ids
  <2>1. \A q \in DOMAIN heap : heap[q] \in [id : O!Ids, status : O!Statuses]
    BY <1>1, ElementOfSeq
  <2> QED BY <1>3, <1>5, <1>6, <2>1
<1>10. OneObject'
  BY <1>4, <1>6, <1>9 DEF OrdersInv, OneObject
<1>11. Lives'
  <2>1. ASSUME NEW q \in DOMAIN heap, heap[q].id \notin remade
        PROVE  Life(heap'[q].status, log'[heap'[q].id])
    <3>1. CASE q = o
      <4>1. Life(heap[o].status, log[i]) /\ heap'[q].status = status
            /\ log'[heap'[q].id] = Append(log[i], status) /\ log[i] \in Seq(O!Statuses)
            /\ heap[o].status \in O!Statuses
        BY <1>1, <1>2, <1>3, <1>5, <1>6, <1>7, <2>1, <3>1 DEF OrdersInv, Lives
      <4> QED BY <1>2, <4>1, LifeGoesOn
    <3>2. CASE q # o
      <4>1. heap[q].id # i
        BY <1>1, <1>5, <2>1, <3>2 DEF OrdersInv, OneObject
      <4> QED BY <1>6, <1>7, <1>9, <2>1, <3>2, <4>1 DEF OrdersInv, Lives
    <3> QED BY <3>1, <3>2
  <2>2. ASSUME NEW j \in O!Ids, \A q \in DOMAIN heap' : heap'[q].id # j PROVE log'[j] = << >>
    <3>1. j # i /\ \A q \in DOMAIN heap : heap[q].id # j
      BY <1>1, <1>5, <1>6, <1>9, <2>2
    <3> QED BY <1>7, <3>1 DEF OrdersInv, Lives
  <2> QED BY <1>4, <1>6, <1>9, <2>1, <2>2 DEF Lives, O!Ids
<1>12. \A j \in O!Ids : store[j] # 0 => store[j] \in DOMAIN heap
  BY <1>1 DEF OrdersInv, O!TypeOK
<1>13. StoreFits'
  BY <1>4, <1>9, <1>12 DEF OrdersInv, StoreFits, O!Ids
<1>14. O!SavedIsNeverUndone'
  <2>1. ASSUME NEW j \in O!Ids, store[j] # 0 PROVE heap'[store[j]].status \in O!Beyond(saved[j])
    <3>1. heap[store[j]].status \in O!Beyond(saved[j]) /\ saved[j] \in O!Statuses
      BY <2>1 DEF OrdersInv, O!SavedIsNeverUndone, O!TypeOK
    <3>2. CASE store[j] = o
      <4>1. heap'[o].status = status /\ heap[o].status \in O!Statuses
        BY <1>1, <1>2, <1>3, <1>6
      <4> QED BY <1>2, <3>1, <3>2, <4>1, GoesBeyond
    <3>3. CASE store[j] # o
      BY <1>6, <1>12, <2>1, <3>1, <3>3
    <3> QED BY <3>2, <3>3
  <2> QED BY <1>4, <2>1 DEF O!SavedIsNeverUndone, O!Ids
<1> QED BY <1>8, <1>10, <1>11, <1>13, <1>14 DEF OrdersInv

LEMMA SaveOrders == ASSUME OrdersInv, NEW c \in Callers, O!Save(c) PROVE OrdersInv'
<1> DEFINE o == holds[c]
           i == heap[o].id
<1>1. /\ o \in DOMAIN heap /\ store' = [store EXCEPT ![i] = o]
      /\ saved' = [saved EXCEPT ![i] = heap[o].status]
      /\ UNCHANGED <<heap, holds, log, remade>>
  BY DEF OrdersInv, O!TypeOK, O!Save, O!Stored
<1>2. i \in O!Ids /\ heap[o].status \in O!Statuses /\ o \in 0..Len(heap) /\ o # 0
  <2>1. heap \in Seq([id : O!Ids, status : O!Statuses]) /\ Len(heap) \in Nat
        /\ DOMAIN heap = 1..Len(heap)
    BY DEF OrdersInv, O!TypeOK
  <2>2. heap[o] \in [id : O!Ids, status : O!Statuses]
    BY <1>1, <2>1, ElementOfSeq
  <2> QED BY <1>1, <2>1, <2>2
<1>3. i = heap[o].id
  OBVIOUS
<1> HIDE DEF o, i
<1>4. /\ store' \in [O!Ids -> 0..Len(heap)] /\ saved' \in [O!Ids -> O!Statuses]
      /\ \A j \in O!Ids : /\ store'[j] = IF j = i THEN o ELSE store[j]
                         /\ saved'[j] = IF j = i THEN heap[o].status ELSE saved[j]
  BY <1>1, <1>2 DEF OrdersInv, O!TypeOK
<1>5. O!TypeOK'
  BY <1>1, <1>4 DEF OrdersInv, O!TypeOK
<1>6. OneObject' /\ Lives'
  BY <1>1 DEF OrdersInv, OneObject, Lives
<1>7. StoreFits'
  BY <1>1, <1>3, <1>4 DEF OrdersInv, StoreFits, O!Ids
<1>8. \A s \in O!Statuses : s \in O!Beyond(s)
  BY DEF O!Beyond, O!Statuses
<1>9. O!SavedIsNeverUndone'
  BY <1>1, <1>2, <1>4, <1>8 DEF OrdersInv, O!SavedIsNeverUndone, O!Ids
<1> QED BY <1>5, <1>6, <1>7, <1>9 DEF OrdersInv

LEMMA NextOrders == ASSUME OrdersInv, [O!Next]_(O!vars) PROVE OrdersInv'
<1>1. CASE UNCHANGED O!vars
  BY <1>1 DEF O!vars, OrdersInv, O!TypeOK, OneObject, Lives, StoreFits,
       O!SavedIsNeverUndone
<1>2. Len(heap) \in Nat /\ DOMAIN heap = 1..Len(heap)
  BY DEF OrdersInv, O!TypeOK
<1>3. ASSUME NEW c \in Callers, O!Place(c) PROVE OrdersInv'
  <2>1. O!Makes(c, Len(heap) + 1) /\ UNCHANGED remade /\ Len(heap) + 1 \in 1..(Len(heap) + 1)
    BY <1>2, <1>3 DEF O!Place
  <2> QED BY <2>1, MakesOrders
<1>4. ASSUME NEW c \in Callers, O!Remake(c) PROVE OrdersInv'
  <2>1. PICK o \in DOMAIN heap : O!Makes(c, heap[o].id) /\ remade' = remade \cup {heap[o].id}
    BY <1>4 DEF O!Remake, O!Objects
  <2>2. heap[o].id \in 1..(Len(heap) + 1)
    BY <1>2 DEF OrdersInv, OneObject
  <2> QED BY <2>1, <2>2, MakesOrders
<1>5. ASSUME NEW c \in Callers, O!Get(c) PROVE OrdersInv'
  <2>1. PICK i \in O!Ids : O!Got(c, i)
    BY <1>5 DEF O!Get
  <2>2. UNCHANGED <<heap, store, log, saved, remade>>
    BY <1>5, <2>1 DEF O!Get, O!Got
  <2>3. holds' \in [Callers -> 0..Len(heap)]
    BY <2>1 DEF OrdersInv, O!TypeOK, O!Got
  <2> QED BY <2>2, <2>3 DEF OrdersInv, O!TypeOK, OneObject, Lives, StoreFits,
            O!SavedIsNeverUndone
<1> QED BY <1>1, <1>3, <1>4, <1>5, SaveOrders, AdvanceOrders DEF O!Next
-----------------------------------------------------------------------------
(* The ledger. *)

\* Runs that are under way together know of each other, so that a run that has
\* met nobody was alone with the ledger from its reading to its writing.
Busy(r) == run[r].pc \in {"open", "write"}
Alone(r) == met[r] = {}
MetBoth ==
  /\ \A r, s \in Runs : r # s /\ Busy(r) /\ Busy(s) => s \in met[r]
  /\ \A r \in Runs : Busy(r) => r \in run[r].rows
AloneWithFile ==
  \A r \in Runs : Alone(r) =>
    /\ run[r].pc = "open" =>
         ledger.state \in {"absent", "whole"} /\ run[r].rows = ledger.rows \cup {r}
    /\ run[r].pc = "write" => ledger.state = "cut"
\* The row of a run that met nobody is in whatever anybody is about to write.
RowsKept ==
  \A r, s \in Runs :
    run[r].pc = "reported" /\ Alone(r) /\ Busy(s) => r \in run[s].rows

LedgerInv == L!TypeOK /\ MetBoth /\ AloneWithFile /\ RowsKept /\ L!RowsSurvive

PCs == {"ready", "read", "open", "write", "failed", "killed", "reported"}

\* A step of a run moves that run and no other.
LEMMA RunGoes ==
  ASSUME L!TypeOK, NEW r \in Runs, NEW at \in PCs, NEW rows \in SUBSET Runs,
         L!Goes(r, at, rows)
  PROVE  /\ run' \in [Runs -> [pc : PCs, rows : SUBSET Runs]]
         /\ run'[r].pc = at /\ run'[r].rows = rows
         /\ \A s \in Runs : s # r => run'[s] = run[s]
<1>1. [pc |-> at, rows |-> rows] \in [pc : PCs, rows : SUBSET Runs]
  OBVIOUS
<1> QED BY <1>1 DEF L!TypeOK, L!Goes, PCs

LEMMA InitLedger == L!Init \/ LedgerWaits => LedgerInv
<1> SUFFICES ASSUME L!Init \/ LedgerWaits PROVE LedgerInv
  OBVIOUS
<1>1. /\ run = [r \in Runs |-> [pc |-> "ready", rows |-> {}]]
      /\ met = [r \in Runs |-> {}]
      /\ ledger \in {[state |-> "absent", rows |-> {}], [state |-> "whole", rows |-> {}]}
  BY DEF L!Init, LedgerWaits, L!Begins, L!File
<1>2. L!TypeOK
  BY <1>1 DEF L!TypeOK, L!States
<1>3. MetBoth /\ AloneWithFile /\ RowsKept /\ L!RowsSurvive
  BY <1>1 DEF MetBoth, AloneWithFile, RowsKept, L!RowsSurvive, Busy, Alone
<1> QED BY <1>2, <1>3 DEF LedgerInv

LEMMA StartLedger == ASSUME LedgerInv, NEW r \in Runs, L!Start(r) PROVE LedgerInv'
<1>1. PICK at \in {"read", "failed"} : L!Goes(r, at, {})
  BY DEF L!Start
<1>2. /\ run' \in [Runs -> [pc : PCs, rows : SUBSET Runs]]
      /\ run'[r].pc = at /\ \A s \in Runs : s # r => run'[s] = run[s]
  BY <1>1, RunGoes DEF LedgerInv, PCs
<1>3. run[r].pc = "ready" /\ UNCHANGED <<ledger, met>>
  BY DEF L!Start
<1>4. L!TypeOK'
  BY <1>2, <1>3 DEF LedgerInv, L!TypeOK, PCs
<1>5. MetBoth' /\ AloneWithFile' /\ RowsKept'
  BY <1>2, <1>3 DEF LedgerInv, MetBoth, AloneWithFile, RowsKept, Busy, Alone
<1>6. L!RowsSurvive'
  BY <1>2, <1>3 DEF LedgerInv, L!RowsSurvive
<1> QED BY <1>4, <1>5, <1>6 DEF LedgerInv

LEMMA ReadLedger == ASSUME LedgerInv, NEW r \in Runs, L!Read(r) PROVE LedgerInv'
<1>1. run[r].pc = "read" /\ UNCHANGED ledger
  BY DEF L!Read
<1>2. CASE ledger.state \in {"absent", "whole"}
  <2>1. /\ L!Goes(r, "open", ledger.rows \cup {r})
        /\ ledger.rows \cup {r} \in SUBSET Runs
    BY <1>2 DEF L!Read, L!Known, LedgerInv, L!TypeOK
  <2>2. /\ run' \in [Runs -> [pc : PCs, rows : SUBSET Runs]]
        /\ run'[r].pc = "open" /\ run'[r].rows = ledger.rows \cup {r}
        /\ \A s \in Runs : s # r => run'[s] = run[s]
    BY <2>1, RunGoes DEF LedgerInv, PCs
  <2>3. met' = [s \in Runs |-> CASE s = r -> L!UnderWay
                                 [] s \in L!UnderWay -> met[s] \cup {r}
                                 [] OTHER -> met[s]]
    BY <1>2 DEF L!Read
  <2>4. /\ met'[r] = L!UnderWay
        /\ \A s \in Runs : s # r =>
             met'[s] = IF Busy(s) THEN met[s] \cup {r} ELSE met[s]
        /\ met' \in [Runs -> SUBSET Runs]
    <3>1. /\ met \in [Runs -> SUBSET Runs] /\ L!UnderWay \in SUBSET Runs
          /\ \A s \in Runs : s \in L!UnderWay <=> Busy(s)
          /\ r \notin L!UnderWay
      BY <1>1 DEF L!UnderWay, Busy, LedgerInv, L!TypeOK
    <3>2. met'[r] = L!UnderWay
      BY <2>3, <3>1
    <3>3. \A s \in Runs : s # r =>
            met'[s] = IF s \in L!UnderWay THEN met[s] \cup {r} ELSE met[s]
      BY <2>3
    <3>4. \A s \in Runs : met'[s] \in SUBSET Runs
      BY <3>1, <3>2, <3>3
    <3> QED BY <2>3, <3>1, <3>2, <3>3, <3>4
  <2>5. L!TypeOK'
    BY <1>1, <2>2, <2>4 DEF LedgerInv, L!TypeOK, PCs
  <2>6. \A s \in Runs : s # r => (Busy(s)' <=> Busy(s))
    BY <2>2 DEF Busy
  <2>7. MetBoth'
    <3>1. ASSUME NEW a \in Runs, NEW b \in Runs, a # b, Busy(a)', Busy(b)'
          PROVE  b \in met'[a]
      <4>1. CASE a = r
        BY <2>4, <2>6, <3>1, <4>1 DEF L!UnderWay, Busy
      <4>2. CASE b = r
        BY <2>4, <2>6, <3>1, <4>2
      <4>3. CASE a # r /\ b # r
        BY <2>4, <2>6, <3>1, <4>3 DEF LedgerInv, MetBoth
      <4> QED BY <4>1, <4>2, <4>3
    <3>2. \A a \in Runs : Busy(a)' => a \in run'[a].rows
      BY <2>2, <2>6 DEF LedgerInv, MetBoth
    <3> QED BY <3>1, <3>2 DEF MetBoth, Busy
  <2>8. AloneWithFile'
    <3>1. \A s \in Runs : s # r /\ Busy(s) => met'[s] # {}
      BY <2>4
    <3> QED BY <1>1, <1>2, <2>2, <2>6, <3>1 DEF AloneWithFile, Alone, Busy
  <2>9. \A s \in Runs : run'[s].pc = "reported" =>
          s # r /\ run[s].pc = "reported" /\ met'[s] = met[s]
    BY <2>2, <2>4 DEF Busy
  <2>10. RowsKept'
    <3>1. ASSUME NEW a \in Runs, NEW b \in Runs, run'[a].pc = "reported", met'[a] = {},
                 Busy(b)'
          PROVE  a \in run'[b].rows
      <4>1. run[a].pc = "reported" /\ Alone(a)
        BY <2>9, <3>1 DEF Alone
      <4>2. CASE b = r
        BY <1>2, <2>2, <4>1, <4>2 DEF LedgerInv, L!RowsSurvive, Alone
      <4>3. CASE b # r
        BY <2>2, <2>6, <3>1, <4>1, <4>3 DEF LedgerInv, RowsKept
      <4> QED BY <4>2, <4>3
    <3> QED BY <3>1 DEF RowsKept, Alone, Busy
  <2>11. L!RowsSurvive'
    BY <1>1, <1>2, <2>2, <2>9 DEF LedgerInv, L!RowsSurvive
  <2> QED BY <2>5, <2>7, <2>8, <2>10, <2>11 DEF LedgerInv
<1>3. CASE ledger.state \notin {"absent", "whole"}
  <2>1. L!Goes(r, "failed", {}) /\ UNCHANGED met
    BY <1>3 DEF L!Read
  <2>2. /\ run' \in [Runs -> [pc : PCs, rows : SUBSET Runs]]
        /\ run'[r].pc = "failed" /\ \A s \in Runs : s # r => run'[s] = run[s]
    BY <2>1, RunGoes DEF LedgerInv, PCs
  <2>3. L!TypeOK'
    BY <1>1, <2>1, <2>2 DEF LedgerInv, L!TypeOK, PCs
  <2>4. MetBoth' /\ AloneWithFile' /\ RowsKept'
    BY <1>1, <2>1, <2>2 DEF LedgerInv, MetBoth, AloneWithFile, RowsKept, Busy, Alone
  <2>5. L!RowsSurvive'
    BY <1>1, <2>1, <2>2 DEF LedgerInv, L!RowsSurvive
  <2> QED BY <2>3, <2>4, <2>5 DEF LedgerInv
<1> QED BY <1>2, <1>3

LEMMA OpenLedger == ASSUME LedgerInv, NEW r \in Runs, L!Open(r) PROVE LedgerInv'
<1>1. /\ run[r].pc = "open" /\ L!Goes(r, "write", run[r].rows)
      /\ ledger' = [state |-> "cut", rows |-> {}] /\ UNCHANGED met
      /\ run[r].rows \in SUBSET Runs
  BY DEF L!Open, L!File, LedgerInv, L!TypeOK
<1>2. /\ run' \in [Runs -> [pc : PCs, rows : SUBSET Runs]]
      /\ run'[r].pc = "write" /\ run'[r].rows = run[r].rows
      /\ \A s \in Runs : s # r => run'[s] = run[s]
  BY <1>1, RunGoes DEF LedgerInv, PCs
<1>3. ledger'.state = "cut" /\ ledger' \in [state : L!States, rows : SUBSET Runs]
      /\ ledger'.rows = {}
  BY <1>1 DEF L!States
<1>4. L!TypeOK'
  BY <1>1, <1>2, <1>3 DEF LedgerInv, L!TypeOK, PCs
<1>5. \A s \in Runs : (Busy(s)' <=> Busy(s)) /\ run'[s].rows = run[s].rows
  BY <1>1, <1>2 DEF Busy
<1>6. MetBoth'
  BY <1>1, <1>5 DEF LedgerInv, MetBoth, Busy
<1>7. AloneWithFile'
  <2>1. \A s \in Runs : s # r /\ Busy(s) => ~Alone(s)
    BY <1>1 DEF LedgerInv, MetBoth, Alone, Busy
  <2> QED BY <1>1, <1>2, <1>3, <1>5, <2>1 DEF AloneWithFile, Alone, Busy
<1>8. RowsKept'
  BY <1>1, <1>2, <1>5 DEF LedgerInv, RowsKept, Alone, Busy
<1>9. L!RowsSurvive'
  BY <1>2, <1>3 DEF L!RowsSurvive
<1> QED BY <1>4, <1>6, <1>7, <1>8, <1>9 DEF LedgerInv

LEMMA WriteLedger == ASSUME LedgerInv, NEW r \in Runs, L!Write(r) PROVE LedgerInv'
<1>1. /\ run[r].pc = "write" /\ L!Goes(r, "reported", {}) /\ UNCHANGED met
      /\ run[r].rows \in SUBSET Runs
  BY DEF L!Write, LedgerInv, L!TypeOK
<1>2. /\ run' \in [Runs -> [pc : PCs, rows : SUBSET Runs]]
      /\ run'[r].pc = "reported" /\ \A s \in Runs : s # r => run'[s] = run[s]
  BY <1>1, RunGoes DEF LedgerInv, PCs
<1>3. \/ ledger' = [state |-> "whole", rows |-> run[r].rows]
      \/ ledger.state \in {"mixed", "whole"} /\ ledger' = [state |-> "mixed", rows |-> {}]
  BY DEF L!Write, L!File
<1>4. L!TypeOK'
  BY <1>1, <1>2, <1>3 DEF LedgerInv, L!TypeOK, L!States, PCs
<1>5. \A s \in Runs : Busy(s)' => s # r /\ Busy(s) /\ ~Alone(s) /\ s \in met[r]
  BY <1>1, <1>2 DEF LedgerInv, MetBoth, Alone, Busy
<1>6. MetBoth'
  BY <1>1, <1>2, <1>5 DEF LedgerInv, MetBoth, Busy
<1>7. AloneWithFile'
  BY <1>1, <1>5 DEF AloneWithFile, Alone, Busy
<1>8. RowsKept'
  <2>1. ASSUME NEW a \in Runs, NEW b \in Runs, run'[a].pc = "reported", met'[a] = {},
               Busy(b)'
        PROVE  a \in run'[b].rows
    <3>1. a # r
      BY <1>1, <1>5, <2>1
    <3>2. run[a].pc = "reported" /\ Alone(a) /\ Busy(b) /\ run'[b] = run[b]
      BY <1>1, <1>2, <1>5, <2>1, <3>1 DEF Alone
    <3> QED BY <3>2 DEF LedgerInv, RowsKept
  <2> QED BY <2>1 DEF RowsKept, Alone, Busy
<1>9. L!RowsSurvive'
  <2>1. CASE ledger' = [state |-> "whole", rows |-> run[r].rows]
    <3>1. ledger'.state = "whole" /\ ledger'.rows = run[r].rows
      BY <2>1
    <3>2. r \in run[r].rows /\ Busy(r)
      BY <1>1 DEF LedgerInv, MetBoth, Busy
    <3>3. \A s \in Runs : run'[s].pc = "reported" => s \in run[r].rows \/ met'[s] # {}
      BY <1>1, <1>2, <3>2 DEF LedgerInv, RowsKept, Alone
    <3> QED BY <3>1, <3>3 DEF L!RowsSurvive
  <2>2. CASE /\ ledger.state \in {"mixed", "whole"}
             /\ ledger' = [state |-> "mixed", rows |-> {}]
    <3>1. ledger'.state = "mixed"
      BY <2>2
    <3>2. CASE ledger.state = "mixed"
      BY <1>1, <1>2, <3>1, <3>2 DEF LedgerInv, L!RowsSurvive
    <3>3. CASE ledger.state = "whole"
      BY <1>1, <1>2, <3>1, <3>3 DEF LedgerInv, AloneWithFile, Alone, L!RowsSurvive
    <3> QED BY <2>2, <3>2, <3>3
  <2> QED BY <1>3, <2>1, <2>2
<1> QED BY <1>4, <1>6, <1>7, <1>8, <1>9 DEF LedgerInv

LEMMA KillLedger == ASSUME LedgerInv, NEW r \in Runs, L!Kill(r) PROVE LedgerInv'
<1>1. /\ run[r].pc \in {"read", "open", "write"} /\ L!Goes(r, "killed", {})
      /\ UNCHANGED <<ledger, met>>
  BY DEF L!Kill
<1>2. /\ run' \in [Runs -> [pc : PCs, rows : SUBSET Runs]]
      /\ run'[r].pc = "killed" /\ \A s \in Runs : s # r => run'[s] = run[s]
  BY <1>1, RunGoes DEF LedgerInv, PCs
<1>3. L!TypeOK'
  BY <1>1, <1>2 DEF LedgerInv, L!TypeOK, PCs
<1>4. MetBoth' /\ AloneWithFile' /\ RowsKept'
  BY <1>1, <1>2 DEF LedgerInv, MetBoth, AloneWithFile, RowsKept, Busy, Alone
<1>5. L!RowsSurvive'
  BY <1>1, <1>2 DEF LedgerInv, L!RowsSurvive
<1> QED BY <1>3, <1>4, <1>5 DEF LedgerInv

LEMMA NextLedger == ASSUME LedgerInv, [L!Next]_(L!vars) PROVE LedgerInv'
<1>1. CASE UNCHANGED L!vars
  BY <1>1 DEF L!vars, LedgerInv, L!TypeOK, MetBoth, AloneWithFile, RowsKept, L!RowsSurvive,
       Busy, Alone
<1> QED BY <1>1, StartLedger, ReadLedger, OpenLedger, WriteLedger, KillLedger DEF L!Next
-----------------------------------------------------------------------------
(* The badges. *)

\* What the script carries from its reading of README.md to its writing, and
\* the hook from there to the commit: the badges counted and the user's text.  A
\* badge that is not the one counted is one that the user has changed since; and
\* README.md is only not empty while it is written if the user has saved it.
Carried ==
  /\ pc \in {"open", "write"} => text.badges = seen /\ (text.prose = latest \/ lapsed)
  /\ pc = "write" /\ tree.readme # Torn => lapsed
  /\ pc = "add" => \A d \in Docs \ changed : tree.readme.badges[d] = seen[d]
  /\ pc = "commit" /\ seen # Unread =>
       \A d \in Docs \ changed :
         tree.readme.badges[d] = seen[d] /\ index.readme.badges[d] = seen[d]
  /\ pc = "test" => seen = Unread

HookInv == TypeOK /\ Carried /\ CommitInSync /\ ReadmeTextSurvives

\* What a step makes of a snapshot, field by field.
LEMMA ReadmePut ==
  ASSUME NEW old \in Snapshots, NEW readme \in Readmes, NEW new,
         new = [old EXCEPT !.readme = readme]
  PROVE  new \in Snapshots /\ new.docs = old.docs /\ new.readme = readme
BY DEF Snapshots

LEMMA DocPut ==
  ASSUME NEW old \in Snapshots, NEW d \in Docs, NEW count \in Counts, NEW new,
         new = [old EXCEPT !.docs[d] = count]
  PROVE  new \in Snapshots /\ new.readme = old.readme
BY DEF Snapshots

LEMMA TornIsReadme == Torn \in Readmes /\ Unread \in Badges
BY TriggerAssumption DEF Torn, Unread, Readme, Readmes, Badges, Counts, NoBadge

LEMMA InitHook == Init \/ HookWaits => HookInv
<1> SUFFICES ASSUME Init \/ HookWaits PROVE HookInv
  OBVIOUS
<1>1. PICK docs \in [Docs -> Counts], badges \in Badges :
        tree = [docs |-> docs, readme |-> [badges |-> badges, prose |-> 1]]
  BY DEF Init, HookWaits, Readme, Badges, Counts, NoBadge
<1>2. 1 \in 0..MaxSteps + 1 /\ 0 \in 0..MaxSteps
  BY TriggerAssumption
<1>3. tree \in Snapshots /\ tree.readme.prose = 1
  <2>1. [badges |-> badges, prose |-> 1] \in Readmes
    BY <1>2 DEF Readmes
  <2> QED BY <1>1, <2>1 DEF Snapshots
<1>4. Begins
  BY DEF Init, HookWaits
<1>5. TypeOK
  BY <1>2, <1>3, <1>4, TornIsReadme DEF Begins, TypeOK
<1>6. Carried /\ CommitInSync /\ ReadmeTextSurvives
  BY <1>3, <1>4 DEF Begins, Carried, CommitInSync, ReadmeTextSurvives
<1> QED BY <1>5, <1>6 DEF HookInv

LEMMA EditDocHook == ASSUME HookInv, NEW d \in Docs, EditDoc(d) PROVE HookInv'
<1>1. PICK n \in Counts : tree' = [tree EXCEPT !.docs[d] = n]
  BY DEF EditDoc
<1>2. tree' \in Snapshots /\ tree'.readme = tree.readme
  BY <1>1, DocPut DEF HookInv, TypeOK
<1>3. /\ UNCHANGED <<index, head, pc, mode, seen, text, latest, lapsed, changed, excused>>
      /\ steps' \in 0..MaxSteps
  BY TriggerAssumption DEF EditDoc, Works, running, histories, HookInv, TypeOK
<1>4. TypeOK'
  BY <1>2, <1>3 DEF HookInv, TypeOK
<1>5. Carried' /\ CommitInSync' /\ ReadmeTextSurvives'
  BY <1>2, <1>3 DEF HookInv, Carried, CommitInSync, ReadmeTextSurvives
<1> QED BY <1>4, <1>5 DEF HookInv

\* README.md as the user saves it, or takes it out of the index, at any time.
LEMMA ReplacesHook ==
  ASSUME HookInv, Works, NEW readme \in Readmes, Replaces(readme)
  PROVE  HookInv'
<1>1. steps' \in 0..MaxSteps
  BY TriggerAssumption DEF Works, HookInv, TypeOK
<1>2. /\ UNCHANGED <<index, head, pc, mode, seen, text, excused>>
      /\ tree' = [tree EXCEPT !.readme = readme] /\ latest' = readme.prose
  BY DEF Replaces, running
<1>3. tree' \in Snapshots /\ tree'.readme = readme /\ readme.prose \in 0..MaxSteps + 1
  BY <1>2, ReadmePut DEF HookInv, TypeOK, Readmes
<1>4. lapsed' \in BOOLEAN /\ (pc \in {"open", "write"} => lapsed')
  <2>1. lapsed' = (pc \in {"open", "write"})
    BY Zenon DEF Replaces
  <2>2. lapsed' \in BOOLEAN
    BY <2>1
  <2>3. pc \in {"open", "write"} => lapsed'
    BY <2>1, Zenon
  <2> QED BY <2>2, <2>3
<1>5. /\ changed' \in SUBSET Docs
      /\ pc \in {"add", "commit"} =>
           changed \subseteq changed' /\ \A d \in Docs \ changed' : readme.badges[d] = seen[d]
  BY DEF Replaces, HookInv, TypeOK
<1>6. TypeOK'
  BY <1>1, <1>2, <1>3, <1>4, <1>5 DEF HookInv, TypeOK
<1>7. Carried' /\ CommitInSync' /\ ReadmeTextSurvives'
  BY <1>2, <1>3, <1>4, <1>5 DEF HookInv, Carried, CommitInSync, ReadmeTextSurvives
<1> QED BY <1>6, <1>7 DEF HookInv

LEMMA EditReadmeHook == ASSUME HookInv, EditReadme PROVE HookInv'
<1>1. PICK badges \in Saves : Replaces(Readme(badges, steps + 2))
  BY DEF EditReadme
<1>2. Works /\ steps + 2 \in 0..MaxSteps + 1
  BY TriggerAssumption DEF EditReadme, Works, HookInv, TypeOK
<1>3. Readme(badges, steps + 2) \in Readmes
  BY <1>2, TriggerAssumption DEF Readme, Readmes
<1> QED BY <1>1, <1>2, <1>3, ReplacesHook

LEMMA RestoreHook == ASSUME HookInv, Restore PROVE HookInv'
<1>1. Works /\ Replaces(index.readme)
  BY DEF Restore
<1>2. index.readme \in Readmes
  BY DEF HookInv, TypeOK, Snapshots
<1> QED BY <1>1, <1>2, ReplacesHook

LEMMA StageHook == ASSUME HookInv, Stage PROVE HookInv'
<1>1. /\ UNCHANGED <<tree, head, pc, mode, seen, text, latest, lapsed, changed, excused>>
      /\ steps' \in 0..MaxSteps
  BY TriggerAssumption DEF Stage, Works, running, histories, HookInv, TypeOK
<1>2. index' \in Snapshots /\ index'.readme \in {index.readme, tree.readme}
  <2>1. CASE \E d \in Docs : index' = [index EXCEPT !.docs[d] = tree.docs[d]]
    <3>1. PICK d \in Docs : index' = [index EXCEPT !.docs[d] = tree.docs[d]]
      BY <2>1
    <3>2. tree.docs[d] \in Counts
      BY DEF HookInv, TypeOK, Snapshots
    <3> QED BY <3>1, <3>2, DocPut DEF HookInv, TypeOK
  <2>2. CASE index' = [index EXCEPT !.readme = tree.readme]
    <3>1. tree.readme \in Readmes
      BY DEF HookInv, TypeOK, Snapshots
    <3> QED BY <2>2, <3>1, ReadmePut DEF HookInv, TypeOK
  <2> QED BY <2>1, <2>2 DEF Stage
<1>3. TypeOK'
  BY <1>1, <1>2 DEF HookInv, TypeOK
<1>4. Carried' /\ CommitInSync' /\ ReadmeTextSurvives'
  BY <1>1, <1>2 DEF HookInv, Carried, CommitInSync, ReadmeTextSurvives
<1> QED BY <1>3, <1>4 DEF HookInv

\* The steps up to the reading of README.md write no file.
LEMMA ReadingHook ==
  ASSUME HookInv, Call \/ Test \/ ReadDoc \/ Kill
  PROVE  HookInv'
<1>1. UNCHANGED <<tree, index, head, text, steps, latest, changed, excused>>
  BY DEF Call, Test, ReadDoc, Kill, histories
<1>2. CASE Call
  <2>1. TypeOK'
    BY <1>2, TornIsReadme DEF HookInv, TypeOK, Call, histories
  <2>2. Carried' /\ CommitInSync' /\ ReadmeTextSurvives'
    BY <1>2 DEF HookInv, Carried, CommitInSync, ReadmeTextSurvives, Call,
         histories
  <2> QED BY <2>1, <2>2 DEF HookInv
<1>3. CASE Test
  <2>1. TypeOK'
    BY <1>3 DEF HookInv, TypeOK, Test, histories
  <2>2. Carried' /\ CommitInSync' /\ ReadmeTextSurvives'
    BY <1>3 DEF HookInv, Carried, CommitInSync, ReadmeTextSurvives, Test,
         histories
  <2> QED BY <2>1, <2>2 DEF HookInv
<1>4. CASE ReadDoc
  <2>1. PICK d \in Docs : seen' = [seen EXCEPT ![d] = tree.docs[d]]
    BY <1>4 DEF ReadDoc
  <2>2. tree.docs[d] \in Counts
    BY DEF HookInv, TypeOK, Snapshots
  <2>3. seen' \in Badges
    BY <2>1, <2>2 DEF HookInv, TypeOK, Badges
  <2>4. UNCHANGED <<mode, lapsed>> /\ pc = "read" /\ pc' \in {"read", "readme"}
    BY <1>4 DEF ReadDoc, histories
  <2>5. TypeOK'
    BY <1>1, <2>3, <2>4 DEF HookInv, TypeOK
  <2>6. Carried' /\ CommitInSync' /\ ReadmeTextSurvives'
    BY <1>1, <2>4 DEF HookInv, Carried, CommitInSync, ReadmeTextSurvives
  <2> QED BY <2>5, <2>6 DEF HookInv
<1>5. CASE Kill
  <2>1. TypeOK'
    BY <1>5 DEF HookInv, TypeOK, Kill
  <2>2. Carried' /\ CommitInSync' /\ ReadmeTextSurvives'
    BY <1>5 DEF HookInv, Carried, CommitInSync, ReadmeTextSurvives, Kill
  <2> QED BY <2>1, <2>2 DEF HookInv
<1> QED BY <1>2, <1>3, <1>4, <1>5

LEMMA ReadReadmeHook == ASSUME HookInv, ReadReadme PROVE HookInv'
<1>1. /\ pc = "readme" /\ pc' \in {"idle", "open"} /\ (mode = "check" => pc' = "idle")
      /\ text' = [badges |-> seen, prose |-> tree.readme.prose]
      /\ UNCHANGED <<tree, index, head, mode, seen, steps, histories>>
  BY DEF ReadReadme, Stops, Corrected, Readme
<1>2. tree.readme.prose \in 0..MaxSteps + 1 /\ seen \in Badges
  BY DEF HookInv, TypeOK, Snapshots, Readmes
<1>3. text' \in Readmes /\ text'.badges = seen /\ text'.prose = tree.readme.prose
  BY <1>1, <1>2 DEF Readmes
<1>4. TypeOK'
  BY <1>1, <1>3 DEF histories, HookInv, TypeOK
<1>5. Carried' /\ CommitInSync' /\ ReadmeTextSurvives'
  BY <1>1, <1>3 DEF histories, HookInv, Carried, CommitInSync, ReadmeTextSurvives
<1> QED BY <1>4, <1>5 DEF HookInv

LEMMA OpenHook == ASSUME HookInv, Open PROVE HookInv'
<1>1. /\ pc = "open" /\ pc' = "write" /\ tree' = [tree EXCEPT !.readme = Torn]
      /\ UNCHANGED <<index, head, mode, seen, text, steps, histories>>
  BY DEF Open
<1>2. tree' \in Snapshots /\ tree'.readme = Torn
  BY <1>1, TornIsReadme, ReadmePut DEF HookInv, TypeOK
<1>3. TypeOK'
  BY <1>1, <1>2 DEF histories, HookInv, TypeOK
<1>4. Carried' /\ CommitInSync' /\ ReadmeTextSurvives'
  BY <1>1, <1>2 DEF histories, HookInv, Carried, CommitInSync, ReadmeTextSurvives
<1> QED BY <1>3, <1>4 DEF HookInv

LEMMA WriteHook == ASSUME HookInv, Write PROVE HookInv'
<1>1. /\ pc = "write" /\ pc' \in {"add", "idle"} /\ changed' = {}
      /\ UNCHANGED <<index, head, mode, seen, text, steps, latest, lapsed, excused>>
  BY DEF Write
<1>2. PICK readme \in Readmes :
        /\ tree' = [tree EXCEPT !.readme = readme] /\ readme.badges = text.badges
        /\ readme = text \/ tree.readme # Torn
  <2>1. text \in Readmes /\ Readme(text.badges, 0) \in Readmes
        /\ Readme(text.badges, 0).badges = text.badges
    BY TriggerAssumption DEF HookInv, TypeOK, Readme, Readmes
  <2>2. CASE tree' = [tree EXCEPT !.readme = text]
    BY <2>1, <2>2
  <2>3. CASE tree.readme # Torn /\ tree' = [tree EXCEPT !.readme = Readme(text.badges, 0)]
    BY <2>1, <2>3
  <2> QED BY <2>2, <2>3 DEF Write
<1>3. tree' \in Snapshots /\ tree'.readme = readme
  BY <1>2, ReadmePut DEF HookInv, TypeOK
<1>4. TypeOK'
  BY <1>1, <1>3 DEF HookInv, TypeOK
<1>5. Carried' /\ CommitInSync' /\ ReadmeTextSurvives'
  BY <1>1, <1>2, <1>3 DEF HookInv, Carried, CommitInSync, ReadmeTextSurvives
<1> QED BY <1>4, <1>5 DEF HookInv

LEMMA AddHook == ASSUME HookInv, Add PROVE HookInv'
<1>1. /\ pc = "add" /\ pc' = "commit"
      /\ index' = [index EXCEPT !.readme = tree.readme]
      /\ UNCHANGED <<tree, head, mode, seen, text, steps, histories>>
  BY DEF Add, Added
<1>2. tree.readme \in Readmes
  BY DEF HookInv, TypeOK, Snapshots
<1>3. index' \in Snapshots /\ index'.readme = tree.readme
  BY <1>1, <1>2, ReadmePut DEF HookInv, TypeOK
<1>4. TypeOK'
  BY <1>1, <1>3 DEF histories, HookInv, TypeOK
<1>5. Carried' /\ CommitInSync' /\ ReadmeTextSurvives'
  BY <1>1, <1>3 DEF histories, HookInv, Carried, CommitInSync, ReadmeTextSurvives
<1> QED BY <1>4, <1>5 DEF HookInv

\* The one step that moves the last commit.
LEMMA CommitHook == ASSUME HookInv, Commit PROVE HookInv'
<1>1. /\ pc = "commit" /\ pc' = "idle" /\ head' = index
      /\ UNCHANGED <<tree, index, mode, seen, text, steps, latest, lapsed, changed>>
  BY DEF Commit
<1>2. excused' \in SUBSET Docs
  BY DEF Commit, HookInv, TypeOK
<1>3. TypeOK'
  BY <1>1, <1>2 DEF HookInv, TypeOK
<1>4. Carried' /\ ReadmeTextSurvives'
  BY <1>1 DEF HookInv, Carried, ReadmeTextSurvives
<1>5. CommitInSync'
  <2>1. CASE seen = Unread
    BY <1>1, <2>1 DEF Commit, Differs, HookInv, CommitInSync
  <2>2. CASE seen # Unread
    <3>1. \A d \in Docs \ changed : index.readme.badges[d] = seen[d]
      BY <1>1, <2>2 DEF HookInv, Carried
    <3> QED BY <1>1, <2>2, <3>1 DEF Commit, CommitInSync
  <2> QED BY <2>1, <2>2
<1> QED BY <1>3, <1>4, <1>5 DEF HookInv

LEMMA NextHook == ASSUME HookInv, [Next]_vars PROVE HookInv'
<1>1. CASE UNCHANGED vars
  BY <1>1 DEF vars, histories, HookInv, TypeOK, Carried, CommitInSync, ReadmeTextSurvives
<1>2. CASE Next
  BY <1>2, EditDocHook, EditReadmeHook, StageHook, RestoreHook, ReadingHook,
     ReadReadmeHook, OpenHook, WriteHook, AddHook, CommitHook DEF Next, User
<1> QED BY <1>1, <1>2
-----------------------------------------------------------------------------
(* The bridge files. *)

\* What accounts for a text that is neither in its file nor in the backup, and
\* for one that is not in its file.
Lost(p)  == lapses[p] \cap {"cleaned", "copied twice", "raced"} # {}
Moved(p) == lapses[p] \cap {"forced", "cleaned", "met", "raced"} # {}
Copied(p) == "copied" \in lapses[p] \/ Lost(p)

\* A text is only displaced after it was copied; between the copy and the end of
\* the write it is in the backup; and it is only copied where a run is forced or
\* has met the user.
Displaced ==
  \A p \in B!Paths : B!Mine(newest[p]) /\ newest[p] # file[p] => Copied(p)
InTheBackup ==
  LET p == script.next IN
  /\ script.pc \in {"test", "copy", "open", "write", "remove"} => p \in B!Paths
  /\ script.pc \in {"open", "write"} /\ B!Mine(newest[p]) =>
       (newest[p] = bak[p] \/ Lost(p)) /\ Moved(p) /\ Copied(p)
  /\ script.pc \in {"test", "copy"} /\ script.mode # "force" /\ B!Mine(newest[p]) =>
       Moved(p)

BridgesInv == B!TypeOK /\ Displaced /\ InTheBackup /\ B!UserContentSurvives

Places == {"idle", "next", "test", "copy", "open", "write", "remove"}
Scripts == [pc : Places, mode : B!Modes, dry : BOOLEAN, next : 1..N + 1]

\* Where the script goes, and what becomes of a text's marks.
LEMMA ScriptGoes ==
  ASSUME B!TypeOK, NEW at \in Places, B!Goes(at)
  PROVE  /\ script' \in Scripts /\ script'.pc = at
         /\ script'.next = script.next /\ script'.mode = script.mode
BY DEF B!TypeOK, B!Goes, Scripts, Places

LEMMA ScriptGoesOn ==
  ASSUME B!TypeOK, script.next \in B!Paths, B!NextPath
  PROVE  script' \in Scripts /\ script'.pc = "next"
<1>1. script.next + 1 \in 1..N + 1
  BY BoundsAssumption DEF B!Paths
<1> QED BY <1>1 DEF B!TypeOK, B!NextPath, B!f, Scripts, Places

LEMMA IdleScript == B!Idle \in Scripts /\ B!Idle.pc = "idle"
BY BoundsAssumption DEF B!Idle, Scripts, Places, B!Modes

LEMMA CopyMarks ==
  ASSUME B!TypeOK, script.next \in B!Paths, B!MarksCopy
  PROVE  LET p == script.next IN
         /\ lapses' \in [B!Paths -> SUBSET B!Lapses]
         /\ \A q \in B!Paths : q # p => lapses'[q] = lapses[q]
         /\ lapses[p] \subseteq lapses'[p]
         /\ "copied" \in lapses[p] => "copied twice" \in lapses'[p]
         /\ "copied" \in lapses'[p] \/ "copied twice" \in lapses'[p]
         /\ script.mode = "force" => "forced" \in lapses'[p]
<1> DEFINE p == script.next
           what == {IF "copied" \in lapses[p] THEN "copied twice" ELSE "copied"}
                     \cup IF script.mode = "force" THEN {"forced"} ELSE {}
<1>1. lapses' = [lapses EXCEPT ![p] = lapses[p] \cup what]
  BY DEF B!MarksCopy, B!Marks, B!f, B!TypeOK
<1>2. /\ what \in SUBSET B!Lapses
      /\ "copied" \in lapses[p] => "copied twice" \in what
      /\ "copied" \in what \/ "copied twice" \in what
      /\ script.mode = "force" => "forced" \in what
  BY DEF B!Lapses
<1> HIDE DEF what
<1>3. lapses[p] \in SUBSET B!Lapses
  BY DEF B!TypeOK
<1>4. lapses'[p] = lapses[p] \cup what
  BY <1>1 DEF B!TypeOK
<1>5. \A q \in B!Paths : q # p => lapses'[q] = lapses[q]
  BY <1>1 DEF B!TypeOK
<1>6. lapses' \in [B!Paths -> SUBSET B!Lapses]
  BY <1>1, <1>2, <1>3 DEF B!TypeOK
<1> QED BY <1>2, <1>4, <1>5, <1>6

\* Where it is while it works on a file, it is not behind the last one.
LEMMA AtAFile ==
  ASSUME BridgesInv, script.pc \in {"test", "copy", "open", "write", "remove"}
  PROVE  script.next \in B!Paths /\ file[script.next] \in B!Texts
BY DEF BridgesInv, InTheBackup, B!TypeOK

\* A step that leaves every text where it is, and ends between two files.
LEMMA BetweenFiles ==
  ASSUME BridgesInv, script' \in Scripts, script'.pc \in {"idle", "next"},
         starts' \in 0..MaxStarts, UNCHANGED <<file, bak, newest, lapses>>
  PROVE  BridgesInv'
<1>1. B!TypeOK'
  BY DEF BridgesInv, B!TypeOK, Scripts, Places
<1>2. Displaced' /\ B!UserContentSurvives'
  BY DEF BridgesInv, Displaced, Copied, Lost, B!UserContentSurvives
<1>3. InTheBackup'
  BY DEF InTheBackup
<1> QED BY <1>1, <1>2, <1>3 DEF BridgesInv

\* One that leaves them, and goes on with a file.
LEMMA WithinAFile ==
  ASSUME BridgesInv, NEW at \in {"test", "copy", "open", "remove"}, B!Goes(at),
         UNCHANGED <<file, bak, newest, lapses, starts>>, InTheBackup'
  PROVE  BridgesInv'
<1>1. script' \in Scripts
  BY ScriptGoes DEF BridgesInv, Places
<1>2. B!TypeOK'
  BY <1>1 DEF BridgesInv, B!TypeOK, Scripts, Places
<1>3. Displaced' /\ B!UserContentSurvives'
  BY DEF BridgesInv, Displaced, Copied, Lost, B!UserContentSurvives
<1> QED BY <1>2, <1>3 DEF BridgesInv

LEMMA InitBridges == B!Init \/ BridgesWait => BridgesInv
<1> SUFFICES ASSUME B!Init \/ BridgesWait PROVE BridgesInv
  OBVIOUS
<1>1. /\ script = B!Idle /\ starts = 0 /\ bak = [p \in B!Paths |-> 0]
      /\ lapses = [p \in B!Paths |-> {}]
  BY DEF B!Init, BridgesWait, B!Begins, B!Absent
<1>2. newest \in [B!Paths -> 0..1] /\ file = newest
  BY DEF B!Init, BridgesWait, B!Absent
<1>3. B!TypeOK
  BY <1>1, <1>2, IdleScript, BoundsAssumption DEF B!TypeOK, B!Texts, Scripts, Places
<1>4. Displaced /\ InTheBackup /\ B!UserContentSurvives
  BY <1>1, <1>2, IdleScript DEF Displaced, InTheBackup, B!UserContentSurvives
<1> QED BY <1>3, <1>4 DEF BridgesInv

LEMMA MovesBetween == ASSUME BridgesInv, B!Start \/ B!Done PROVE BridgesInv'
<1>1. UNCHANGED <<file, bak, newest, lapses>>
  BY DEF B!Start, B!Done, B!history
<1>2. CASE B!Start
  <2>1. script' \in Scripts /\ script'.pc = "next"
    BY <1>2, BoundsAssumption DEF B!Start, Scripts, Places
  <2>2. starts' \in 0..MaxStarts
    BY <1>2, BoundsAssumption DEF B!Start, BridgesInv, B!TypeOK
  <2> QED BY <1>1, <2>1, <2>2, BetweenFiles
<1>3. CASE B!Done
  BY <1>1, <1>3, IdleScript, BetweenFiles DEF B!Done, B!history, BridgesInv, B!TypeOK
<1> QED BY <1>2, <1>3

LEMMA CleanTestBridges == ASSUME BridgesInv, B!CleanTest PROVE BridgesInv'
<1>1. /\ script.next \in B!Paths /\ UNCHANGED <<file, bak, newest, lapses, starts>>
      /\ B!Goes("remove") \/ B!NextPath
  BY BoundsAssumption DEF B!CleanTest, B!f, B!history, BridgesInv, B!TypeOK, B!Paths
<1>2. CASE B!NextPath
  BY <1>1, <1>2, ScriptGoesOn, BetweenFiles DEF BridgesInv, B!TypeOK
<1>3. CASE B!Goes("remove")
  <2>1. script'.pc = "remove" /\ script'.next = script.next
    BY <1>3, ScriptGoes DEF BridgesInv, Places
  <2>2. InTheBackup'
    BY <1>1, <2>1 DEF InTheBackup
  <2> QED BY <1>1, <1>3, <2>2, WithinAFile
<1> QED BY <1>1, <1>2, <1>3

LEMMA FirstTestBridges == ASSUME BridgesInv, B!FirstTest PROVE BridgesInv'
<1>1. /\ script.next \in B!Paths /\ UNCHANGED <<file, bak, newest, lapses, starts>>
      /\ \/ B!NextPath
         \/ B!Goes("test") /\ (file[script.next] = 0 \/ script.mode = "force")
  BY BoundsAssumption
     DEF B!FirstTest, B!Skips, B!Absent, B!f, B!history, BridgesInv, B!TypeOK, B!Paths
<1>2. CASE B!NextPath
  BY <1>1, <1>2, ScriptGoesOn, BetweenFiles DEF BridgesInv, B!TypeOK
<1>3. CASE B!Goes("test") /\ (file[script.next] = 0 \/ script.mode = "force")
  <2>1. /\ script'.pc = "test" /\ script'.next = script.next
        /\ script'.mode = script.mode
    BY <1>3, ScriptGoes DEF BridgesInv, Places
  <2>2. ASSUME script.mode # "force", B!Mine(newest[script.next])
        PROVE  Moved(script.next)
    <3>1. newest[script.next] # file[script.next]
      BY <1>3, <2>2, BoundsAssumption DEF B!Mine
    <3> QED BY <1>1, <2>2, <3>1 DEF BridgesInv, B!UserContentSurvives, Moved
  <2>3. InTheBackup'
    BY <1>1, <2>1, <2>2 DEF InTheBackup, Moved, B!Mine
  <2> QED BY <1>1, <1>3, <2>3, WithinAFile
<1> QED BY <1>1, <1>2, <1>3

LEMMA SecondTestBridges == ASSUME BridgesInv, B!SecondTest PROVE BridgesInv'
<1> DEFINE p == script.next
<1>1. /\ script.pc = "test" /\ p \in B!Paths
      /\ UNCHANGED <<file, bak, newest, lapses, starts>>
      /\ B!Goes("copy") \/ (B!Goes("open") /\ file[p] = 0)
  BY AtAFile DEF B!SecondTest, B!f, B!Absent, B!history
<1>2. CASE B!Goes("copy")
  <2>1. script'.pc = "copy" /\ script'.next = p /\ script'.mode = script.mode
    BY <1>2, ScriptGoes DEF BridgesInv, Places
  <2>2. InTheBackup'
    BY <1>1, <2>1 DEF BridgesInv, InTheBackup, Moved, B!Mine
  <2> QED BY <1>1, <1>2, <2>2, WithinAFile
<1>3. CASE B!Goes("open") /\ file[p] = 0
  <2>1. script'.pc = "open" /\ script'.next = p
    BY <1>3, ScriptGoes DEF BridgesInv, Places
  <2>2. ASSUME B!Mine(newest[p])
        PROVE  (newest[p] = bak[p] \/ Lost(p)) /\ Moved(p) /\ Copied(p)
    <3>1. newest[p] # file[p]
      BY <1>3, <2>2, BoundsAssumption DEF B!Mine
    <3>2. Copied(p)
      BY <1>1, <2>2, <3>1 DEF BridgesInv, Displaced
    <3> QED BY <1>1, <2>2, <3>1, <3>2 DEF BridgesInv, B!UserContentSurvives, Lost, Moved
  <2>3. InTheBackup'
    BY <1>1, <2>1, <2>2 DEF InTheBackup, Moved, Lost, Copied, B!Mine
  <2> QED BY <1>1, <1>3, <2>3, WithinAFile
<1> QED BY <1>1, <1>2, <1>3

LEMMA RemoveBridges == ASSUME BridgesInv, B!Remove PROVE BridgesInv'
<1> DEFINE p == script.next
<1>1. p \in B!Paths /\ UNCHANGED <<bak, newest, starts>>
  BY AtAFile DEF B!Remove, B!history
<1>2. CASE file[p] = 0
  BY <1>1, <1>2, IdleScript, BetweenFiles
     DEF B!Remove, B!f, B!Absent, BridgesInv, B!TypeOK
<1>3. CASE file[p] # 0
  <2>1. /\ B!NextPath /\ file' = [file EXCEPT ![p] = 0]
        /\ lapses' = [lapses EXCEPT ![p] = lapses[p] \cup {"cleaned"}]
    BY <1>3 DEF B!Remove, B!Marks, B!f, B!Absent
  <2>2. script' \in Scripts /\ script'.pc = "next"
    BY <1>1, <2>1, ScriptGoesOn DEF BridgesInv
  <2>3. lapses[p] \cup {"cleaned"} \in SUBSET B!Lapses /\ 0 \in B!Texts
    <3>1. lapses[p] \in SUBSET B!Lapses /\ 0 \in B!Texts
      BY <1>1, BoundsAssumption DEF BridgesInv, B!TypeOK, B!Texts
    <3> QED BY <3>1 DEF B!Lapses
  <2>4. /\ file' \in [B!Paths -> B!Texts] /\ lapses' \in [B!Paths -> SUBSET B!Lapses]
        /\ "cleaned" \in lapses'[p]
        /\ \A q \in B!Paths : q # p => file'[q] = file[q] /\ lapses'[q] = lapses[q]
    BY <1>1, <2>1, <2>3 DEF BridgesInv, B!TypeOK
  <2>5. B!TypeOK'
    BY <1>1, <2>2, <2>4 DEF BridgesInv, B!TypeOK, Scripts, Places
  <2>6. InTheBackup'
    BY <2>2 DEF InTheBackup
  <2>7. Displaced' /\ B!UserContentSurvives'
    BY <1>1, <2>4 DEF BridgesInv, Displaced, Copied, Lost, B!UserContentSurvives
  <2> QED BY <2>5, <2>6, <2>7 DEF BridgesInv
<1> QED BY <1>2, <1>3

\* A copy of the user's last text that is not made from the file is one of a
\* text that was copied before, or is accounted for.
LEMMA MarkedCopies ==
  ASSUME BridgesInv, script.pc = "copy", B!MarksCopy, UNCHANGED <<file, newest>>,
         \A q \in B!Paths : q # script.next => bak'[q] = bak[q]
  PROVE  LET p == script.next
             lost == lapses'[p] \cap {"cleaned", "copied twice", "raced"} # {} IN
         /\ Displaced' /\ B!UserContentSurvives'
         /\ lost \/ "copied" \in lapses'[p]
         /\ B!Mine(newest[p]) => newest[p] = file[p] \/ lost
<1> DEFINE p == script.next
<1>1. p \in B!Paths
  BY AtAFile
<1>2. /\ \A q \in B!Paths : q # p => lapses'[q] = lapses[q]
      /\ lapses[p] \subseteq lapses'[p]
      /\ "copied" \in lapses[p] => "copied twice" \in lapses'[p]
      /\ "copied" \in lapses'[p] \/ "copied twice" \in lapses'[p]
  BY <1>1, CopyMarks DEF BridgesInv
<1>3. lapses'[p] \cap {"cleaned", "copied twice", "raced"} # {} \/ "copied" \in lapses'[p]
  BY <1>2
<1>4. ASSUME B!Mine(newest[p]), newest[p] # file[p]
      PROVE  lapses'[p] \cap {"cleaned", "copied twice", "raced"} # {}
  <2>1. Copied(p)
    BY <1>1, <1>4 DEF BridgesInv, Displaced
  <2> QED BY <1>2, <2>1 DEF Copied, Lost
<1>5. Displaced'
  BY <1>2, <1>3 DEF BridgesInv, Displaced, Copied, Lost
<1>6. B!UserContentSurvives'
  <2> SUFFICES ASSUME NEW q \in B!Paths, B!Mine(newest'[q])
               PROVE  /\ \/ newest'[q] \in {file'[q], bak'[q]}
                         \/ lapses'[q] \cap {"cleaned", "copied twice", "raced"} # {}
                      /\ \/ newest'[q] = file'[q]
                         \/ lapses'[q] \cap {"forced", "cleaned", "met", "raced"} # {}
    BY DEF B!UserContentSurvives
  <2>1. CASE q # p
    BY <1>2, <2>1 DEF BridgesInv, B!UserContentSurvives
  <2>2. CASE q = p
    BY <1>1, <1>2, <1>4, <2>2 DEF BridgesInv, B!UserContentSurvives
  <2> QED BY <2>1, <2>2
<1> QED BY <1>3, <1>4, <1>5, <1>6

LEMMA CopyBridges == ASSUME BridgesInv, B!Copy PROVE BridgesInv'
<1> DEFINE p == script.next
<1>1. p \in B!Paths /\ file[p] \in B!Texts /\ UNCHANGED <<file, newest, starts>>
      /\ script.pc = "copy"
  BY AtAFile DEF B!Copy, B!history
<1>2. CASE file[p] = 0
  BY <1>1, <1>2, IdleScript, BetweenFiles
     DEF B!Copy, B!f, B!Absent, BridgesInv, B!TypeOK
<1>3. CASE file[p] # 0
  <2>1. /\ bak' = [bak EXCEPT ![p] = file[p]] /\ B!MarksCopy /\ B!Goes("open")
    BY <1>3 DEF B!Copy, B!Copied, B!f, B!Absent
  <2>2. /\ script' \in Scripts /\ script'.pc = "open" /\ script'.next = p
        /\ script'.mode = script.mode
    BY <2>1, ScriptGoes DEF BridgesInv, Places
  <2>3. /\ bak' \in [B!Paths -> B!Texts] /\ bak'[p] = file[p]
        /\ \A q \in B!Paths : q # p => bak'[q] = bak[q]
    BY <1>1, <2>1 DEF BridgesInv, B!TypeOK
  <2>4. /\ lapses' \in [B!Paths -> SUBSET B!Lapses] /\ lapses[p] \subseteq lapses'[p]
        /\ script.mode = "force" => "forced" \in lapses'[p]
    BY <1>1, <2>1, CopyMarks DEF BridgesInv
  <2>5. /\ Displaced' /\ B!UserContentSurvives'
        /\ \/ lapses'[p] \cap {"cleaned", "copied twice", "raced"} # {}
           \/ "copied" \in lapses'[p]
        /\ B!Mine(newest[p]) =>
             \/ newest[p] = file[p]
             \/ lapses'[p] \cap {"cleaned", "copied twice", "raced"} # {}
    BY <1>1, <2>1, <2>3, MarkedCopies
  <2>6. B!TypeOK'
    BY <1>1, <2>2, <2>3, <2>4 DEF BridgesInv, B!TypeOK, Scripts, Places
  <2>7. B!Mine(newest[p]) => lapses'[p] \cap {"forced", "cleaned", "met", "raced"} # {}
    <3>1. CASE script.mode = "force"
      BY <2>4, <3>1
    <3>2. CASE script.mode # "force"
      BY <1>1, <2>4, <3>2 DEF BridgesInv, InTheBackup, Moved
    <3> QED BY <3>1, <3>2
  <2>8. InTheBackup'
    <3>1. newest'[script'.next] = newest[p] /\ bak'[script'.next] = file[p]
          /\ lapses'[script'.next] = lapses'[p]
      BY <1>1, <2>2, <2>3
    <3> QED BY <1>1, <2>2, <2>5, <2>7, <3>1
            DEF InTheBackup, Moved, Lost, Copied, B!Mine
  <2> QED BY <2>5, <2>6, <2>8 DEF BridgesInv
<1> QED BY <1>2, <1>3

\* The bridge is written over what the backup holds.
LEMMA OverwriteBridges ==
  ASSUME BridgesInv, B!Open \/ B!Write
  PROVE  BridgesInv'
<1> DEFINE p == script.next
<1>1. /\ p \in B!Paths /\ UNCHANGED <<bak, newest, lapses, starts>>
      /\ script.pc \in {"open", "write"}
  BY AtAFile DEF B!Open, B!Write, B!history
<1>2. PICK over \in {0, B!Bridge, B!Torn} : file' = [file EXCEPT ![p] = over]
  BY DEF B!Open, B!Write, B!f, B!Absent
<1>3. over \in B!Texts /\ ~B!Mine(over)
  BY BoundsAssumption DEF B!Texts, B!Mine, B!Bridge, B!Torn
<1>4. /\ file' \in [B!Paths -> B!Texts] /\ file'[p] = over
      /\ \A q \in B!Paths : q # p => file'[q] = file[q]
  BY <1>1, <1>2, <1>3 DEF BridgesInv, B!TypeOK
<1>5. /\ script' \in Scripts
      /\ \/ script'.pc = "next"
         \/ script'.pc = "write" /\ script'.next = p
  BY <1>1, ScriptGoes, ScriptGoesOn DEF B!Open, B!Write, BridgesInv, Places
<1>6. B!TypeOK'
  BY <1>1, <1>4, <1>5 DEF BridgesInv, B!TypeOK, Scripts, Places
<1>7. B!Mine(newest[p]) => (newest[p] = bak[p] \/ Lost(p)) /\ Moved(p) /\ Copied(p)
  BY <1>1 DEF BridgesInv, InTheBackup
<1>8. Displaced'
  BY <1>1, <1>4, <1>7 DEF BridgesInv, Displaced, Copied, Lost, B!Mine
<1>9. B!UserContentSurvives'
  BY <1>1, <1>4, <1>7 DEF BridgesInv, B!UserContentSurvives, Lost, Moved, B!Mine
<1>10. InTheBackup'
  BY <1>1, <1>5, <1>7 DEF InTheBackup, Lost, Moved, Copied, B!Mine
<1> QED BY <1>6, <1>8, <1>9, <1>10 DEF BridgesInv

LEMMA StopBridges == ASSUME BridgesInv, B!Stop PROVE BridgesInv'
<1> DEFINE p == script.next
<1>1. script' = B!Idle /\ UNCHANGED <<file, newest, starts>>
  BY DEF B!Stop, B!history
<1>2. script' \in Scripts /\ script'.pc = "idle"
  BY <1>1, IdleScript
<1>3. CASE UNCHANGED <<bak, lapses>>
  BY <1>1, <1>2, <1>3, BetweenFiles DEF BridgesInv, B!TypeOK
<1>4. CASE script.pc = "copy" /\ bak' = [bak EXCEPT ![p] = B!Torn] /\ B!MarksCopy
  <2>1. p \in B!Paths /\ B!Torn \in B!Texts
    BY <1>4, AtAFile, BoundsAssumption DEF B!Torn, B!Texts
  <2>2. /\ bak' \in [B!Paths -> B!Texts]
        /\ \A q \in B!Paths : q # p => bak'[q] = bak[q]
    BY <1>4, <2>1 DEF BridgesInv, B!TypeOK
  <2>3. lapses' \in [B!Paths -> SUBSET B!Lapses]
    BY <1>4, <2>1, CopyMarks DEF BridgesInv
  <2>4. Displaced' /\ B!UserContentSurvives'
    BY <1>1, <1>4, <2>2, MarkedCopies
  <2>5. B!TypeOK'
    BY <1>1, <1>2, <2>2, <2>3 DEF BridgesInv, B!TypeOK, Scripts, Places
  <2>6. InTheBackup'
    BY <1>2 DEF InTheBackup
  <2> QED BY <2>4, <2>5, <2>6 DEF BridgesInv
<1> QED BY <1>3, <1>4 DEF B!Stop, B!f

LEMMA UserWritesBridges ==
  ASSUME BridgesInv, NEW p \in B!Paths, B!UserWrites(p)
  PROVE  BridgesInv'
<1> DEFINE what == CASE p = script.next /\ script.pc \in {"test", "copy"}  -> {"met"}
                     [] p = script.next /\ script.pc \in {"open", "write"} -> {"raced"}
                     [] OTHER -> {}
<1>1. /\ UNCHANGED <<bak, script, starts>>
      /\ newest[p] \in Nat /\ newest[p] < MaxVersions
      /\ newest' = [newest EXCEPT ![p] = newest[p] + 1]
      /\ file' = [file EXCEPT ![p] = newest[p] + 1]
      /\ lapses' = [lapses EXCEPT ![p] = what]
  BY DEF B!UserWrites, B!f, BridgesInv, B!TypeOK
<1>2. /\ what \in SUBSET B!Lapses
      /\ p = script.next /\ script.pc \in {"test", "copy"} => "met" \in what
      /\ p = script.next /\ script.pc \in {"open", "write"} => "raced" \in what
  BY DEF B!Lapses
<1> HIDE DEF what
<1>3. /\ newest[p] + 1 \in 0..MaxVersions /\ newest[p] + 1 \in B!Texts
  BY <1>1, BoundsAssumption DEF B!Texts
<1>4. /\ file' \in [B!Paths -> B!Texts] /\ newest' \in [B!Paths -> 0..MaxVersions]
      /\ lapses' \in [B!Paths -> SUBSET B!Lapses]
      /\ file'[p] = newest'[p] /\ lapses'[p] = what
      /\ \A q \in B!Paths : q # p =>
           file'[q] = file[q] /\ newest'[q] = newest[q] /\ lapses'[q] = lapses[q]
  BY <1>1, <1>2, <1>3 DEF BridgesInv, B!TypeOK
<1>5. B!TypeOK'
  BY <1>1, <1>4 DEF BridgesInv, B!TypeOK
<1>6. Displaced' /\ B!UserContentSurvives'
  BY <1>1, <1>4 DEF BridgesInv, Displaced, Copied, Lost, B!UserContentSurvives
<1>7. InTheBackup'
  <2>1. CASE p = script.next
    BY <1>1, <1>2, <1>4, <2>1 DEF BridgesInv, InTheBackup, Lost, Moved, Copied
  <2>2. CASE p # script.next
    BY <1>1, <1>4, <2>2 DEF BridgesInv, InTheBackup, Lost, Moved, Copied
  <2> QED BY <2>1, <2>2
<1> QED BY <1>5, <1>6, <1>7 DEF BridgesInv

LEMMA UserRemovesBridges ==
  ASSUME BridgesInv, NEW p \in B!Paths, B!UserRemoves(p)
  PROVE  BridgesInv'
<1>1. /\ UNCHANGED <<bak, script, starts>>
      /\ newest' = [newest EXCEPT ![p] = 0]
      /\ file' = [file EXCEPT ![p] = 0]
      /\ lapses' = [lapses EXCEPT ![p] = {}]
  BY DEF B!UserRemoves, B!Absent
<1>2. 0 \in B!Texts /\ 0 \in 0..MaxVersions
  BY BoundsAssumption DEF B!Texts
<1>3. /\ file' \in [B!Paths -> B!Texts] /\ newest' \in [B!Paths -> 0..MaxVersions]
      /\ lapses' \in [B!Paths -> SUBSET B!Lapses] /\ newest'[p] = 0
      /\ \A q \in B!Paths : q # p =>
           file'[q] = file[q] /\ newest'[q] = newest[q] /\ lapses'[q] = lapses[q]
  BY <1>1, <1>2 DEF BridgesInv, B!TypeOK
<1>4. B!TypeOK' /\ ~B!Mine(newest'[p])
  BY <1>1, <1>3, BoundsAssumption DEF BridgesInv, B!TypeOK, B!Mine
<1>5. Displaced' /\ B!UserContentSurvives'
  BY <1>1, <1>3, <1>4 DEF BridgesInv, Displaced, Copied, Lost, B!UserContentSurvives, B!Mine
<1>6. InTheBackup'
  BY <1>1, <1>3, <1>4 DEF BridgesInv, InTheBackup, Lost, Moved, Copied, B!Mine
<1> QED BY <1>4, <1>5, <1>6 DEF BridgesInv

LEMMA NextBridges == ASSUME BridgesInv, [B!Next]_(B!vars) PROVE BridgesInv'
<1>1. CASE UNCHANGED B!vars
  BY <1>1 DEF B!vars, BridgesInv, B!TypeOK, Displaced, InTheBackup, B!UserContentSurvives,
       Lost, Moved, Copied
<1>2. CASE B!Next
  BY <1>2, MovesBetween, CleanTestBridges, FirstTestBridges, SecondTestBridges,
     RemoveBridges, CopyBridges, OverwriteBridges, StopBridges, UserWritesBridges,
     UserRemovesBridges DEF B!Next
<1> QED BY <1>1, <1>2
-----------------------------------------------------------------------------
(* All of them, of which one is looked at. *)

SharedInv == OrdersInv /\ LedgerInv /\ HookInv /\ BridgesInv

\* A program that is not looked at does not move, and a state that its part
\* would never have started in otherwise is one of its own all the same.
LEMMA SharedStarts == SharedInit => SharedInv
<1> SUFFICES ASSUME SharedInit PROVE SharedInv
  OBVIOUS
<1>1. O!Init /\ (L!Init \/ LedgerWaits) /\ (Init \/ HookWaits) /\ (B!Init \/ BridgesWait)
  BY DEF SharedInit
<1> QED BY <1>1, InitOrders, InitLedger, InitHook, InitBridges DEF SharedInv

LEMMA SharedSteps ==
  [SharedNext]_sharedVars =>
    [O!Next]_(O!vars) /\ [L!Next]_(L!vars) /\ [Next]_vars /\ [B!Next]_(B!vars)
<1> SUFFICES ASSUME [SharedNext]_sharedVars
             PROVE  [O!Next]_(O!vars) /\ [L!Next]_(L!vars) /\ [Next]_vars /\ [B!Next]_(B!vars)
  OBVIOUS
<1>1. /\ O!Next \/ UNCHANGED orderVars
      /\ L!Next \/ UNCHANGED ledgerVars
      /\ Next \/ UNCHANGED vars
      /\ B!Next \/ UNCHANGED bridgeVars
  BY DEF SharedNext, sharedVars
<1>2. /\ UNCHANGED orderVars => UNCHANGED O!vars
      /\ UNCHANGED ledgerVars => UNCHANGED L!vars
      /\ UNCHANGED bridgeVars => UNCHANGED B!vars
  BY DEF orderVars, ledgerVars, bridgeVars, O!vars, L!vars, B!vars
<1> QED BY <1>1, <1>2

LEMMA SharedInvariance == SharedSpec => []SharedInv
<1>1. SharedInv /\ [SharedNext]_sharedVars => SharedInv'
  BY SharedSteps, NextOrders, NextLedger, NextHook, NextBridges DEF SharedInv
<1> QED BY <1>1, SharedStarts, PTL DEF SharedSpec

\* The state of the hook, of the harness, of the bridges' script and of the
\* example's repository stays of its type (sync_readme_badges.py:108-152,
\* recoupling_harness.py:108-158, setup_tool_bridges.sh:44-106,
\* infrastructure/__init__.py:18-28).
THEOREM SharedTypesCorrect == SharedSpec => []SharedTypes
<1>1. SharedInv => SharedTypes
  BY DEF SharedInv, OrdersInv, LedgerInv, HookInv, BridgesInv, SharedTypes
<1> QED BY <1>1, SharedInvariance, PTL

\* However many runs of the harness there are, and wherever they are killed, a
\* reported row is only missing if its run met another one, and the ledger can
\* only not be read while one writes, after one was killed or after two met
\* (append_ledger_row, recoupling_harness.py:108-122).
THEOREM RowsSurviveAll == SharedSpec => []RowsSurvive
<1>1. SharedInv => RowsSurvive
  BY DEF SharedInv, LedgerInv, RowsSurvive
<1> QED BY <1>1, SharedInvariance, PTL

\* Whatever the user edits, saves over README.md, stages and restores, and when, the
\* hook's whole run included: a badge of the last commit says what its document
\* there says, but for a document that was read in another text than the one
\* committed, one whose badge the user has changed between the script's write and
\* the commit, and what a commit brings that the hook lets pass
\* (.githooks/pre-commit:14-17, sync_readme_badges.py:108-152).
THEOREM CommitsInSync == SharedSpec => []CommitInSync
<1>1. SharedInv => CommitInSync
  BY DEF SharedInv, HookInv
<1> QED BY <1>1, SharedInvariance, PTL

\* However many bridge files there are and however often their script is
\* started, forced, stopped and met by the user, the user's texts survive in them
\* or in their backups, and in README.md, but where the exceptions stated occur
\* (setup_tool_bridges.sh:60-98, sync_readme_badges.py:115-152).
THEOREM UserTextsSurvive == SharedSpec => []UserTextSurvives
<1>1. SharedInv => UserTextSurvives
  BY DEF SharedInv, HookInv, BridgesInv, UserTextSurvives
<1> QED BY <1>1, SharedInvariance, PTL

\* However many callers hold an order, the same object all of them, and advance it
\* in turn: what they have done to it together is one way through _TRANSITIONS,
\* unless somebody has made a second order under its id (domain/__init__.py:23-56).
THEOREM OrdersAreLegal == SharedSpec => []OrderIsLegal
<1>1. SharedInv => OrderIsLegal
  BY LifeIsLegal DEF SharedInv, OrderIsLegal
<1> QED BY <1>1, SharedInvariance, PTL

\* A lookup shows what was saved last or what transitions have made of it since,
\* never a status before it, whichever callers advance the object that is stored
\* and whichever object is saved over it under the same id
\* (infrastructure/__init__.py:18-28).
THEOREM SavedStays == SharedSpec => []SavedIsNeverUndone
<1>1. SharedInv => SavedIsNeverUndone
  BY DEF SharedInv, OrdersInv, SavedIsNeverUndone
<1> QED BY <1>1, SharedInvariance, PTL
=============================================================================
