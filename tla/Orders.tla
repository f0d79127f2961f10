------------------------------- MODULE Orders -------------------------------
(***************************************************************************)
(* The example the template ships with: an order with a state machine, the *)
(* use cases that advance it, and a repository in memory.  The repository  *)
(* keeps the object it is given and hands out that very object, so that    *)
(* its callers share one order, and one of them advances what another has  *)
(* saved.  The constructor takes an id, under which an order may be made   *)
(* that exists already.                                                    *)
(***************************************************************************)
EXTENDS Naturals, Sequences

CONSTANTS Callers,     \* who call the use cases, each with a variable of its own
          MaxObjects   \* bound of the model: Order objects that are made

VARIABLES
  heap,    \* the objects: [id, status], in the order they were made
  store,   \* the repository: id -> object, or 0
  holds,   \* caller -> the object its variable refers to, or 0
  log,     \* history: id -> the statuses its transitions have reached
  saved,   \* history: id -> the status it had when it was last saved
  remade   \* history: ids under which a second object was made

vars == <<heap, store, holds, log, saved, remade>>

Statuses == {"pending", "confirmed", "shipped", "delivered", "cancelled"}
Ids == 1..MaxObjects
Objects == DOMAIN heap

\* _TRANSITIONS
Transitions_Late(s) ==   \* mutant: a shipped order can be cancelled
  CASE s = "pending"   -> {"confirmed", "cancelled"}
    [] s = "confirmed" -> {"shipped", "cancelled"}
    [] s = "shipped"   -> {"delivered", "cancelled"}
    [] OTHER           -> {}
Transitions(s) ==
  CASE s = "pending"   -> {"confirmed", "cancelled"}
    [] s = "confirmed" -> {"shipped", "cancelled"}
    [] s = "shipped"   -> {"delivered"}
    [] OTHER           -> {}

TypeOK ==
  /\ heap \in Seq([id : Ids, status : Statuses]) /\ Len(heap) <= MaxObjects
  /\ store \in [Ids -> 0..Len(heap)]
  /\ holds \in [Callers -> 0..Len(heap)]
  /\ log \in [Ids -> Seq(Statuses)]
  /\ saved \in [Ids -> Statuses]
  /\ remade \subseteq Ids

Init ==
  /\ heap = << >>
  /\ store = [i \in Ids |-> 0]
  /\ holds = [c \in Callers |-> 0]
  /\ log = [i \in Ids |-> << >>]
  /\ saved = [i \in Ids |-> "pending"]
  /\ remade = {}

\* Order(...): the object is pending, whatever its id.
Makes(c, i) ==
  /\ Len(heap) < MaxObjects
  /\ heap' = Append(heap, [id |-> i, status |-> "pending"])
  /\ holds' = [holds EXCEPT ![c] = Len(heap) + 1]
  /\ UNCHANGED <<store, log, saved>>

\* place_order: the order gets an id of its own.
Place(c) == Makes(c, Len(heap) + 1) /\ UNCHANGED remade

\* The constructor, with the id of an order that was placed.
Remake(c) == \E o \in Objects : Makes(c, heap[o].id) /\ remade' = remade \cup {heap[o].id}

Stored_First(i, o) == IF store[i] = 0 THEN o ELSE store[i]   \* mutant: setdefault
Stored(i, o) == o

Save(c) ==
  LET o == holds[c]
      i == heap[o].id
  IN  /\ o # 0
      /\ store' = [store EXCEPT ![i] = Stored(i, o)]
      /\ saved' = [saved EXCEPT ![i] = heap[o].status]
      /\ UNCHANGED <<heap, holds, log, remade>>

\* get and all: None is 0.
Got_Copy(c, i) ==   \* mutant: get copies what is stored, as a database would
  /\ Len(heap) < MaxObjects /\ store[i] # 0
  /\ heap' = Append(heap, heap[store[i]])
  /\ holds' = [holds EXCEPT ![c] = Len(heap) + 1]
Got(c, i) == holds' = [holds EXCEPT ![c] = store[i]] /\ UNCHANGED heap

Get(c) ==
  /\ \E i \in Ids : Got(c, i)
  /\ UNCHANGED <<store, log, saved, remade>>

\* confirm_order, ship_order, cancel and deliver; elsewhere they raise.
Advance(c, status) ==
  LET o == holds[c] IN
  /\ o # 0
  /\ status \in Transitions(heap[o].status)
  /\ heap' = [heap EXCEPT ![o].status = status]
  /\ log' = [log EXCEPT ![heap[o].id] = Append(@, status)]
  /\ UNCHANGED <<store, holds, saved, remade>>

Next ==
  \E c \in Callers :
    \/ Place(c) \/ Remake(c) \/ Save(c) \/ Get(c)
    \/ \E status \in Statuses : Advance(c, status)

Spec == Init /\ [][Next]_vars

-----------------------------------------------------------------------------
(* Properties. *)

\* What all callers together have done to an order is a way through its life:
\* nothing that was cancelled is shipped, nothing is shipped or cancelled twice.
\* No step could tell, for each looks at the status of one object; it is so as
\* long as nobody makes a second object under the id.
OrderIsLegal ==
  \A i \in Ids \ remade :
    log[i] \in {<< >>, <<"confirmed">>, <<"cancelled">>, <<"confirmed", "shipped">>,
                <<"confirmed", "cancelled">>, <<"confirmed", "shipped", "delivered">>}

\* A lookup need not show what was saved last, for whoever holds the object moves
\* it without saving; but what it shows has come from there by transitions, never
\* back to a status before it, even where two objects have one id.
Beyond(status) ==
  CASE status = "pending"   -> Statuses
    [] status = "confirmed" -> Statuses \ {"pending"}
    [] status = "shipped"   -> {"shipped", "delivered"}
    [] OTHER                -> {status}
SavedIsNeverUndone ==
  \A i \in Ids : store[i] # 0 => heap[store[i]].status \in Beyond(saved[i])
=============================================================================
