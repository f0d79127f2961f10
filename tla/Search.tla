------------------------------- MODULE Search -------------------------------
(***************************************************************************)
(* What a search through a prerequisite graph promises: it finds what can  *)
(* be reached from its goal, or reports a target that has no rule.  The    *)
(* two work lists that read the Makefile, closure of check_population and  *)
(* expand_prerequisites of drill_ci_coverage, implement it.                *)
(***************************************************************************)
CONSTANT Nodes

VARIABLES
  goal, edges,   \* the question
  broken,        \* nodes at which the search must stop with an error
  found, state

question == <<goal, edges, broken>>
vars == <<question, found, state>>

Closed(S) == \A n \in S \ broken : edges[n] \subseteq S
Reach == {n \in Nodes : \A S \in SUBSET Nodes : goal \subseteq S /\ Closed(S) => n \in S}

Init ==
  /\ goal \in SUBSET Nodes
  /\ edges \in [Nodes -> SUBSET Nodes]
  /\ broken \in SUBSET Nodes
  /\ found \in SUBSET Reach
  /\ state = "searching"

Grow ==
  /\ state = "searching"
  /\ found' \in SUBSET Reach /\ found \subseteq found'
  /\ UNCHANGED <<question, state>>

Finish ==
  /\ state = "searching"
  /\ found = Reach /\ Reach \cap broken = {}
  /\ state' = "found"
  /\ UNCHANGED <<question, found>>

Fail ==
  /\ state = "searching"
  /\ Reach \cap broken # {}
  /\ state' = "failed"
  /\ UNCHANGED <<question, found>>

\* The next call, with another goal in the same graph.
Ask ==
  /\ state = "found"
  /\ goal' \in SUBSET Nodes /\ found' = {}
  /\ state' = "searching"
  /\ UNCHANGED <<edges, broken>>

Next == Grow \/ Finish \/ Fail \/ Ask

Spec == Init /\ [][Next]_vars
=============================================================================
