------------------------------- MODULE Shared -------------------------------
(***************************************************************************)
(* Programs that read something, change it in memory and write it back     *)
(* while somebody else may do the same, under no lock: the pre-commit hook *)
(* and README.md, the re-coupling harness and its ledger, the bridge files *)
(* of the coding tools, and the example's order repository.  They share    *)
(* nothing with each other, so one of them is looked at at a time.         *)
(***************************************************************************)
EXTENDS BadgeHook

CONSTANTS Runs,                      \* as in Ledger
          N, MaxVersions, MaxStarts, \* as in Bridges
          Callers, MaxObjects        \* as in Orders

ASSUME BoundsAssumption ==
  N \in Nat /\ MaxVersions \in Nat \ {0} /\ MaxStarts \in Nat /\ MaxObjects \in Nat

VARIABLES
  program,   \* the one that is looked at
  ledger, run, met,                            \* Ledger
  file, bak, script, starts, newest, lapses,   \* Bridges
  heap, store, holds, log, saved, remade       \* Orders

L == INSTANCE Ledger
B == INSTANCE Bridges
O == INSTANCE Orders

ledgerVars == <<ledger, run, met>>
bridgeVars == <<file, bak, script, starts, newest, lapses>>
orderVars  == <<heap, store, holds, log, saved, remade>>
sharedVars == <<program, vars, ledgerVars, bridgeVars, orderVars>>

\* The files of a program that is not looked at do not matter.
HookWaits ==
  tree = [docs |-> [d \in Docs |-> 0], readme |-> Readme([d \in Docs |-> 0], 1)] /\ Begins
LedgerWaits == ledger = L!File("absent", {}) /\ L!Begins
BridgesWait ==
  newest = [p \in B!Paths |-> 0] /\ file = [p \in B!Paths |-> B!Absent] /\ B!Begins

SharedInit ==
  \/ program = "hook" /\ Init /\ LedgerWaits /\ BridgesWait /\ O!Init
  \/ program = "ledger" /\ L!Init /\ HookWaits /\ BridgesWait /\ O!Init
  \/ program = "bridges" /\ B!Init /\ HookWaits /\ LedgerWaits /\ O!Init
  \/ program = "orders" /\ O!Init /\ HookWaits /\ LedgerWaits /\ BridgesWait

SharedNext ==
  \/ program = "hook" /\ Next /\ UNCHANGED <<program, ledgerVars, bridgeVars, orderVars>>
  \/ program = "ledger" /\ L!Next /\ UNCHANGED <<program, vars, bridgeVars, orderVars>>
  \/ program = "bridges" /\ B!Next /\ UNCHANGED <<program, vars, ledgerVars, orderVars>>
  \/ program = "orders" /\ O!Next /\ UNCHANGED <<program, vars, ledgerVars, bridgeVars>>

SharedSpec == SharedInit /\ [][SharedNext]_sharedVars

SharedTypes == TypeOK /\ L!TypeOK /\ B!TypeOK /\ O!TypeOK

\* As stated in the modules: no appended row is lost, no order takes a way that
\* is not one, and no lookup shows less than was saved, unless as said there.
RowsSurvive        == L!RowsSurvive
OrderIsLegal       == O!OrderIsLegal
SavedIsNeverUndone == O!SavedIsNeverUndone

\* As stated in the modules: the texts a user has written, into a bridge file
\* or around the badges of README.md, outlive the scripts that write there.
UserTextSurvives == ReadmeTextSurvives /\ B!UserContentSurvives
=============================================================================
