----------------------------- MODULE MCOperations -----------------------------
(***************************************************************************)
(* The services beside the payments share the ledger and nothing else here *)
(* that their properties tell apart.  A behaviour is one of cash pickup,   *)
(* of bulk payments, of program purses or of data orders.                  *)
(***************************************************************************)
EXTENDS Remittance, BulkPay, Purse, DataOrder, TLC

CONSTANTS d1, d2, w1, w2, a1, a2, b1, p1, m1, x1

VARIABLE focus  \* the service of this behaviour

OperationsInit ==
  /\ focus \in {"remittance", "bulk", "purse", "data"}
  /\ RemittanceInit /\ BulkInit /\ PurseInit /\ DataInit

OperationsNext ==
  /\ UNCHANGED focus
  /\ \/ focus = "remittance" /\ RemittanceNext /\ UNCHANGED <<bulkVars, purseVars, dataVars>>
     \/ focus = "bulk" /\ BulkNext /\ UNCHANGED <<remittanceVars, purseVars, dataVars>>
     \/ focus = "purse" /\ PurseNext /\ UNCHANGED <<remittanceVars, bulkVars, dataVars>>
     \/ focus = "data" /\ DataNext /\ UNCHANGED <<remittanceVars, bulkVars, purseVars>>

OperationsSpec ==
  OperationsInit /\ [][OperationsNext]_<<focus, remittanceVars, bulkVars, purseVars, dataVars>>

OperationsTypeOK == RemittanceTypeOK /\ BulkTypeOK /\ PurseTypeOK /\ DataTypeOK

\* The services are never in one behaviour, so they share the names of what they
\* work on and of who does the work.
TwoDeals   == {d1, d2}  \* remittances, items of a batch, payments, data orders
TwoActors  == {w1, w2}  \* consoles, location replies, grants, workers
TwoAgents  == {a1, a2}
OneBatch   == {b1}
OnePurse   == {p1}
OneShop    == {m1}
OneCommand == {x1}

\* No property tells them apart.
Symmetry == Permutations(TwoDeals) \union Permutations(TwoActors)
=============================================================================
