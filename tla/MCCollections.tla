---------------------------- MODULE MCCollections ----------------------------
(***************************************************************************)
(* Purchases and thrift groups share nothing but the journal they post to. *)
(* A behaviour has payments of one of the two, the other stays as it is,   *)
(* so one run explores both.                                               *)
(***************************************************************************)
EXTENDS Purchases, Thrift, TLC

CONSTANTS p1, p2, p3, h1, h2, ana, ben, c1, c2, c3, c4

VARIABLE focus  \* which of the two has payments

allVars == <<focus, ledgerVars, purchaseVars, thriftVars>>

CollectionsInit ==
  /\ focus \in {"purchases", "thrift"}
  /\ LedgerInit /\ PurchasesInit /\ ThriftInit
  /\ focus = "thrift" => purpose = CHOOSE f \in Purposes : TRUE

CollectionsNext ==
  /\ UNCHANGED focus
  /\ \/ focus = "purchases" /\ PurchasesNext /\ UNCHANGED thriftVars
     \/ focus = "thrift"    /\ ThriftNext    /\ UNCHANGED purchaseVars

CollectionsSpec == CollectionsInit /\ [][CollectionsNext]_allVars

TypeOK == PurchasesTypeOK /\ ThriftTypeOK

\* Three payments of an invoice of 3, of a tier or a service of 2.
ThreePayments == {p1, p2, p3}
OnePurpose    == {[p \in ThreePayments |-> k] : k \in {"invoice", "seat", "stock"}}
Amounts       == [p \in ThreePayments |-> IF p = p1 THEN 2 ELSE 1]
TwoRuns       == {h1, h2}
TwoUsers      == {ana, ben}
FourPayments  == {c1, c2, c3, c4}
NobodyElse    == {}
AllAppenders  == FourPayments \cup TwoRuns
Symmetry      == Permutations(FourPayments)
=============================================================================
