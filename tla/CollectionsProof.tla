---------------------------- MODULE CollectionsProof ----------------------------
(***************************************************************************)
(* Proofs about what succeeded payments were for (Purchases) and about     *)
(* thrift groups (Thrift), for any number of payments, runs and members.   *)
(* The order in which postings get through the journal plays no part: the  *)
(* invariants do not mention it.                                           *)
(***************************************************************************)
EXTENDS Purchases, Thrift, Sums, FiniteSetTheorems, SequenceTheorems, TLAPS

\* The time a leaf may take on a slow machine.
USE SMTT(40), ZenonT(20)

-----------------------------------------------------------------------------
(* Purchases.  A run that holds the row of an invoice payment knows        *)
(* whether the payment was applied, and what it summed can only have grown *)
(* since (RunSound); no two runs hold one row, and no two hold the offer   *)
(* (RunsApart).                                                            *)

HookRuns == [of : SUBSET Payments, pc : {"idle", "post", "sum", "write", "count", "mark", "done"},
             fresh : BOOLEAN, sum : Nat]
Refunds  == [pc : {"none", "open", "done"}, found : Nat]
Invoices == [status : {"sent", "partially_paid", "paid"}, paid : Nat]

PurchaseTypes ==
  /\ purpose \in Purposes
  /\ link \in [Payments -> {"none", "pending", "applied", "gone"}]
  /\ succeeded \subseteq Payments /\ due \subseteq succeeded
  /\ invoice \in Invoices
  /\ allocated \in [Payments -> Nat] /\ refund \in [Payments -> Refunds]
  /\ sold \in Nat
  /\ run \in [Runs -> HookRuns]

HoldsInvoice(r) == run[r].pc \in {"post", "sum", "write"}

RunSound(r) ==
  /\ HoldsInvoice(r) =>
       \E p \in succeeded :
         /\ Of(r, p) /\ purpose[p] = "invoice"
         /\ run[r].fresh <=> link[p] # "applied"
         /\ At(r, "write") => run[r].sum <= AmountOf(InvoicesApplied \cup {p})
  /\ run[r].pc \in {"count", "mark"} =>
       \E p \in succeeded : Of(r, p) /\ purpose[p] \in Offers
  /\ HoldsOffer(r) => AmountOf(run[r].of) <= sold

RunsApart ==
  \A r, q \in Runs :
    \/ HoldsInvoice(r) /\ HoldsInvoice(q) /\ run[r].of = run[q].of
    \/ HoldsOffer(r) /\ HoldsOffer(q)
    => r = q

\* What an open refund found is nothing, or all there still is.
RefundsSound == \A p \in Payments : refund[p].pc = "open" => refund[p].found \in {0, allocated[p]}

PurchasesInv ==
  /\ PurchaseTypes
  /\ \A r \in Runs : RunSound(r)
  /\ RunsApart
  /\ InvoiceIsBacked /\ CountWithinCapacity
  /\ AllocatedOnce /\ RefundsSound

-----------------------------------------------------------------------------
LEMMA AmountNat == ASSUME PurchasesAssumption, NEW S \in SUBSET Payments PROVE AmountOf(S) \in Nat
<1>1. IsFiniteSet(S) /\ \A e \in S : Amount[e] \in Nat
  BY FS_Subset DEF PurchasesAssumption
<1> QED BY <1>1, SumNat DEF AmountOf

LEMMA AmountGrows ==
  ASSUME PurchasesAssumption, NEW R \in SUBSET Payments, NEW S \in SUBSET R
  PROVE  AmountOf(S) <= AmountOf(R)
<1>1. IsFiniteSet(R) /\ \A e \in R : Amount[e] \in Nat
  BY FS_Subset DEF PurchasesAssumption
<1> QED BY <1>1, SumSubset DEF AmountOf

LEMMA AmountAdds ==
  ASSUME PurchasesAssumption, NEW S \in SUBSET Payments, NEW p \in Payments, p \notin S
  PROVE  AmountOf(S \cup {p}) = AmountOf(S) + AmountOf({p})
<1>1. IsFiniteSet(S) /\ IsFiniteSet({p}) /\ S \cap {p} = {} /\ \A e \in S \cup {p} : Amount[e] \in Int
  BY FS_Subset, FS_Singleton DEF PurchasesAssumption
<1> QED BY <1>1, SumUnion DEF AmountOf

LEMMA InvoicesAppliedArePayments == InvoicesApplied \in SUBSET Payments
BY DEF InvoicesApplied, Applied

LEMMA BackedByApplied ==
  InvoiceIsBacked <=> /\ invoice.paid <= AmountOf(InvoicesApplied)
                      /\ invoice.status = "paid" => AmountOf(InvoicesApplied) >= InvoiceTotal
BY DEF InvoiceIsBacked

\* A run that does not move stays sound while its payment's row, and the offer if
\* it holds it, are left alone and no application of an invoice payment is undone.
LEMMA RunStaysSound ==
  ASSUME PurchasesAssumption, PurchaseTypes, NEW r \in Runs, RunSound(r),
         run'[r] = run[r], purpose' = purpose, succeeded \subseteq succeeded',
         InvoicesApplied \subseteq InvoicesApplied', InvoicesApplied' \in SUBSET Payments,
         HoldsInvoice(r) => \A p \in run[r].of : (link'[p] = "applied") <=> (link[p] = "applied"),
         HoldsOffer(r) => sold' >= sold, sold' \in Int
  PROVE  RunSound(r)'
<1>1. ASSUME HoldsInvoice(r)
      PROVE  \E p \in succeeded' :
               /\ Of(r, p) /\ purpose[p] = "invoice"
               /\ run[r].fresh <=> link'[p] # "applied"
               /\ At(r, "write") => run[r].sum <= AmountOf(InvoicesApplied' \cup {p})
  <2>1. PICK p \in succeeded :
          /\ Of(r, p) /\ purpose[p] = "invoice"
          /\ run[r].fresh <=> link[p] # "applied"
          /\ At(r, "write") => run[r].sum <= AmountOf(InvoicesApplied \cup {p})
    BY <1>1 DEF RunSound
  <2> DEFINE new == InvoicesApplied' \cup {p}
             old == InvoicesApplied \cup {p}
  <2>2. new \in SUBSET Payments /\ old \in SUBSET new /\ old \in SUBSET Payments
    BY DEF PurchaseTypes
  <2>3. AmountOf(old) <= AmountOf(new) /\ AmountOf(old) \in Nat /\ AmountOf(new) \in Nat
    BY <2>2, AmountGrows, AmountNat
  <2>4. run[r].sum \in Nat
    BY DEF PurchaseTypes, HookRuns
  <2>5. run[r].fresh <=> link'[p] # "applied"
    BY <1>1, <2>1 DEF Of
  <2> HIDE DEF new, old
  <2>6. At(r, "write") => run[r].sum <= AmountOf(new)
    BY <2>1, <2>3, <2>4 DEF old
  <2> QED BY <2>1, <2>5, <2>6 DEF new
<1>2. run[r].pc \in {"count", "mark"} => \E p \in succeeded' : Of(r, p) /\ purpose[p] \in Offers
  BY DEF RunSound
<1>3. HoldsOffer(r) => AmountOf(run[r].of) <= sold'
  <2>1. AmountOf(run[r].of) \in Nat
    BY AmountNat DEF PurchaseTypes, HookRuns
  <2> QED BY <2>1 DEF RunSound, PurchaseTypes
<1>4. (HoldsInvoice(r) <=> HoldsInvoice(r)') /\ (HoldsOffer(r) <=> HoldsOffer(r)')
  BY DEF HoldsInvoice, HoldsOffer, At
<1> QED BY <1>1, <1>2, <1>3, <1>4 DEF RunSound, Of, At, AmountOf

\* What no step of a run touches.
LEMMA InvoicesAppliedSame ==
  ASSUME purpose' = purpose,
         \A p \in Payments : purpose[p] = "invoice" => (link'[p] = "applied" <=> link[p] = "applied")
  PROVE  InvoicesApplied' = InvoicesApplied
BY DEF InvoicesApplied, Applied

LEMMA BackedStays ==
  ASSUME InvoiceIsBacked, InvoicesApplied' = InvoicesApplied, invoice' = invoice
  PROVE  InvoiceIsBacked'
<1>1. /\ invoice'.paid <= AmountOf(InvoicesApplied')
      /\ invoice'.status = "paid" => AmountOf(InvoicesApplied') >= InvoiceTotal
  BY DEF InvoiceIsBacked
<1> QED BY <1>1 DEF InvoiceIsBacked, AmountOf

LEMMA AllocationsStay ==
  ASSUME AllocatedOnce, RefundsSound, InvoicesApplied' = InvoicesApplied,
         allocated' = allocated, refund' = refund
  PROVE  AllocatedOnce' /\ RefundsSound'
BY DEF AllocatedOnce, RefundsSound

-----------------------------------------------------------------------------
\* The new state of a step of run r, put together: the others stay sound, and apart
\* from each other.
LEMMA OneRunMoves ==
  ASSUME PurchasesAssumption, PurchaseTypes, PurchaseTypes', NEW r \in Runs,
         \A q \in Runs : RunSound(q), RunsApart,
         RunSound(r)',
         purpose' = purpose, succeeded' = succeeded,
         InvoicesApplied \subseteq InvoicesApplied',
         \A q \in Runs \ {r} : run'[q] = run[q],
         \A q \in Runs \ {r} : HoldsInvoice(q) =>
           \A p \in run[q].of : (link'[p] = "applied") <=> (link[p] = "applied"),
         \A q \in Runs \ {r} : HoldsOffer(q) => sold' >= sold,
         \A q \in Runs \ {r} : HoldsInvoice(r)' /\ HoldsInvoice(q) => run'[r].of # run[q].of,
         \A q \in Runs \ {r} : ~(HoldsOffer(r)' /\ HoldsOffer(q))
  PROVE  (\A q \in Runs : RunSound(q)') /\ RunsApart'
<1>1. ASSUME NEW q \in Runs \ {r} PROVE RunSound(q)'
  <2>1. InvoicesApplied' \in SUBSET Payments /\ sold' \in Int
    BY DEF InvoicesApplied, Applied, PurchaseTypes
  <2>2. run'[q] = run[q] /\ succeeded \subseteq succeeded' /\ RunSound(q)
    OBVIOUS
  <2>3. HoldsInvoice(q) => \A p \in run[q].of : (link'[p] = "applied") <=> (link[p] = "applied")
    OBVIOUS
  <2>4. HoldsOffer(q) => sold' >= sold
    OBVIOUS
  <2> QED BY <2>1, <2>2, <2>3, <2>4, RunStaysSound
<1>2. \A q \in Runs \ {r} : /\ HoldsInvoice(q)' <=> HoldsInvoice(q)
                            /\ HoldsOffer(q)' <=> HoldsOffer(q)
                            /\ run'[q].of = run[q].of
  BY DEF HoldsInvoice, HoldsOffer, At
<1>3. RunsApart'
  <2> SUFFICES ASSUME NEW a \in Runs, NEW b \in Runs,
                      \/ HoldsInvoice(a)' /\ HoldsInvoice(b)' /\ run'[a].of = run'[b].of
                      \/ HoldsOffer(a)' /\ HoldsOffer(b)'
               PROVE  a = b
    BY DEF RunsApart
  <2>1. CASE a # r /\ b # r
    <3>1. a \in Runs \ {r} /\ b \in Runs \ {r}
      BY <2>1
    <3>2. \/ HoldsInvoice(a) /\ HoldsInvoice(b) /\ run[a].of = run[b].of
          \/ HoldsOffer(a) /\ HoldsOffer(b)
      BY <3>1, <1>2
    <3> QED BY <3>2 DEF RunsApart
  <2>2. CASE a = r /\ b # r
    BY <2>2, <1>2
  <2>3. CASE a # r /\ b = r
    BY <2>3, <1>2
  <2> QED BY <2>1, <2>2, <2>3
<1> QED BY <1>1, <1>3

LEMMA PurchasesInitInv ==
  ASSUME PurchasesAssumption, PurchasesInit PROVE PurchasesInv
<1>1. PurchaseTypes /\ \A r \in Runs : At(r, "idle")
  BY DEF PurchasesInit, PurchaseTypes, Invoices, Refunds, HookRuns, NoRun, NoRefund, At
<1>2. (\A r \in Runs : RunSound(r)) /\ RunsApart
  BY <1>1 DEF RunSound, RunsApart, HoldsInvoice, HoldsOffer, At
<1>3. InvoicesApplied = {}
  BY DEF InvoicesApplied, Applied, PurchasesInit
<1>4. AmountOf({}) = 0
  BY SumEmpty DEF AmountOf
<1>5. InvoiceIsBacked /\ CountWithinCapacity
  BY <1>3, <1>4, BackedByApplied DEF PurchasesInit, CountWithinCapacity, PurchasesAssumption
<1>6. AllocatedOnce /\ RefundsSound
  BY <1>3 DEF PurchasesInit, AllocatedOnce, RefundsSound, NoRefund
<1> QED BY <1>1, <1>2, <1>5, <1>6 DEF PurchasesInv

-----------------------------------------------------------------------------
(* Steps outside a run. *)

\* When no run moves.
LEMMA NoRunMoves ==
  ASSUME PurchasesAssumption, PurchaseTypes, PurchaseTypes',
         \A q \in Runs : RunSound(q), RunsApart, InvoiceIsBacked,
         run' = run, purpose' = purpose, succeeded \subseteq succeeded',
         \A p \in Payments : purpose[p] = "invoice" => (link'[p] = "applied" <=> link[p] = "applied"),
         invoice' = invoice,
         (\E q \in Runs : HoldsOffer(q)) => sold' >= sold
  PROVE  (\A q \in Runs : RunSound(q)') /\ RunsApart' /\ InvoiceIsBacked'
<1>1. InvoicesApplied' = InvoicesApplied
  BY InvoicesAppliedSame
<1>2. ASSUME NEW q \in Runs PROVE RunSound(q)'
  <2>1. InvoicesApplied' \in SUBSET Payments /\ sold' \in Int
    BY DEF InvoicesApplied, Applied, PurchaseTypes
  <2>2. run'[q] = run[q] /\ RunSound(q) /\ InvoicesApplied \subseteq InvoicesApplied'
    BY <1>1
  <2>3. HoldsInvoice(q) => \A p \in run[q].of : (link'[p] = "applied") <=> (link[p] = "applied")
    <3> SUFFICES ASSUME HoldsInvoice(q), NEW p \in run[q].of
                 PROVE  (link'[p] = "applied") <=> (link[p] = "applied")
      OBVIOUS
    <3>1. PICK x \in succeeded : Of(q, x) /\ purpose[x] = "invoice"
      BY DEF RunSound
    <3>2. x = p /\ x \in Payments
      BY <3>1 DEF Of, PurchaseTypes
    <3> QED BY <3>1, <3>2
  <2>4. HoldsOffer(q) => sold' >= sold
    OBVIOUS
  <2> QED BY <2>1, <2>2, <2>3, <2>4, RunStaysSound
<1>3. RunsApart'
  BY DEF RunsApart, HoldsInvoice, HoldsOffer, At
<1>4. InvoiceIsBacked'
  BY <1>1, BackedStays
<1> QED BY <1>2, <1>3, <1>4

LEMMA AttachInv ==
  ASSUME PurchasesAssumption, PurchasesInv, NEW p \in Payments, Attach(p) PROVE PurchasesInv'
<1>1. PurchaseTypes'
  BY DEF PurchasesInv, PurchaseTypes, Attach
<1>2. \A q \in Payments : purpose[q] = "invoice" => (link'[q] = "applied" <=> link[q] = "applied")
  BY DEF Attach, PurchasesInv, PurchaseTypes
<1>3. sold' >= sold
  BY DEF Attach, PurchasesInv, PurchaseTypes
<1>4. (\A q \in Runs : RunSound(q)') /\ RunsApart' /\ InvoiceIsBacked'
  BY <1>1, <1>2, <1>3, NoRunMoves DEF Attach, PurchasesInv
<1>5. CountWithinCapacity'
  BY DEF PurchasesInv, CountWithinCapacity, Attach
<1>6. AllocatedOnce' /\ RefundsSound'
  BY <1>2, InvoicesAppliedSame, AllocationsStay DEF PurchasesInv, Attach
<1> QED BY <1>1, <1>4, <1>5, <1>6 DEF PurchasesInv

LEMMA SucceedInv ==
  ASSUME PurchasesAssumption, PurchasesInv, NEW p \in Payments, Succeed(p) PROVE PurchasesInv'
<1>1. PurchaseTypes'
  BY DEF PurchasesInv, PurchaseTypes, Succeed
<1>2. \A q \in Payments : purpose[q] = "invoice" => (link'[q] = "applied" <=> link[q] = "applied")
  BY DEF Succeed
<1>3. sold' >= sold /\ succeeded \subseteq succeeded'
  BY DEF Succeed, PurchasesInv, PurchaseTypes
<1>4. (\A q \in Runs : RunSound(q)') /\ RunsApart' /\ InvoiceIsBacked'
  BY <1>1, <1>2, <1>3, NoRunMoves DEF Succeed, PurchasesInv
<1>5. CountWithinCapacity'
  BY DEF PurchasesInv, CountWithinCapacity, Succeed
<1>6. AllocatedOnce' /\ RefundsSound'
  BY <1>2, InvoicesAppliedSame, AllocationsStay DEF PurchasesInv, Succeed
<1> QED BY <1>1, <1>4, <1>5, <1>6 DEF PurchasesInv

\* An edit waits for the run that holds the offer, and touches no invoice payment.
LEMMA SetEventTiersFullInv ==
  ASSUME PurchasesAssumption, PurchasesInv, SetEventTiersFull PROVE PurchasesInv'
<1>1. PurchaseTypes' /\ sold' \in {0, sold} /\ sold \in Nat
  BY DEF PurchasesInv, PurchaseTypes, SetEventTiersFull
<1>2. \A q \in Payments : purpose[q] = "invoice" => (link'[q] = "applied" <=> link[q] = "applied")
  BY DEF SetEventTiersFull
<1>3. ~\E q \in Runs : HoldsOffer(q)
  BY DEF SetEventTiersFull, OfferFree
<1>4. (\A q \in Runs : RunSound(q)') /\ RunsApart' /\ InvoiceIsBacked'
  BY <1>1, <1>2, <1>3, NoRunMoves DEF SetEventTiersFull, PurchasesInv
<1>5. CountWithinCapacity'
  BY <1>1 DEF PurchasesInv, CountWithinCapacity, PurchasesAssumption
<1>6. AllocatedOnce' /\ RefundsSound'
  BY <1>2, InvoicesAppliedSame, AllocationsStay DEF PurchasesInv, SetEventTiersFull
<1> QED BY <1>1, <1>4, <1>5, <1>6 DEF PurchasesInv

\* A step of a refund moves no run and no row: only what is allocated may change.
LEMMA RefundMovesInv ==
  ASSUME PurchasesAssumption, PurchasesInv, PurchaseTypes', AllocatedOnce', RefundsSound',
         UNCHANGED <<run, purpose, link, succeeded, invoice, sold>>
  PROVE  PurchasesInv'
<1>1. sold' >= sold /\ CountWithinCapacity'
  BY DEF PurchasesInv, PurchaseTypes, CountWithinCapacity
<1>2. (\A q \in Runs : RunSound(q)') /\ RunsApart' /\ InvoiceIsBacked'
  BY <1>1, NoRunMoves DEF PurchasesInv
<1> QED BY <1>1, <1>2 DEF PurchasesInv

LEMMA ReadJournalInv ==
  ASSUME PurchasesAssumption, PurchasesInv, NEW p \in Payments, ReadJournal(p) PROVE PurchasesInv'
<1>1. refund' = [refund EXCEPT ![p] = [pc |-> "open", found |-> allocated[p]]]
      /\ allocated' = allocated /\ refund[p] = NoRefund
  BY DEF ReadJournal
<1>2. PurchaseTypes'
  BY <1>1 DEF ReadJournal, PurchasesInv, PurchaseTypes, Refunds
<1>3. InvoicesApplied' = InvoicesApplied
  BY InvoicesAppliedSame DEF ReadJournal
<1>4. AllocatedOnce'
  BY <1>1, <1>3 DEF AllocatedOnce, PurchasesInv, PurchaseTypes, NoRefund
<1>5. RefundsSound'
  BY <1>1 DEF RefundsSound, PurchasesInv, PurchaseTypes
<1> QED BY <1>2, <1>4, <1>5, RefundMovesInv DEF ReadJournal

\* What was found is still there, so nothing is taken back twice.
LEMMA CommitRefundInv ==
  ASSUME PurchasesAssumption, PurchasesInv, NEW p \in Payments, CommitRefund(p) PROVE PurchasesInv'
<1>1. /\ refund' = [refund EXCEPT ![p].pc = "done"] /\ refund[p].pc = "open"
      /\ allocated' = [allocated EXCEPT ![p] = @ - refund[p].found]
  BY DEF CommitRefund
<1>2. /\ refund[p].found \in {0, allocated[p]} /\ allocated[p] \in {0, Amount[p]}
      /\ allocated[p] \in Nat /\ refund[p] \in Refunds
  BY <1>1 DEF PurchasesInv, RefundsSound, AllocatedOnce, PurchaseTypes
<1>3. allocated[p] - refund[p].found \in {0, allocated[p]}
  BY <1>2
<1>4. /\ allocated' \in [Payments -> Nat] /\ allocated'[p] \in {0, allocated[p]}
      /\ \A q \in Payments \ {p} : allocated'[q] = allocated[q]
  BY <1>1, <1>2, <1>3 DEF PurchasesInv, PurchaseTypes
<1>5. /\ refund' \in [Payments -> Refunds] /\ refund'[p].pc = "done"
      /\ \A q \in Payments \ {p} : refund'[q] = refund[q]
  BY <1>1, <1>2 DEF PurchasesInv, PurchaseTypes, Refunds
<1>6. PurchaseTypes'
  BY <1>4, <1>5 DEF CommitRefund, PurchasesInv, PurchaseTypes
<1>7. InvoicesApplied' = InvoicesApplied
  BY InvoicesAppliedSame DEF CommitRefund
<1>8. AllocatedOnce'
  BY <1>2, <1>4, <1>5, <1>7 DEF AllocatedOnce, PurchasesInv
<1>9. RefundsSound'
  BY <1>4, <1>5 DEF RefundsSound, PurchasesInv
<1> QED BY <1>6, <1>8, <1>9, RefundMovesInv DEF CommitRefund

LEMMA RefundFailsInv ==
  ASSUME PurchasesAssumption, PurchasesInv, NEW p \in Payments, RefundFails(p) PROVE PurchasesInv'
<1>1. refund' = [refund EXCEPT ![p] = NoRefund] /\ allocated' = allocated /\ refund[p].pc = "open"
  BY DEF RefundFails
<1>2. PurchaseTypes'
  BY <1>1 DEF RefundFails, PurchasesInv, PurchaseTypes, Refunds, NoRefund
<1>3. InvoicesApplied' = InvoicesApplied
  BY InvoicesAppliedSame DEF RefundFails
<1>4. AllocatedOnce'
  BY <1>1, <1>3 DEF AllocatedOnce, PurchasesInv, PurchaseTypes
<1>5. RefundsSound'
  BY <1>1 DEF RefundsSound, PurchasesInv, PurchaseTypes, NoRefund
<1> QED BY <1>2, <1>4, <1>5, RefundMovesInv DEF RefundFails

-----------------------------------------------------------------------------
(* Steps of a run. *)

\* The rest of the invariant, when a run moves and no invoice payment is applied.
LEMMA RunMovesInv ==
  ASSUME PurchasesAssumption, PurchasesInv, NEW r \in Runs,
         PurchaseTypes', RunSound(r)', sold' <= Capacity,
         UNCHANGED <<purpose, succeeded, invoice, allocated, refund>>,
         \A p \in Payments : purpose[p] = "invoice" => (link'[p] = "applied" <=> link[p] = "applied"),
         \A q \in Runs \ {r} : run'[q] = run[q],
         \A q \in Runs \ {r} : HoldsOffer(q) => sold' >= sold,
         \A q \in Runs \ {r} : HoldsInvoice(r)' /\ HoldsInvoice(q) => run'[r].of # run[q].of,
         \A q \in Runs \ {r} : ~(HoldsOffer(r)' /\ HoldsOffer(q))
  PROVE  PurchasesInv'
<1>1. InvoicesApplied' = InvoicesApplied
  BY InvoicesAppliedSame
<1>2. \A q \in Runs \ {r} : HoldsInvoice(q) =>
        \A p \in run[q].of : (link'[p] = "applied") <=> (link[p] = "applied")
  <2> SUFFICES ASSUME NEW q \in Runs \ {r}, HoldsInvoice(q), NEW p \in run[q].of
               PROVE  (link'[p] = "applied") <=> (link[p] = "applied")
    OBVIOUS
  <2>1. PICK x \in succeeded : Of(q, x) /\ purpose[x] = "invoice"
    BY DEF PurchasesInv, RunSound
  <2>2. x = p /\ x \in Payments
    BY <2>1 DEF Of, PurchasesInv, PurchaseTypes
  <2> QED BY <2>1, <2>2
<1>3. /\ PurchaseTypes /\ RunsApart
      /\ \A q \in Runs : RunSound(q)
      /\ InvoicesApplied \subseteq InvoicesApplied'
  BY <1>1 DEF PurchasesInv
<1>4. (\A q \in Runs : RunSound(q)') /\ RunsApart'
  BY <1>2, <1>3, OneRunMoves
<1>5. InvoiceIsBacked' /\ CountWithinCapacity'
  BY <1>1, BackedStays DEF PurchasesInv, CountWithinCapacity
<1>6. AllocatedOnce' /\ RefundsSound'
  BY <1>1, AllocationsStay DEF PurchasesInv
<1> QED BY <1>4, <1>5, <1>6 DEF PurchasesInv

LEMMA StartInvoiceHookInv ==
  ASSUME PurchasesAssumption, PurchasesInv, NEW r \in Runs, NEW p \in Payments, StartInvoiceHook(r, p)
  PROVE  PurchasesInv'
<1> DEFINE new == [of |-> {p}, pc |-> IF Fresh(p) THEN "post" ELSE "sum", fresh |-> Fresh(p), sum |-> 0]
<1>1. new \in HookRuns
  BY DEF HookRuns, Fresh
<1>2. run' = [run EXCEPT ![r] = new] /\ run' \in [Runs -> HookRuns] /\ run'[r] = new
  BY <1>1 DEF StartInvoiceHook, PurchasesInv, PurchaseTypes
<1>3. PurchaseTypes'
  BY <1>2 DEF StartInvoiceHook, PurchasesInv, PurchaseTypes
<1>4. p \in succeeded' /\ purpose'[p] = "invoice" /\ link' = link
  BY DEF StartInvoiceHook, PurchasesInv, PurchaseTypes
<1>5. RunSound(r)'
  BY <1>2, <1>4 DEF RunSound, HoldsInvoice, HoldsOffer, At, Of, Fresh
<1>6. \A q \in Runs \ {r} : HoldsInvoice(r)' /\ HoldsInvoice(q) => run'[r].of # run[q].of
  BY <1>2 DEF StartInvoiceHook, HoldsLink, HoldsInvoice, Of
<1>7. ~HoldsOffer(r)'
  BY <1>2 DEF HoldsOffer, At
<1>8. sold' >= sold /\ sold' <= Capacity
  BY DEF StartInvoiceHook, PurchasesInv, PurchaseTypes, CountWithinCapacity
<1>9. \A q \in Runs \ {r} : run'[q] = run[q]
  BY <1>2 DEF PurchasesInv, PurchaseTypes
<1> QED BY <1>3, <1>4, <1>5, <1>6, <1>7, <1>8, <1>9, RunMovesInv DEF StartInvoiceHook

\* A step within an invoice hook that leaves the payment's row to the commit.
LEMMA InvoiceHookGoesOn ==
  ASSUME PurchasesAssumption, PurchasesInv, NEW r \in Runs, NEW new \in HookRuns, HoldsInvoice(r),
         new.of = run[r].of, new.fresh = run[r].fresh, new.pc \in {"sum", "write"},
         new.pc = "write" => new.sum = PaidSoFar(r),
         run' = [run EXCEPT ![r] = new],
         UNCHANGED <<purpose, link, succeeded, due, invoice, allocated, refund, sold>>
  PROVE  PurchasesInv'
<1>1. run' \in [Runs -> HookRuns] /\ run'[r] = new /\ \A q \in Runs \ {r} : run'[q] = run[q]
  BY DEF PurchasesInv, PurchaseTypes
<1>2. PurchaseTypes'
  BY <1>1 DEF PurchasesInv, PurchaseTypes
<1>3. PICK p \in succeeded : Of(r, p) /\ purpose[p] = "invoice" /\ (run[r].fresh <=> link[p] # "applied")
  BY DEF PurchasesInv, RunSound
<1>4. new.pc = "write" => new.sum <= AmountOf(InvoicesApplied \cup {p})
  <2>1. PaidSoFar(r) = AmountOf(InvoicesApplied \cup {p})
    BY <1>3 DEF PaidSoFar, InvoicesApplied, Of
  <2>2. new.sum \in Nat
    BY DEF HookRuns
  <2> QED BY <2>1, <2>2
<1>5. InvoicesApplied' = InvoicesApplied
  BY InvoicesAppliedSame
<1>6. RunSound(r)'
  BY <1>1, <1>3, <1>4, <1>5 DEF RunSound, HoldsInvoice, HoldsOffer, At, Of, AmountOf
<1>7. \A q \in Runs \ {r} : HoldsInvoice(r)' /\ HoldsInvoice(q) => run'[r].of # run[q].of
  BY <1>1 DEF PurchasesInv, RunsApart
<1>8. ~HoldsOffer(r)'
  BY <1>1 DEF HoldsOffer, At
<1>9. sold' >= sold /\ sold' <= Capacity
  BY DEF PurchasesInv, PurchaseTypes, CountWithinCapacity
<1> QED BY <1>1, <1>2, <1>6, <1>7, <1>8, <1>9, RunMovesInv

LEMMA PostAllocationInv ==
  ASSUME PurchasesAssumption, PurchasesInv, NEW r \in Runs, PostAllocation(r) PROVE PurchasesInv'
<1> DEFINE new == [run[r] EXCEPT !.pc = "sum"]
<1>1. run[r] \in HookRuns /\ At(r, "post")
  BY DEF PurchasesInv, PurchaseTypes, PostAllocation
<1>2. /\ new \in HookRuns /\ new.of = run[r].of /\ new.fresh = run[r].fresh /\ new.pc = "sum"
      /\ HoldsInvoice(r)
  BY <1>1 DEF HookRuns, HoldsInvoice, At
<1>3. run' = [run EXCEPT ![r] = new]
  BY DEF PostAllocation
<1> HIDE DEF new
<1> QED BY <1>2, <1>3, InvoiceHookGoesOn DEF PostAllocation

LEMMA SumPaymentsInv ==
  ASSUME PurchasesAssumption, PurchasesInv, NEW r \in Runs, SumPayments(r) PROVE PurchasesInv'
<1> DEFINE new == [of |-> run[r].of, pc |-> "write", fresh |-> run[r].fresh, sum |-> PaidSoFar(r)]
<1>1. run[r] \in HookRuns /\ At(r, "sum")
  BY DEF PurchasesInv, PurchaseTypes, SumPayments
<1>2. {p \in Applied : purpose[p] = "invoice"} \cup run[r].of \in SUBSET Payments
  BY <1>1 DEF Applied, HookRuns
<1>3. PaidSoFar(r) \in Nat
  BY <1>2, AmountNat DEF PaidSoFar
<1>4. new \in HookRuns /\ HoldsInvoice(r)
  BY <1>1, <1>3 DEF HookRuns, HoldsInvoice, At
<1>5. run' = [run EXCEPT ![r] = new]
  <2> DEFINE mid == [of |-> run[r].of, pc |-> run[r].pc, fresh |-> run[r].fresh, sum |-> PaidSoFar(r)]
  <2>1. [run[r] EXCEPT !.sum = PaidSoFar(r)] = mid
    BY <1>1 DEF HookRuns
  <2>2. [mid EXCEPT !.pc = "write"] = new
    OBVIOUS
  <2> HIDE DEF mid, new
  <2>3. run' = [run EXCEPT ![r] = [mid EXCEPT !.pc = "write"]]
    BY <2>1 DEF SumPayments, PurchasesInv, PurchaseTypes
  <2> QED BY <2>2, <2>3
<1>6. new.of = run[r].of /\ new.fresh = run[r].fresh /\ new.pc = "write" /\ new.sum = PaidSoFar(r)
  OBVIOUS
<1> HIDE DEF new
<1> QED BY <1>4, <1>5, <1>6, InvoiceHookGoesOn DEF SumPayments

\* The commit of an invoice hook: the payment is applied, if it was not, and what
\* the run summed is covered by what is applied now.
LEMMA WriteInvoiceInv ==
  ASSUME PurchasesAssumption, PurchasesInv, NEW r \in Runs, WriteInvoice(r) PROVE PurchasesInv'
<1>1. run[r] \in HookRuns /\ At(r, "write") /\ HoldsInvoice(r)
  BY DEF PurchasesInv, PurchaseTypes, WriteInvoice, HoldsInvoice, At
<1>2. PICK p \in succeeded :
        /\ Of(r, p) /\ purpose[p] = "invoice"
        /\ run[r].fresh <=> link[p] # "applied"
        /\ run[r].sum <= AmountOf(InvoicesApplied \cup {p})
  BY <1>1 DEF PurchasesInv, RunSound
<1>3. p \in Payments /\ run[r].of = {p}
  BY <1>2 DEF PurchasesInv, PurchaseTypes, Of
<1> DEFINE new == [run[r] EXCEPT !.pc = "done"]
           whole == InvoicesApplied \cup {p}
<1>4. run' = [run EXCEPT ![r] = new] /\ new \in HookRuns /\ new.pc = "done"
  BY <1>1 DEF WriteInvoice, HookRuns
<1> HIDE DEF new
<1>5. run' \in [Runs -> HookRuns] /\ run'[r] = new /\ \A q \in Runs \ {r} : run'[q] = run[q]
  BY <1>4 DEF PurchasesInv, PurchaseTypes
<1>6. link' \in [Payments -> {"none", "pending", "applied", "gone"}]
  BY DEF WriteInvoice, PurchasesInv, PurchaseTypes
<1>7. link'[p] = "applied" /\ \A x \in Payments \ {p} : link'[x] = link[x]
  BY <1>3 DEF WriteInvoice, Of
<1>8. InvoicesApplied' = whole
  BY <1>2, <1>3, <1>7 DEF InvoicesApplied, Applied, WriteInvoice
<1>9. whole \in SUBSET Payments /\ InvoicesApplied \in SUBSET Payments /\ {p} \in SUBSET Payments
  BY <1>3 DEF InvoicesApplied, Applied
<1>10. AmountOf(whole) \in Nat /\ AmountOf(InvoicesApplied) \in Nat /\ AmountOf({p}) \in Nat
  BY <1>9, AmountNat
<1>11. p \in InvoicesApplied <=> ~run[r].fresh
  BY <1>2, <1>3 DEF InvoicesApplied, Applied
<1>12. /\ allocated'[p] = (IF run[r].fresh THEN allocated[p] + Amount[p] ELSE allocated[p])
       /\ \A x \in Payments \ {p} : allocated'[x] = allocated[x]
       /\ allocated' = [x \in Payments |-> allocated'[x]] /\ refund' = refund
  BY <1>3 DEF WriteInvoice, Of
<1> HIDE DEF whole
<1>13. /\ invoice'.paid = run[r].sum /\ invoice' \in Invoices
       /\ invoice'.status = "paid" => run[r].sum >= InvoiceTotal
  BY <1>1 DEF WriteInvoice, Invoices, HookRuns
<1>14. run[r].sum <= AmountOf(whole) /\ run[r].sum \in Nat
  BY <1>1, <1>2 DEF whole, HookRuns
<1>15. InvoiceIsBacked'
  <2>1. /\ invoice'.paid <= AmountOf(whole)
        /\ invoice'.status = "paid" => AmountOf(whole) >= InvoiceTotal
    BY <1>10, <1>13, <1>14 DEF PurchasesAssumption
  <2>2. /\ invoice'.paid <= AmountOf(InvoicesApplied')
        /\ invoice'.status = "paid" => AmountOf(InvoicesApplied') >= InvoiceTotal
    BY <1>8, <2>1
  <2> QED BY <2>2 DEF InvoiceIsBacked, AmountOf
<1>16. /\ \/ allocated'[p] = Amount[p]
          \/ allocated'[p] = allocated[p] /\ p \in InvoicesApplied
       /\ allocated[p] \in {0, allocated'[p]} /\ Amount[p] \in Nat \ {0}
  <2>1. allocated[p] \in Nat /\ Amount[p] \in Nat \ {0} /\ (allocated[p] # 0 => p \in InvoicesApplied)
    BY <1>3 DEF PurchasesInv, PurchaseTypes, AllocatedOnce, PurchasesAssumption
  <2>2. CASE run[r].fresh
    <3>1. allocated[p] = 0
      BY <2>1, <2>2, <1>11
    <3>2. allocated'[p] = allocated[p] + Amount[p]
      BY <2>2, <1>12
    <3>3. allocated'[p] = Amount[p]
      BY <2>1, <3>1, <3>2
    <3> QED BY <2>1, <3>1, <3>3
  <2>3. CASE ~run[r].fresh
    <3>1. p \in InvoicesApplied
      BY <2>3, <1>11
    <3>2. allocated'[p] = allocated[p]
      BY <2>3, <1>12
    <3> QED BY <2>1, <3>1, <3>2
  <2> QED BY <2>2, <2>3
<1>17. AllocatedOnce' /\ RefundsSound'
  <2>1. p \in InvoicesApplied' /\ \A x \in Payments \ {p} : x \in InvoicesApplied' <=> x \in InvoicesApplied
    BY <1>8 DEF whole
  <2>2. AllocatedOnce /\ RefundsSound
    BY DEF PurchasesInv
  <2>3. ASSUME NEW x \in Payments
        PROVE  /\ allocated'[x] \in {0, Amount[x]}
               /\ allocated'[x] # 0 => x \in InvoicesApplied'
               /\ x \in InvoicesApplied' /\ allocated'[x] = 0 => refund'[x].pc = "done"
               /\ refund'[x].pc = "open" => refund'[x].found \in {0, allocated'[x]}
    <3>1. CASE x = p
      BY <3>1, <2>1, <2>2, <1>12, <1>16 DEF AllocatedOnce, RefundsSound
    <3>2. CASE x # p
      BY <3>2, <2>1, <2>2, <1>12 DEF AllocatedOnce, RefundsSound
    <3> QED BY <3>1, <3>2
  <2> QED BY <2>3 DEF AllocatedOnce, RefundsSound
<1>18. allocated' \in [Payments -> Nat]
  <2>1. \A x \in Payments : allocated'[x] \in Nat
    BY <1>12, <1>16 DEF PurchasesInv, PurchaseTypes
  <2> QED BY <2>1, <1>12
<1>19. PurchaseTypes'
  BY <1>5, <1>6, <1>18, <1>13 DEF WriteInvoice, PurchasesInv, PurchaseTypes
<1>20. RunSound(r)'
  BY <1>4, <1>5 DEF RunSound, HoldsInvoice, HoldsOffer, At
<1>21. \A q \in Runs \ {r} : HoldsInvoice(q) =>
         \A x \in run[q].of : (link'[x] = "applied") <=> (link[x] = "applied")
  <2> SUFFICES ASSUME NEW q \in Runs \ {r}, HoldsInvoice(q), NEW x \in run[q].of
               PROVE  (link'[x] = "applied") <=> (link[x] = "applied")
    OBVIOUS
  <2>1. PICK y \in succeeded : Of(q, y)
    BY DEF PurchasesInv, RunSound
  <2>2. x = y /\ x \in Payments
    BY <2>1 DEF Of, PurchasesInv, PurchaseTypes
  <2>3. x # p
    BY <1>1, <1>3, <2>1, <2>2 DEF PurchasesInv, RunsApart, Of
  <2> QED BY <1>7, <2>2, <2>3
<1>22. ~HoldsInvoice(r)' /\ ~HoldsOffer(r)'
  BY <1>4, <1>5 DEF HoldsInvoice, HoldsOffer, At
<1>23. InvoicesApplied \subseteq InvoicesApplied' /\ sold' >= sold
  BY <1>8 DEF whole, WriteInvoice, PurchasesInv, PurchaseTypes
<1>24. (\A q \in Runs : RunSound(q)') /\ RunsApart'
  BY <1>5, <1>19, <1>20, <1>21, <1>22, <1>23, OneRunMoves DEF WriteInvoice, PurchasesInv
<1>25. CountWithinCapacity'
  BY DEF CountWithinCapacity, WriteInvoice, PurchasesInv
<1> QED BY <1>15, <1>19, <1>24, <1>25, <1>17 DEF PurchasesInv

LEMMA StartPurchaseHookInv ==
  ASSUME PurchasesAssumption, PurchasesInv, NEW r \in Runs, NEW p \in Payments, StartPurchaseHook(r, p)
  PROVE  PurchasesInv'
<1> DEFINE new == [of |-> {p}, pc |-> "count", fresh |-> link[p] = "pending", sum |-> sold]
<1>1. new \in HookRuns
  BY DEF HookRuns, PurchasesInv, PurchaseTypes
<1>2. run' = [run EXCEPT ![r] = new] /\ run' \in [Runs -> HookRuns] /\ run'[r] = new
  BY <1>1 DEF StartPurchaseHook, PurchasesInv, PurchaseTypes
<1>3. PurchaseTypes'
  BY <1>2 DEF StartPurchaseHook, PurchasesInv, PurchaseTypes
<1>4. p \in succeeded' /\ purpose'[p] \in Offers
  BY DEF StartPurchaseHook, PurchasesInv, PurchaseTypes
<1>5. RunSound(r)'
  BY <1>2, <1>4 DEF RunSound, HoldsInvoice, HoldsOffer, At, Of
<1>6. ~HoldsInvoice(r)' /\ ~HoldsOffer(r)'
  BY <1>2 DEF HoldsInvoice, HoldsOffer, At
<1>7. sold' >= sold /\ sold' <= Capacity
  BY DEF StartPurchaseHook, PurchasesInv, PurchaseTypes, CountWithinCapacity
<1>8. \A q \in Runs \ {r} : run'[q] = run[q]
  BY <1>2 DEF PurchasesInv, PurchaseTypes
<1> QED BY <1>3, <1>5, <1>6, <1>7, <1>8, RunMovesInv DEF StartPurchaseHook

\* The row of the offer is locked here, so nobody else holds it, and there is room
\* for what is counted.
LEMMA CountSoldInv ==
  ASSUME PurchasesAssumption, PurchasesInv, NEW r \in Runs, CountSold(r) PROVE PurchasesInv'
<1> DEFINE counts == run[r].fresh /\ Room(r) /\ \A p \in run[r].of : link[p] # "gone"
           new == [of |-> run[r].of, pc |-> "mark", fresh |-> counts, sum |-> run[r].sum]
<1>1. run[r] \in HookRuns /\ At(r, "count")
  BY DEF PurchasesInv, PurchaseTypes, CountSold
<1>2. new \in HookRuns
  BY <1>1 DEF HookRuns
<1>3. run' = [run EXCEPT ![r] = new]
  <2> DEFINE mid == [of |-> run[r].of, pc |-> "mark", fresh |-> run[r].fresh, sum |-> run[r].sum]
  <2>1. [run[r] EXCEPT !.pc = "mark"] = mid
    BY <1>1 DEF HookRuns
  <2>2. [mid EXCEPT !.fresh = counts] = new
    OBVIOUS
  <2>3. run' = [[run EXCEPT ![r].pc = "mark"] EXCEPT ![r].fresh = counts]
    BY DEF CountSold
  <2> HIDE DEF mid, new, counts
  <2>4. run' = [run EXCEPT ![r] = [mid EXCEPT !.fresh = counts]]
    BY <2>1, <2>3 DEF PurchasesInv, PurchaseTypes
  <2> QED BY <2>2, <2>4
<1>4. run' \in [Runs -> HookRuns] /\ run'[r] = new /\ \A q \in Runs \ {r} : run'[q] = run[q]
  BY <1>2, <1>3 DEF PurchasesInv, PurchaseTypes
<1>5. AmountOf(run[r].of) \in Nat
  BY <1>1, AmountNat DEF HookRuns
<1>6. sold' = IF counts THEN sold + AmountOf(run[r].of) ELSE sold
  BY DEF CountSold
<1>7. sold' \in Nat /\ sold' >= sold /\ sold' <= Capacity /\ (counts => AmountOf(run[r].of) <= sold')
  BY <1>5, <1>6 DEF Room, PurchasesInv, PurchaseTypes, CountWithinCapacity, PurchasesAssumption
<1> HIDE DEF counts
<1>8. PurchaseTypes'
  BY <1>4, <1>7 DEF CountSold, PurchasesInv, PurchaseTypes
<1>9. PICK p \in succeeded : Of(r, p) /\ purpose[p] \in Offers
  BY <1>1 DEF PurchasesInv, RunSound, At
<1>10. run'[r].of = run[r].of /\ run'[r].pc = "mark" /\ run'[r].fresh = counts
  BY <1>4
<1> HIDE DEF new
<1>11. ~HoldsInvoice(r)' /\ (HoldsOffer(r)' => counts)
  BY <1>10 DEF HoldsInvoice, HoldsOffer, At
<1>12. RunSound(r)'
  <2>1. p \in succeeded' /\ Of(r, p)' /\ purpose'[p] \in Offers
    BY <1>9, <1>10 DEF Of, CountSold
  <2>2. HoldsOffer(r)' => AmountOf(run'[r].of) <= sold'
    BY <1>7, <1>10, <1>11
  <2> QED BY <1>11, <2>1, <2>2 DEF RunSound, AmountOf
<1>13. \A q \in Runs \ {r} : ~HoldsOffer(q)
  BY DEF CountSold, OfferFree
<1> QED BY <1>4, <1>7, <1>8, <1>11, <1>12, <1>13, RunMovesInv DEF CountSold

LEMMA MarkAppliedInv ==
  ASSUME PurchasesAssumption, PurchasesInv, NEW r \in Runs, MarkApplied(r) PROVE PurchasesInv'
<1>1. run[r] \in HookRuns /\ At(r, "mark")
  BY DEF PurchasesInv, PurchaseTypes, MarkApplied
<1> DEFINE new == [run[r] EXCEPT !.pc = "done"]
<1>2. run' = [run EXCEPT ![r] = new] /\ new \in HookRuns /\ new.pc = "done"
  BY <1>1 DEF MarkApplied, HookRuns
<1> HIDE DEF new
<1>3. run' \in [Runs -> HookRuns] /\ run'[r] = new /\ \A q \in Runs \ {r} : run'[q] = run[q]
  BY <1>2 DEF PurchasesInv, PurchaseTypes
<1>4. PurchaseTypes'
  BY <1>3 DEF MarkApplied, PurchasesInv, PurchaseTypes
<1>5. PICK p \in succeeded : Of(r, p) /\ purpose[p] \in Offers
  BY <1>1 DEF PurchasesInv, RunSound, At
<1>6. \A x \in Payments : purpose[x] = "invoice" => (link'[x] = "applied" <=> link[x] = "applied")
  <2> SUFFICES ASSUME NEW x \in Payments, purpose[x] = "invoice" PROVE link'[x] = link[x]
    OBVIOUS
  <2>1. ~Of(r, x)
    BY <1>5 DEF Of, Offers
  <2> QED BY <2>1 DEF MarkApplied
<1>7. ~HoldsInvoice(r)' /\ ~HoldsOffer(r)' /\ RunSound(r)'
  BY <1>2, <1>3 DEF HoldsInvoice, HoldsOffer, At, RunSound
<1>8. sold' >= sold /\ sold' <= Capacity
  BY DEF MarkApplied, PurchasesInv, PurchaseTypes, CountWithinCapacity
<1> QED BY <1>3, <1>4, <1>6, <1>7, <1>8, RunMovesInv DEF MarkApplied

\* A run that leaves holds nothing any more.
LEMMA RunLeavesInv ==
  ASSUME PurchasesAssumption, PurchasesInv, NEW r \in Runs,
         run' = [run EXCEPT ![r] = NoRun], due' \subseteq due, sold' \in Nat, sold' <= sold,
         HoldsOffer(r) \/ sold' = sold,
         UNCHANGED <<purpose, link, succeeded, invoice, allocated, refund>>
  PROVE  PurchasesInv'
<1>1. NoRun \in HookRuns
  BY DEF NoRun, HookRuns
<1>2. run' \in [Runs -> HookRuns] /\ run'[r] = NoRun /\ \A q \in Runs \ {r} : run'[q] = run[q]
  BY <1>1 DEF PurchasesInv, PurchaseTypes
<1>3. PurchaseTypes'
  BY <1>2 DEF PurchasesInv, PurchaseTypes
<1>4. ~HoldsInvoice(r)' /\ ~HoldsOffer(r)' /\ RunSound(r)'
  BY <1>2 DEF NoRun, HoldsInvoice, HoldsOffer, At, RunSound
<1>5. \A q \in Runs \ {r} : HoldsOffer(q) => sold' >= sold
  BY DEF PurchasesInv, RunsApart, PurchaseTypes
<1>6. sold' <= Capacity
  BY DEF PurchasesInv, CountWithinCapacity, PurchaseTypes, PurchasesAssumption
<1> QED BY <1>2, <1>3, <1>4, <1>5, <1>6, RunMovesInv

LEMMA MarkHookDoneInv ==
  ASSUME PurchasesAssumption, PurchasesInv, NEW r \in Runs, MarkHookDone(r) PROVE PurchasesInv'
<1>1. due' \subseteq due /\ sold' \in Nat /\ sold' <= sold /\ sold' = sold
  BY DEF MarkHookDone, PurchasesInv, PurchaseTypes
<1> QED BY <1>1, RunLeavesInv DEF MarkHookDone

LEMMA HookFailsInv ==
  ASSUME PurchasesAssumption, PurchasesInv, NEW r \in Runs, HookFails(r) PROVE PurchasesInv'
<1>1. AmountOf(run[r].of) \in Nat
  BY AmountNat DEF PurchasesInv, PurchaseTypes, HookRuns
<1>2. HoldsOffer(r) => AmountOf(run[r].of) <= sold
  BY DEF PurchasesInv, RunSound
<1>3. sold' \in Nat /\ sold' <= sold /\ (HoldsOffer(r) \/ sold' = sold) /\ due' \subseteq due
  BY <1>1, <1>2 DEF HookFails, PurchasesInv, PurchaseTypes
<1> QED BY <1>3, RunLeavesInv DEF HookFails

-----------------------------------------------------------------------------
LEMMA PurchasesNextInv ==
  ASSUME PurchasesAssumption, PurchasesInv, [PurchasesNext]_<<purchaseVars, ledgerVars>>
  PROVE  PurchasesInv'
<1>1. CASE UNCHANGED <<purchaseVars, ledgerVars>>
  <2>1. PurchaseTypes' /\ (\A q \in Payments : purpose[q] = "invoice" => (link'[q] = "applied" <=> link[q] = "applied"))
    BY <1>1 DEF PurchasesInv, PurchaseTypes, purchaseVars
  <2>2. sold' >= sold /\ CountWithinCapacity'
    BY <1>1 DEF PurchasesInv, PurchaseTypes, purchaseVars, CountWithinCapacity
  <2>3. (\A q \in Runs : RunSound(q)') /\ RunsApart' /\ InvoiceIsBacked'
    BY <1>1, <2>1, <2>2, NoRunMoves DEF PurchasesInv, purchaseVars
  <2>4. AllocatedOnce' /\ RefundsSound'
    BY <1>1, <2>1, InvoicesAppliedSame, AllocationsStay DEF PurchasesInv, purchaseVars
  <2> QED BY <2>1, <2>2, <2>3, <2>4 DEF PurchasesInv
<1>2. ASSUME NEW p \in Payments, Attach(p) \/ Succeed(p) PROVE PurchasesInv'
  BY <1>2, AttachInv, SucceedInv
<1>6. ASSUME NEW p \in Payments, ReadJournal(p) \/ CommitRefund(p) \/ RefundFails(p) PROVE PurchasesInv'
  BY <1>6, ReadJournalInv, CommitRefundInv, RefundFailsInv
<1>3. ASSUME NEW r \in Runs, RunHook(r) PROVE PurchasesInv'
  <2>1. ASSUME NEW p \in Payments, StartInvoiceHook(r, p) \/ StartPurchaseHook(r, p) PROVE PurchasesInv'
    BY <2>1, StartInvoiceHookInv, StartPurchaseHookInv
  <2>2. CASE PostAllocation(r) \/ SumPayments(r) \/ WriteInvoice(r)
    BY <2>2, PostAllocationInv, SumPaymentsInv, WriteInvoiceInv
  <2>3. CASE CountSold(r) \/ MarkApplied(r) \/ MarkHookDone(r)
    BY <2>3, CountSoldInv, MarkAppliedInv, MarkHookDoneInv
  <2> QED BY <1>3, <2>1, <2>2, <2>3 DEF RunHook
<1>4. ASSUME NEW r \in Runs, HookFails(r) PROVE PurchasesInv'
  BY <1>4, HookFailsInv
<1>5. CASE SetEventTiersFull
  BY <1>5, SetEventTiersFullInv
<1> QED BY <1>1, <1>2, <1>3, <1>4, <1>5, <1>6 DEF PurchasesNext

\* An invoice never shows more than the payments applied to it and is paid only when
\* they cover it, the merchant is allocated each of them once and loses one only to
\* its refund, and the count of a tier or service stays within its capacity, for
\* any payments and any number of hook runs and refunds that overlap, fail and run
\* again (ApplyInvoicePaymentSuccess, ConfirmEventTicketPurchase,
\* ConfirmServicePurchase, RefundPayment).
THEOREM PurchasesAreSafe == PurchasesSpec => []PurchasesSafe
<1>1. LedgerInit /\ PurchasesInit => PurchasesInv
  BY PurchasesAssumption, PurchasesInitInv
<1>2. PurchasesInv /\ [PurchasesNext]_<<purchaseVars, ledgerVars>> => PurchasesInv'
  BY PurchasesAssumption, PurchasesNextInv
<1>3. PurchasesInv => PurchasesSafe
  BY DEF PurchasesInv, PurchasesSafe
<1> QED BY <1>1, <1>2, <1>3, PTL DEF PurchasesSpec

-----------------------------------------------------------------------------
(* Thrift groups.  The contributions owed are those of the cycles opened   *)
(* so far, one of every member of the rotation.  A contribution takes one  *)
(* payment and a payment one contribution (SharesSound), so the hook that  *)
(* holds one knows whether it was paid, and what its count saw paid stays  *)
(* paid (ThriftHookSound).  Cycles end in order (CyclesSound), and the     *)
(* pool holds what was paid into those that have not (PoolSound).          *)

GroupStates   == {"inviting", "active", "completed"}
CycleStates   == {"pending_contributions", "ready_for_payout", "payout_completed"}
PotStates     == {"none", "pending", "completed"}
PaymentStates == {"none", "pending", "succeeded", "failed", "refunded"}
Settled       == {"succeeded", "refunded"}

Owing  == (1 .. group.current) \X Active
Shares == [status : {"awaiting", "paid"}, by : SUBSET Contributors]

ThriftTypes ==
  /\ group \in [status : GroupStates, target : Nat \ {0}, current : Nat]
  /\ member \in [Users -> {"none", "confirmed", "active"}]
  /\ cycle \in Seq(CycleStates) /\ Len(cycle) = group.current
  /\ payout \in Seq(PotStates) /\ Len(payout) = group.current
  /\ contribution \in [Owing -> Shares]
  /\ payment \in [Contributors -> [by : SUBSET Users, status : PaymentStates]]
  /\ hook \in [Contributors -> [pc : {"idle", "due", "post", "count", "commit", "applied"},
                                fresh : BOOLEAN, unpaid : SUBSET (Nat \X Users)]]
  /\ pool \in Int /\ refunds \in Nat

GroupSound ==
  /\ Inviting => group.current = 0 /\ Active = {}
  /\ ~Inviting => /\ group.current \in 1 .. group.target
                  /\ group.target = Number(Active)
                  /\ {position[u] : u \in Active} = 1 .. Number(Active)

CyclesSound ==
  /\ \A n \in 1 .. group.current : /\ payout[n] = "none" <=> cycle[n] = "pending_contributions"
                                   /\ n < group.current => payout[n] = "completed"
  /\ ~Inviting => (group.status = "completed" <=> payout[group.current] = "completed")
  /\ group.status = "completed" => group.current = group.target

Paid(k) == contribution[k].status = "paid"

SharesSound ==
  /\ \A k \in Owing :
       /\ \A p \in contribution[k].by : payment[p].by = {k[2]} /\ payment[p].status # "none"
       /\ \A p, q \in contribution[k].by : p = q
       /\ Paid(k) => \E p \in contribution[k].by : payment[p].status \in Settled
       /\ payout[k[1]] # "none" => Paid(k)
  /\ \A j, k \in Owing : contribution[j].by \cap contribution[k].by # {} => j = k

ThriftHookSound(p) ==
  /\ hook[p].pc # "idle" => payment[p].status \in Settled
  /\ hook[p].pc \in {"post", "count", "commit"} =>
       \E k \in Owing :
         /\ p \in contribution[k].by
         /\ hook[p].fresh <=> ~Paid(k)
         /\ hook[p].pc = "commit" /\ hook[p].unpaid = {} =>
              \A j \in Owing : j[1] = k[1] /\ j # k => Paid(j)

Pooled == {k \in Owing : Paid(k) /\ payout[k[1]] # "completed"}
PoolSound == refunds = 0 => pool = Number(Pooled)

ThriftInv ==
  /\ ThriftTypes
  /\ GroupSound /\ CyclesSound
  /\ SharesSound
  /\ \A p \in Contributors : ThriftHookSound(p)
  /\ PoolSound

-----------------------------------------------------------------------------
LEMMA ThriftInitInv == ASSUME ThriftAssumption, ThriftInit PROVE ThriftInv
<1>1. PICK t \in Targets : group = [status |-> "inviting", target |-> t, current |-> 0]
  BY DEF ThriftInit
<1>2. t \in Nat \ {0}
  BY FS_CardinalityType DEF ThriftAssumption
<1>3. Active = {} /\ Owing = {} /\ Inviting /\ group.current = 0
  BY <1>1 DEF ThriftInit, Active, Owing, Inviting
<1>4. contribution \in [Owing -> Shares]
  BY <1>3 DEF ThriftInit
<1>5. cycle \in Seq(CycleStates) /\ payout \in Seq(PotStates) /\ Len(cycle) = 0 /\ Len(payout) = 0
  BY DEF ThriftInit
<1>6. ThriftTypes
  BY <1>1, <1>2, <1>3, <1>4, <1>5 DEF ThriftInit, ThriftTypes, GroupStates, NoPayment, NoHook, PaymentStates
<1>7. GroupSound /\ CyclesSound /\ SharesSound
  BY <1>1, <1>3 DEF GroupSound, CyclesSound, SharesSound
<1>8. \A p \in Contributors : ThriftHookSound(p)
  BY DEF ThriftInit, ThriftHookSound, NoHook
<1>9. Pooled = {} /\ Cardinality({}) = 0
  BY <1>3, FS_EmptySet DEF Pooled
<1>10. PoolSound
  BY <1>9 DEF PoolSound, ThriftInit, Number
<1> QED BY <1>6, <1>7, <1>8, <1>10 DEF ThriftInv

LEMMA ThriftInvIsSafe == ASSUME ThriftAssumption, ThriftInv PROVE ThriftSafe
<1>1. DOMAIN contribution = Owing /\ Cycles = 1 .. group.current
  BY DEF ThriftInv, ThriftTypes, Cycles
<1>2. \A n \in Cycles : payout[n] # "none" =>
        /\ {k[2] : k \in Pot(n)} = Active
        /\ \A k \in Pot(n) : contribution[k].status = "paid"
  <2> SUFFICES ASSUME NEW n \in Cycles, payout[n] # "none"
               PROVE  /\ {k[2] : k \in Pot(n)} = Active
                      /\ \A k \in Pot(n) : contribution[k].status = "paid"
    OBVIOUS
  <2>1. \A k \in Pot(n) : k \in Owing /\ k[1] = n /\ k[2] \in Active
    BY <1>1 DEF Pot, Owing
  <2>2. \A u \in Active : <<n, u>> \in Pot(n) /\ <<n, u>>[2] = u
    BY <1>1 DEF Pot, Owing
  <2>3. {k[2] : k \in Pot(n)} = Active
    BY <2>1, <2>2
  <2> QED BY <2>1, <2>3 DEF ThriftInv, SharesSound, Paid
<1>3. \A k \in DOMAIN contribution : contribution[k].status = "paid" =>
        \E p \in contribution[k].by : payment[p].by = {k[2]} /\ payment[p].status \in {"succeeded", "refunded"}
  BY <1>1 DEF ThriftInv, SharesSound, Paid, Settled
<1>4. refunds = 0 =>
        pool = Number({k \in DOMAIN contribution : contribution[k].status = "paid" /\ payout[k[1]] # "completed"})
  BY <1>1 DEF ThriftInv, PoolSound, Pooled, Paid
<1>5. PotIsWhole
  BY <1>2, <1>3, <1>4 DEF PotIsWhole
<1>6. RotationIsFair
  <2> SUFFICES ASSUME ~Inviting
               PROVE  /\ {position[u] : u \in Active} = 1 .. Number(Active)
                      /\ group.target = Number(Active) /\ group.current <= group.target
                      /\ \A n \in Cycles : n < group.current => payout[n] = "completed"
                      /\ group.status = "completed" <=>
                           group.current = group.target /\ payout[group.target] = "completed"
    BY DEF RotationIsFair, Inviting
  <2> QED BY <1>1 DEF ThriftInv, GroupSound, CyclesSound, ThriftTypes
<1> QED BY <1>5, <1>6 DEF ThriftSafe

-----------------------------------------------------------------------------
\* What a hook relies on lasts: its contribution keeps its payment and standing, what
\* is paid stays paid, and new cycles are other cycles.
LEMMA ThriftHookStaysSound ==
  ASSUME ThriftTypes, NEW p \in Contributors, ThriftHookSound(p), hook'[p] = hook[p],
         payment[p].status \in Settled => payment'[p].status \in Settled,
         Owing \subseteq Owing', \A j \in Owing' \ Owing : j[1] \notin 1 .. group.current,
         \A k \in Owing : p \in contribution[k].by => p \in contribution'[k].by /\ (Paid(k)' <=> Paid(k)),
         \A j \in Owing : Paid(j) => Paid(j)'
  PROVE  ThriftHookSound(p)'
<1>1. hook'[p].pc # "idle" => payment'[p].status \in Settled
  BY DEF ThriftHookSound
<1>2. ASSUME hook'[p].pc \in {"post", "count", "commit"}
      PROVE  \E k \in Owing' :
               /\ p \in contribution'[k].by
               /\ hook'[p].fresh <=> ~Paid(k)'
               /\ hook'[p].pc = "commit" /\ hook'[p].unpaid = {} =>
                    \A j \in Owing' : j[1] = k[1] /\ j # k => Paid(j)'
  <2>1. PICK k \in Owing :
          /\ p \in contribution[k].by
          /\ hook[p].fresh <=> ~Paid(k)
          /\ hook[p].pc = "commit" /\ hook[p].unpaid = {} =>
               \A j \in Owing : j[1] = k[1] /\ j # k => Paid(j)
    BY <1>2 DEF ThriftHookSound
  <2>2. k[1] \in 1 .. group.current
    BY DEF Owing
  <2>3. \A j \in Owing' : j[1] = k[1] => j \in Owing
    BY <2>2
  <2>4. k \in Owing' /\ p \in contribution'[k].by /\ (hook'[p].fresh <=> ~Paid(k)')
    BY <2>1
  <2>5. hook'[p].pc = "commit" /\ hook'[p].unpaid = {} =>
          \A j \in Owing' : j[1] = k[1] /\ j # k => Paid(j)'
    BY <2>1, <2>3
  <2> QED BY <2>4, <2>5
<1> QED BY <1>1, <1>2 DEF ThriftHookSound, Paid

\* Steps that leave the group, its cycles and contributions alone.
LEMMA GroupStaysSound ==
  ASSUME ThriftInv, UNCHANGED <<group, position, cycle, payout>>, member' \in [Users -> {"none", "confirmed", "active"}],
         Active' = Active
  PROVE  GroupSound' /\ CyclesSound' /\ Owing' = Owing
<1>1. GroupSound'
  BY DEF ThriftInv, GroupSound, Inviting, Number
<1>2. CyclesSound'
  BY DEF ThriftInv, CyclesSound, Inviting
<1> QED BY <1>1, <1>2 DEF Owing

LEMMA ActiveSame == ASSUME member' = member PROVE Active' = Active
BY DEF Active

-----------------------------------------------------------------------------
(* Members. *)

\* Steps in which only members or counts change, and nobody becomes active.
LEMMA NobodyActivatedInv ==
  ASSUME ThriftInv, member' \in [Users -> {"none", "confirmed", "active"}], Active' = Active,
         UNCHANGED <<group, position, cycleVars, payment, hook, pool, refunds>>
  PROVE  ThriftInv'
<1> USE DEF cycleVars
<1>1. GroupSound' /\ CyclesSound' /\ Owing' = Owing
  BY GroupStaysSound
<1>2. ThriftTypes'
  BY <1>1 DEF ThriftInv, ThriftTypes
<1>3. SharesSound'
  BY <1>1 DEF ThriftInv, SharesSound, Paid
<1>4. \A p \in Contributors : ThriftHookSound(p)'
  BY <1>1 DEF ThriftInv, ThriftHookSound, Paid
<1>5. PoolSound'
  BY <1>1 DEF ThriftInv, PoolSound, Pooled, Paid, Number
<1> QED BY <1>1, <1>2, <1>3, <1>4, <1>5 DEF ThriftInv

LEMMA CountMembersInv ==
  ASSUME ThriftInv, NEW u \in Users, CountMembers(u) PROVE ThriftInv'
<1>1. member' = member /\ member \in [Users -> {"none", "confirmed", "active"}]
  BY DEF CountMembers, ThriftInv, ThriftTypes
<1> QED BY <1>1, ActiveSame, NobodyActivatedInv DEF CountMembers

LEMMA JoinThriftGroupInv ==
  ASSUME ThriftInv, NEW u \in Users, JoinThriftGroup(u) PROVE ThriftInv'
<1>1. member \in [Users -> {"none", "confirmed", "active"}]
  BY DEF ThriftInv, ThriftTypes
<1>2. member' = member \/ (member[u] = "none" /\ member' = [member EXCEPT ![u] = "confirmed"])
  BY DEF JoinThriftGroup
<1>3. member' \in [Users -> {"none", "confirmed", "active"}] /\ Active' = Active
  BY <1>1, <1>2 DEF Active
<1> QED BY <1>3, NobodyActivatedInv DEF JoinThriftGroup

\* Nothing has been opened while the group invites.
LEMMA InvitingIsEmpty ==
  ASSUME ThriftInv, Inviting
  PROVE  group.current = 0 /\ Active = {} /\ Owing = {} /\ DOMAIN contribution = {}
BY DEF ThriftInv, GroupSound, Owing, ThriftTypes

LEMMA NoHookHolds ==
  ASSUME ThriftInv, Inviting, NEW p \in Contributors
  PROVE  hook[p].pc \notin {"post", "count", "commit"}
BY InvitingIsEmpty DEF ThriftInv, ThriftHookSound

LEMMA UpdateThriftGroupInv ==
  ASSUME ThriftAssumption, ThriftInv, NEW target \in Targets, UpdateThriftGroup(target) PROVE ThriftInv'
<1>1. target \in Nat \ {0}
  BY FS_CardinalityType DEF ThriftAssumption
<1>2. Inviting /\ group.current = 0 /\ Active = {} /\ Owing = {}
  BY InvitingIsEmpty DEF UpdateThriftGroup
<1>3. /\ group' \in [status : GroupStates, target : Nat \ {0}, current : Nat]
      /\ group'.status = group.status /\ group'.current = group.current
  BY <1>1 DEF UpdateThriftGroup, ThriftInv, ThriftTypes
<1>4. Active' = Active /\ Owing' = Owing /\ Inviting'
  BY <1>2, <1>3, ActiveSame DEF UpdateThriftGroup, Owing, Inviting
<1>5. ThriftTypes'
  BY <1>3, <1>4 DEF UpdateThriftGroup, ThriftInv, ThriftTypes, cycleVars
<1>6. GroupSound' /\ CyclesSound' /\ SharesSound'
  BY <1>2, <1>3, <1>4 DEF GroupSound, CyclesSound, SharesSound, Inviting
<1>7. \A p \in Contributors : ThriftHookSound(p)'
  BY <1>2, NoHookHolds DEF UpdateThriftGroup, ThriftInv, ThriftHookSound
<1>8. PoolSound'
  BY <1>4 DEF UpdateThriftGroup, ThriftInv, PoolSound, Pooled, Paid, Number, cycleVars
<1> QED BY <1>5, <1>6, <1>7, <1>8 DEF ThriftInv

\* A payout order is a rotation of as many members as it has places.
LEMMA RotationsAreBijections ==
  ASSUME ThriftTypes, NEW order \in Rotations
  PROVE  LET chosen == {order[i] : i \in DOMAIN order}
         IN  /\ DOMAIN order = 1 .. group.target /\ chosen \subseteq Users
             /\ IsFiniteSet(chosen) /\ Number(chosen) = group.target
<1> DEFINE chosen == {order[i] : i \in DOMAIN order}
           places == 1 .. group.target
<1>1. order \in [places -> Confirmed] /\ \A i, j \in places : order[i] = order[j] => i = j
  BY DEF Rotations
<1>2. DOMAIN order = places /\ chosen \subseteq Users
  BY <1>1 DEF Confirmed
<1>3. group.target \in Nat
  BY DEF ThriftTypes
<1>4. IsFiniteSet(places) /\ Cardinality(places) = group.target
  BY <1>3, FS_Interval
<1>5. order \in Bijection(places, chosen)
  BY <1>1, <1>2 DEF Bijection, Injection, Surjection, IsInjective
<1>6. ExistsBijection(places, chosen)
  BY <1>5 DEF ExistsBijection
<1>7. IsFiniteSet(chosen) /\ Cardinality(chosen) = Cardinality(places)
  BY <1>4, <1>6, FS_Bijection
<1> QED BY <1>2, <1>4, <1>7 DEF Number

LEMMA ActivateThriftGroupInv ==
  ASSUME ThriftAssumption, ThriftInv, ActivateThriftGroup PROVE ThriftInv'
<1>1. CASE UNCHANGED <<group, member, position, cycleVars>>
  <2>1. member' \in [Users -> {"none", "confirmed", "active"}] /\ Active' = Active
    BY <1>1, ActiveSame DEF ThriftInv, ThriftTypes
  <2> QED BY <1>1, <2>1, NobodyActivatedInv DEF ActivateThriftGroup
<1>2. ASSUME Inviting, NEW order \in Rotations,
             LET chosen == {order[i] : i \in DOMAIN order}
             IN  /\ member' = [u \in Users |-> IF u \in chosen THEN "active" ELSE member[u]]
                 /\ position' = [u \in Users |->
                      IF u \in chosen THEN CHOOSE i \in DOMAIN order : order[i] = u ELSE 0]
                 /\ cycle' = <<"pending_contributions">> /\ payout' = <<"none">>
                 /\ contribution' = OpenCycle(1, chosen)
                 /\ group' = [group EXCEPT !.status = "active", !.current = 1],
             UNCHANGED <<payment, hook, pool, refunds>>
      PROVE  ThriftInv'
  <2> DEFINE chosen == {order[i] : i \in DOMAIN order}
  <2>1. /\ member' = [u \in Users |-> IF u \in chosen THEN "active" ELSE member[u]]
        /\ position' = [u \in Users |->
             IF u \in chosen THEN CHOOSE i \in DOMAIN order : order[i] = u ELSE 0]
        /\ cycle' = <<"pending_contributions">> /\ payout' = <<"none">>
        /\ contribution' = OpenCycle(1, chosen)
        /\ group' = [group EXCEPT !.status = "active", !.current = 1]
    BY <1>2
  <2>2. /\ DOMAIN order = 1 .. group.target /\ chosen \subseteq Users
        /\ IsFiniteSet(chosen) /\ Number(chosen) = group.target
    BY RotationsAreBijections DEF ThriftInv
  <2>3. group.current = 0 /\ Active = {} /\ Owing = {} /\ DOMAIN contribution = {}
    BY <1>2, InvitingIsEmpty
  <2>4. \A u \in chosen : \E i \in DOMAIN order : order[i] = u
    OBVIOUS
  <2>5. \A i \in DOMAIN order : order[i] \in chosen
    OBVIOUS
  <2>6. \A i, j \in DOMAIN order : order[i] = order[j] => i = j
    BY DEF Rotations
  <2> HIDE DEF chosen
  <2>7. Active' = chosen
    BY <2>1, <2>2, <2>3 DEF Active
  <2>8. /\ group' \in [status : GroupStates, target : Nat \ {0}, current : Nat]
        /\ group'.status = "active" /\ group'.current = 1 /\ group'.target = group.target
    BY <2>1 DEF ThriftInv, ThriftTypes, GroupStates
  <2>9. \A u \in chosen : position'[u] \in DOMAIN order /\ order[position'[u]] = u
    BY <2>1, <2>2, <2>4
  <2>10. {position'[u] : u \in chosen} = 1 .. group.target
    <3>1. ASSUME NEW i \in 1 .. group.target PROVE \E u \in chosen : position'[u] = i
      <4>1. i \in DOMAIN order /\ order[i] \in chosen
        BY <2>2, <2>5
      <4>2. position'[order[i]] \in DOMAIN order /\ order[position'[order[i]]] = order[i]
        BY <4>1, <2>9
      <4>3. position'[order[i]] = i
        BY <4>1, <4>2, <2>6
      <4> QED BY <4>1, <4>3
    <3>2. \A u \in chosen : position'[u] \in 1 .. group.target
      BY <2>2, <2>9
    <3> QED BY <3>1, <3>2
  <2>11. GroupSound'
    <3>1. ~Inviting' /\ Number(chosen) = group.target /\ group.target \in Nat \ {0}
      BY <2>2, <2>8 DEF Inviting, ThriftInv, ThriftTypes
    <3> QED BY <3>1, <2>7, <2>8, <2>10 DEF GroupSound, Inviting, Number
  <2>12. Owing' = {<<1, u>> : u \in chosen}
    BY <2>7, <2>8 DEF Owing
  <2>13. contribution' = [k \in Owing' |-> [status |-> "awaiting", by |-> {}]]
    BY <2>1, <2>3, <2>12 DEF OpenCycle
  <2>14. contribution' \in [Owing' -> Shares]
    BY <2>13 DEF Shares
  <2>15. /\ cycle' \in Seq(CycleStates) /\ Len(cycle') = 1 /\ cycle'[1] = "pending_contributions"
         /\ payout' \in Seq(PotStates) /\ Len(payout') = 1 /\ payout'[1] = "none"
    BY <2>1 DEF CycleStates, PotStates
  <2>16. member' \in [Users -> {"none", "confirmed", "active"}]
    BY <2>1 DEF ThriftInv, ThriftTypes
  <2>17. ThriftTypes'
    BY <1>2, <2>8, <2>14, <2>15, <2>16 DEF ThriftInv, ThriftTypes
  <2>18. CyclesSound'
    BY <2>8, <2>15 DEF CyclesSound
  <2>19. \A k \in Owing' : k[1] = 1 /\ ~Paid(k)' /\ contribution'[k].by = {}
    BY <2>12, <2>13 DEF Paid
  <2>20. SharesSound'
    BY <2>15, <2>19 DEF SharesSound
  <2>21. \A p \in Contributors : ThriftHookSound(p)'
    BY <1>2, NoHookHolds DEF ThriftInv, ThriftHookSound
  <2>22. PoolSound'
    <3>1. Pooled = {} /\ Pooled' = {}
      BY <2>3, <2>19 DEF Pooled
    <3> QED BY <1>2, <3>1 DEF ThriftInv, PoolSound, Number
  <2> QED BY <2>11, <2>17, <2>18, <2>20, <2>21, <2>22 DEF ThriftInv
<1>3. UNCHANGED <<payment, hook, pool, refunds>>
  BY DEF ActivateThriftGroup
<1> QED BY <1>1, <1>2, <1>3 DEF ActivateThriftGroup

-----------------------------------------------------------------------------
(* Payments and their hooks. *)

\* What stays of the invariant when only payments, hooks and standings change.
LEMMA SharesKeptInv ==
  ASSUME ThriftInv, UNCHANGED <<groupVars, cycleVars>>,
         payment' \in [Contributors -> [by : SUBSET Users, status : PaymentStates]],
         \A p \in Contributors : payment[p].status # "none" =>
           payment'[p].by = payment[p].by /\ payment'[p].status # "none",
         \A p \in Contributors : payment[p].status \in Settled => payment'[p].status \in Settled
  PROVE  GroupSound' /\ CyclesSound' /\ Owing' = Owing /\ SharesSound' /\ Pooled' = Pooled
<1>1. Active' = Active /\ member' \in [Users -> {"none", "confirmed", "active"}]
  BY ActiveSame DEF groupVars, ThriftInv, ThriftTypes
<1>2. GroupSound' /\ CyclesSound' /\ Owing' = Owing
  BY <1>1, GroupStaysSound DEF groupVars, cycleVars
<1>3. contribution' = contribution /\ payout' = payout
  BY DEF cycleVars
<1>4. \A k \in Owing : Paid(k)' <=> Paid(k)
  BY <1>3 DEF Paid
<1>5. \A k \in Owing : contribution[k].by \subseteq Contributors
  BY DEF ThriftInv, ThriftTypes, Shares
<1>6. SharesSound'
  <2>1. ASSUME NEW k \in Owing, NEW p \in contribution[k].by
        PROVE  payment'[p].by = {k[2]} /\ payment'[p].status # "none"
    BY <1>5 DEF ThriftInv, SharesSound
  <2>2. ASSUME NEW k \in Owing, Paid(k) PROVE \E p \in contribution[k].by : payment'[p].status \in Settled
    BY <1>5, <2>2 DEF ThriftInv, SharesSound
  <2>3. ASSUME NEW k \in Owing
        PROVE  (\A p, q \in contribution[k].by : p = q) /\ (payout[k[1]] # "none" => Paid(k))
    BY DEF ThriftInv, SharesSound
  <2>4. \A j, k \in Owing : contribution[j].by \cap contribution[k].by # {} => j = k
    BY DEF ThriftInv, SharesSound
  <2> QED BY <1>2, <1>3, <1>4, <2>1, <2>2, <2>3, <2>4 DEF SharesSound
<1>7. Pooled' = Pooled
  BY <1>2, <1>3, <1>4 DEF Pooled
<1> QED BY <1>2, <1>6, <1>7

\* A hook that does not move is sound after a step that only touched payments.
LEMMA HookOfSamePayment ==
  ASSUME ThriftInv, NEW p \in Contributors, UNCHANGED cycleVars, Owing' = Owing, hook'[p] = hook[p],
         payment[p].status \in Settled => payment'[p].status \in Settled
  PROVE  ThriftHookSound(p)'
BY DEF ThriftInv, ThriftHookSound, Paid, cycleVars

HookStates == [pc : {"idle", "due", "post", "count", "commit", "applied"},
               fresh : BOOLEAN, unpaid : SUBSET (Nat \X Users)]

\* Steps of one hook that leave the rest alone.
LEMMA OneHookMovesInv ==
  ASSUME ThriftInv, NEW p \in Contributors, NEW new \in HookStates, hook' = [hook EXCEPT ![p] = new],
         UNCHANGED <<groupVars, cycleVars, payment, pool, refunds>>, ThriftHookSound(p)'
  PROVE  ThriftInv'
<1>1. payment \in [Contributors -> [by : SUBSET Users, status : PaymentStates]]
  BY DEF ThriftInv, ThriftTypes
<1>2. GroupSound' /\ CyclesSound' /\ Owing' = Owing /\ SharesSound' /\ Pooled' = Pooled
  BY <1>1, SharesKeptInv
<1>3. hook' \in [Contributors -> HookStates] /\ \A q \in Contributors \ {p} : hook'[q] = hook[q]
  BY DEF ThriftInv, ThriftTypes, HookStates
<1>4. ThriftTypes'
  BY <1>2, <1>3 DEF ThriftInv, ThriftTypes, HookStates, groupVars, cycleVars
<1>5. \A q \in Contributors : ThriftHookSound(q)'
  BY <1>2, <1>3, HookOfSamePayment
<1>6. PoolSound'
  BY <1>2 DEF ThriftInv, PoolSound, Number
<1> QED BY <1>2, <1>4, <1>5, <1>6 DEF ThriftInv

LEMMA HookTypes ==
  ASSUME ThriftInv, NEW p \in Contributors
  PROVE  /\ hook[p] \in HookStates /\ hook \in [Contributors -> HookStates]
         /\ payment[p] \in [by : SUBSET Users, status : PaymentStates]
         /\ payment \in [Contributors -> [by : SUBSET Users, status : PaymentStates]]
BY DEF ThriftInv, ThriftTypes, HookStates

LEMMA SucceedsInv ==
  ASSUME ThriftInv, NEW p \in Contributors, Succeeds(p) PROVE ThriftInv'
<1> DEFINE paid == [payment[p] EXCEPT !.status = "succeeded"]
           new  == [hook[p] EXCEPT !.pc = "due"]
<1>1. /\ paid \in [by : SUBSET Users, status : PaymentStates]
      /\ paid.by = payment[p].by /\ paid.status = "succeeded"
  BY HookTypes DEF PaymentStates
<1>2. new \in HookStates /\ new.pc = "due"
  BY HookTypes DEF HookStates
<1>3. payment' = [payment EXCEPT ![p] = paid] /\ hook' = [hook EXCEPT ![p] = new]
  BY DEF Succeeds
<1> HIDE DEF paid, new
<1>4. /\ payment' \in [Contributors -> [by : SUBSET Users, status : PaymentStates]]
      /\ payment'[p] = paid /\ \A q \in Contributors \ {p} : payment'[q] = payment[q]
  BY <1>1, <1>3, HookTypes
<1>5. /\ \A q \in Contributors : payment[q].status # "none" =>
           payment'[q].by = payment[q].by /\ payment'[q].status # "none"
      /\ \A q \in Contributors : payment[q].status \in Settled => payment'[q].status \in Settled
  BY <1>1, <1>4 DEF Settled
<1>6. GroupSound' /\ CyclesSound' /\ Owing' = Owing /\ SharesSound' /\ Pooled' = Pooled
  BY <1>4, <1>5, SharesKeptInv DEF Succeeds
<1>7. hook' \in [Contributors -> HookStates] /\ hook'[p] = new /\ \A q \in Contributors \ {p} : hook'[q] = hook[q]
  BY <1>2, <1>3, HookTypes
<1>8. ThriftTypes'
  BY <1>4, <1>6, <1>7 DEF Succeeds, ThriftInv, ThriftTypes, HookStates, groupVars, cycleVars
<1>9. ThriftHookSound(p)'
  BY <1>1, <1>2, <1>4, <1>7 DEF ThriftHookSound, Settled
<1>10. \A q \in Contributors : ThriftHookSound(q)'
  BY <1>5, <1>6, <1>7, <1>9, HookOfSamePayment DEF Succeeds
<1>11. PoolSound'
  BY <1>6 DEF Succeeds, ThriftInv, PoolSound, Number
<1> QED BY <1>6, <1>8, <1>10, <1>11 DEF ThriftInv

LEMMA FailsInv ==
  ASSUME ThriftInv, NEW p \in Contributors, Fails(p) PROVE ThriftInv'
<1> DEFINE bad == [payment[p] EXCEPT !.status = "failed"]
<1>1. bad \in [by : SUBSET Users, status : PaymentStates] /\ bad.by = payment[p].by /\ bad.status = "failed"
  BY HookTypes DEF PaymentStates
<1>2. payment' = [payment EXCEPT ![p] = bad] /\ payment[p].status = "pending"
  BY DEF Fails
<1> HIDE DEF bad
<1>3. /\ payment' \in [Contributors -> [by : SUBSET Users, status : PaymentStates]]
      /\ payment'[p] = bad /\ \A q \in Contributors \ {p} : payment'[q] = payment[q]
  BY <1>1, <1>2, HookTypes
<1>4. /\ \A q \in Contributors : payment[q].status # "none" =>
           payment'[q].by = payment[q].by /\ payment'[q].status # "none"
      /\ \A q \in Contributors : payment[q].status \in Settled => payment'[q].status \in Settled
  BY <1>1, <1>2, <1>3 DEF Settled
<1>5. GroupSound' /\ CyclesSound' /\ Owing' = Owing /\ SharesSound' /\ Pooled' = Pooled
  BY <1>3, <1>4, SharesKeptInv DEF Fails
<1>6. ThriftTypes'
  BY <1>3, <1>5 DEF Fails, ThriftInv, ThriftTypes, groupVars, cycleVars
<1>7. \A q \in Contributors : ThriftHookSound(q)'
  BY <1>4, <1>5, HookOfSamePayment DEF Fails
<1>8. PoolSound'
  BY <1>5 DEF Fails, ThriftInv, PoolSound, Number
<1> QED BY <1>5, <1>6, <1>7, <1>8 DEF ThriftInv

\* A refund leaves the contribution as it is, and ends what is said of the pool.
LEMMA RefundContributionInv ==
  ASSUME ThriftInv, NEW p \in Contributors, RefundContribution(p) PROVE ThriftInv'
<1> DEFINE back == [payment[p] EXCEPT !.status = "refunded"]
<1>1. back \in [by : SUBSET Users, status : PaymentStates] /\ back.by = payment[p].by /\ back.status = "refunded"
  BY HookTypes DEF PaymentStates
<1>2. payment' = [payment EXCEPT ![p] = back]
  BY DEF RefundContribution
<1> HIDE DEF back
<1>3. /\ payment' \in [Contributors -> [by : SUBSET Users, status : PaymentStates]]
      /\ payment'[p] = back /\ \A q \in Contributors \ {p} : payment'[q] = payment[q]
  BY <1>1, <1>2, HookTypes
<1>4. /\ \A q \in Contributors : payment[q].status # "none" =>
           payment'[q].by = payment[q].by /\ payment'[q].status # "none"
      /\ \A q \in Contributors : payment[q].status \in Settled => payment'[q].status \in Settled
  BY <1>1, <1>3 DEF Settled
<1>5. GroupSound' /\ CyclesSound' /\ Owing' = Owing /\ SharesSound' /\ Pooled' = Pooled
  BY <1>3, <1>4, SharesKeptInv DEF RefundContribution
<1>6. refunds' \in Nat \ {0} /\ pool' \in Int
  BY DEF RefundContribution, ThriftInv, ThriftTypes
<1>7. ThriftTypes'
  BY <1>3, <1>5, <1>6 DEF RefundContribution, ThriftInv, ThriftTypes, groupVars, cycleVars
<1>8. \A q \in Contributors : ThriftHookSound(q)'
  BY <1>4, <1>5, HookOfSamePayment DEF RefundContribution
<1>9. PoolSound'
  BY <1>6 DEF PoolSound
<1> QED BY <1>5, <1>7, <1>8, <1>9 DEF ThriftInv

-----------------------------------------------------------------------------
\* A payment is for one contribution.
LEMMA ForIsOne ==
  ASSUME ThriftInv, NEW p \in Contributors, NEW k \in Owing, p \in contribution[k].by
  PROVE  For(p) = {k} /\ CycleOf(p) = k[1]
<1>1. \A j \in Owing : p \in contribution[j].by => j = k
  BY DEF ThriftInv, SharesSound
<1>2. For(p) = {k}
  BY <1>1 DEF For, ThriftInv, ThriftTypes
<1> QED BY <1>2 DEF CycleOf

LEMMA ForIsOwing ==
  ASSUME ThriftInv, NEW p \in Contributors
  PROVE  For(p) = {k \in Owing : p \in contribution[k].by}
BY DEF For, ThriftInv, ThriftTypes

LEMMA ApplyContributionInv ==
  ASSUME ThriftInv, NEW p \in Contributors, ApplyContribution(p) PROVE ThriftInv'
<1> DEFINE fresh == \E k \in For(p) : contribution[k].status # "paid"
           pc    == CASE For(p) = {} -> "applied" [] fresh -> "post" [] OTHER -> "count"
           new   == [pc |-> pc, fresh |-> fresh, unpaid |-> {}]
<1>1. hook' = [hook EXCEPT ![p] = new] /\ hook[p].pc = "due"
  BY DEF ApplyContribution, HookAt
<1>2. /\ fresh \in BOOLEAN /\ pc \in {"applied", "post", "count"}
      /\ pc # "applied" => For(p) # {}
  OBVIOUS
<1>3. new \in HookStates
  BY <1>2 DEF HookStates
<1>4. hook'[p] = new
  BY <1>1, HookTypes
<1>5. payment[p].status \in Settled
  BY <1>1 DEF ThriftInv, ThriftHookSound
<1>6. ASSUME pc # "applied"
      PROVE  \E k \in Owing : p \in contribution[k].by /\ (fresh <=> ~Paid(k))
  <2>1. PICK k \in Owing : k \in For(p) /\ p \in contribution[k].by
    BY <1>2, <1>6, ForIsOwing
  <2>2. For(p) = {k}
    BY <2>1, ForIsOne
  <2> QED BY <2>1, <2>2 DEF Paid
<1>7. UNCHANGED <<groupVars, cycleVars, payment, pool, refunds>>
  BY DEF ApplyContribution
<1>8. Owing' = Owing /\ contribution' = contribution /\ payment' = payment
  BY <1>7, ActiveSame DEF groupVars, cycleVars, Owing
<1>9. new.pc = pc /\ new.fresh = fresh
  OBVIOUS
<1> HIDE DEF new, pc, fresh
<1>10. ThriftHookSound(p)'
  BY <1>2, <1>4, <1>5, <1>6, <1>8, <1>9 DEF ThriftHookSound, Paid
<1> QED BY <1>1, <1>3, <1>7, <1>10, OneHookMovesInv

LEMMA PostContributionInv ==
  ASSUME ThriftInv, NEW p \in Contributors, PostContribution(p) PROVE ThriftInv'
<1> DEFINE new == [hook[p] EXCEPT !.pc = "count"]
<1>1. hook' = [hook EXCEPT ![p] = new] /\ hook[p].pc = "post"
  BY DEF PostContribution, HookAt
<1>2. new \in HookStates /\ new.pc = "count" /\ new.fresh = hook[p].fresh
  BY HookTypes DEF HookStates
<1> HIDE DEF new
<1>3. hook'[p] = new
  BY <1>1, HookTypes
<1>4. UNCHANGED <<groupVars, cycleVars, payment, pool, refunds>>
  BY DEF PostContribution
<1>5. Owing' = Owing /\ contribution' = contribution /\ payment' = payment
  BY <1>4, ActiveSame DEF groupVars, cycleVars, Owing
<1>6. ThriftHookSound(p)'
  BY <1>1, <1>2, <1>3, <1>5 DEF ThriftInv, ThriftHookSound, Paid
<1> QED BY <1>1, <1>2, <1>4, <1>6, OneHookMovesInv

\* If the count finds nobody else unpaid, the others of the cycle have paid.
LEMMA CountUnpaidInv ==
  ASSUME ThriftInv, NEW p \in Contributors, CountUnpaid(p) PROVE ThriftInv'
<1> DEFINE new == [pc |-> "commit", fresh |-> hook[p].fresh, unpaid |-> Unpaid(p)]
<1>1. hook[p].pc = "count" /\ hook[p] \in HookStates
  BY HookTypes DEF CountUnpaid, HookAt
<1>2. Unpaid(p) \subseteq Owing
  BY DEF Unpaid, ThriftInv, ThriftTypes
<1>3. Owing \subseteq Nat \X Users
  BY DEF Owing, Active, ThriftInv, ThriftTypes
<1>4. new \in HookStates
  BY <1>1, <1>2, <1>3 DEF HookStates
<1>5. hook' = [hook EXCEPT ![p] = new]
  <2> DEFINE mid == [pc |-> hook[p].pc, fresh |-> hook[p].fresh, unpaid |-> Unpaid(p)]
  <2>1. [hook[p] EXCEPT !.unpaid = Unpaid(p)] = mid
    BY <1>1 DEF HookStates
  <2>2. [mid EXCEPT !.pc = "commit"] = new
    OBVIOUS
  <2> HIDE DEF mid, new
  <2>3. hook' = [hook EXCEPT ![p] = [mid EXCEPT !.pc = "commit"]]
    BY <2>1, HookTypes DEF CountUnpaid
  <2> QED BY <2>2, <2>3
<1>6. hook'[p] = new
  BY <1>5, HookTypes
<1>7. UNCHANGED <<groupVars, cycleVars, payment, pool, refunds>>
  BY DEF CountUnpaid
<1>8. Owing' = Owing /\ contribution' = contribution /\ payment' = payment
  BY <1>7, ActiveSame DEF groupVars, cycleVars, Owing
<1>9. PICK k \in Owing : p \in contribution[k].by /\ (hook[p].fresh <=> ~Paid(k))
  BY <1>1 DEF ThriftInv, ThriftHookSound
<1>10. For(p) = {k} /\ CycleOf(p) = k[1]
  BY <1>9, ForIsOne
<1>11. Unpaid(p) = {} => \A j \in Owing : j[1] = k[1] /\ j # k => Paid(j)
  BY <1>10 DEF Unpaid, Paid, ThriftInv, ThriftTypes
<1>12. new.pc = "commit" /\ new.fresh = hook[p].fresh /\ new.unpaid = Unpaid(p)
  OBVIOUS
<1> HIDE DEF new
<1>13. ThriftHookSound(p)'
  <2>1. payment'[p].status \in Settled
    BY <1>1, <1>8 DEF ThriftInv, ThriftHookSound
  <2>2. /\ k \in Owing' /\ p \in contribution'[k].by
        /\ hook'[p].fresh <=> ~Paid(k)'
        /\ hook'[p].unpaid = {} => \A j \in Owing' : j[1] = k[1] /\ j # k => Paid(j)'
    BY <1>6, <1>8, <1>9, <1>11, <1>12 DEF Paid
  <2> QED BY <2>1, <2>2 DEF ThriftHookSound
<1> QED BY <1>4, <1>5, <1>7, <1>13, OneHookMovesInv

\* A hook that is done, or starts anew, holds nothing.
LEMMA ContributionDoneInv ==
  ASSUME ThriftInv, NEW p \in Contributors, ContributionDone(p) PROVE ThriftInv'
<1>1. NoHook \in HookStates /\ NoHook.pc = "idle"
  BY DEF NoHook, HookStates
<1>2. hook' = [hook EXCEPT ![p] = NoHook]
  BY DEF ContributionDone
<1>3. ThriftHookSound(p)'
  BY <1>1, <1>2, HookTypes DEF ThriftHookSound
<1> QED BY <1>1, <1>2, <1>3, OneHookMovesInv DEF ContributionDone

LEMMA ContributionHookFailsInv ==
  ASSUME ThriftInv, NEW p \in Contributors, ContributionHookFails(p) PROVE ThriftInv'
<1> DEFINE new == [NoHook EXCEPT !.pc = "due"]
<1>1. new \in HookStates /\ new.pc = "due"
  BY DEF NoHook, HookStates
<1>2. hook' = [hook EXCEPT ![p] = new] /\ hook[p].pc # "idle"
  BY DEF ContributionHookFails
<1> HIDE DEF new
<1>3. payment'[p].status \in Settled
  BY <1>2 DEF ContributionHookFails, ThriftInv, ThriftHookSound
<1>4. hook'[p] = new
  BY <1>2, HookTypes
<1>5. ThriftHookSound(p)'
  BY <1>1, <1>3, <1>4 DEF ThriftHookSound
<1> QED BY <1>1, <1>2, <1>5, OneHookMovesInv DEF ContributionHookFails

-----------------------------------------------------------------------------
LEMMA OwingIsFinite ==
  ASSUME ThriftAssumption, ThriftTypes PROVE IsFiniteSet(Owing)
<1>1. IsFiniteSet(Active)
  BY FS_Subset DEF ThriftAssumption, Active
<1>2. IsFiniteSet(1 .. group.current)
  BY FS_Interval DEF ThriftTypes
<1> QED BY <1>1, <1>2, FS_Product DEF Owing

\* Only an unpaid contribution without a payment takes one.
LEMMA DraftContributionInv ==
  ASSUME ThriftInv, NEW p \in Contributors, NEW u \in Users, DraftContribution(p, u) PROVE ThriftInv'
<1> DEFINE k     == <<group.current, u>>
           made  == [by |-> {u}, status |-> "pending"]
           share == Linked(contribution[k], p)
<1>1. k \in Owing /\ ~Paid(k) /\ payment[p].status = "none"
  BY DEF DraftContribution, Paid, ThriftInv, ThriftTypes
<1>2. payment' = [payment EXCEPT ![p] = made] /\ contribution' = [contribution EXCEPT ![k] = share]
  BY DEF DraftContribution
<1>3. UNCHANGED <<groupVars, cycle, payout, hook, pool, refunds>>
  BY DEF DraftContribution
<1>4. contribution \in [Owing -> Shares] /\ contribution[k] \in Shares
  BY <1>1 DEF ThriftInv, ThriftTypes
<1>5. /\ share \in Shares /\ share.status = contribution[k].status
      /\ share.by = contribution[k].by \/ (contribution[k].by = {} /\ share.by = {p})
  BY <1>4 DEF Linked, Shares
<1>6. k[2] = u
  OBVIOUS
<1>7. made \in [by : SUBSET Users, status : PaymentStates] /\ made.by = {u} /\ made.status = "pending"
  BY DEF PaymentStates
<1> HIDE DEF k, made, share
<1>8. /\ payment' \in [Contributors -> [by : SUBSET Users, status : PaymentStates]]
      /\ payment'[p] = made /\ \A q \in Contributors \ {p} : payment'[q] = payment[q]
  BY <1>2, <1>7, HookTypes
<1>9. Owing' = Owing /\ Active' = Active /\ member' \in [Users -> {"none", "confirmed", "active"}]
  BY <1>3, ActiveSame DEF groupVars, Owing, ThriftInv, ThriftTypes
<1>10. /\ contribution' \in [Owing' -> Shares]
       /\ contribution'[k] = share /\ \A j \in Owing \ {k} : contribution'[j] = contribution[j]
  BY <1>1, <1>2, <1>4, <1>5, <1>9
<1>11. \A j \in Owing : Paid(j)' <=> Paid(j)
  BY <1>5, <1>10 DEF Paid
<1>12. GroupSound' /\ CyclesSound'
  BY <1>3, <1>9, GroupStaysSound DEF groupVars
<1>13. ThriftTypes'
  BY <1>3, <1>8, <1>9, <1>10 DEF ThriftInv, ThriftTypes, groupVars
<1>14. \A j \in Owing : p \notin contribution[j].by /\ contribution[j].by \subseteq Contributors
  BY <1>1, <1>4 DEF ThriftInv, SharesSound, Shares
<1>15. \A j \in Owing : \/ contribution'[j].by = contribution[j].by
                        \/ j = k /\ contribution[j].by = {} /\ contribution'[j].by = {p}
  BY <1>5, <1>10
<1>16. SharesSound'
  <2>1. ASSUME NEW j \in Owing, NEW q \in contribution'[j].by
        PROVE  payment'[q].by = {j[2]} /\ payment'[q].status # "none"
    <3>1. CASE q \in contribution[j].by
      <4>1. payment'[q] = payment[q]
        BY <1>8, <1>14, <3>1
      <4> QED BY <3>1, <4>1 DEF ThriftInv, SharesSound
    <3>2. CASE q = p /\ j = k
      BY <1>6, <1>7, <1>8, <3>2
    <3> QED BY <1>15, <2>1, <3>1, <3>2
  <2>2. ASSUME NEW j \in Owing, NEW q \in contribution'[j].by, NEW r \in contribution'[j].by PROVE q = r
    BY <1>15, <2>2 DEF ThriftInv, SharesSound
  <2>3. ASSUME NEW j \in Owing, Paid(j)' PROVE \E q \in contribution'[j].by : payment'[q].status \in Settled
    <3>1. PICK q \in contribution[j].by : payment[q].status \in Settled
      BY <1>11, <2>3 DEF ThriftInv, SharesSound
    <3>2. q \in contribution'[j].by /\ payment'[q] = payment[q]
      BY <1>8, <1>14, <1>15
    <3> QED BY <3>1, <3>2
  <2>4. \A j \in Owing : payout'[j[1]] # "none" => Paid(j)'
    BY <1>3, <1>11 DEF ThriftInv, SharesSound
  <2>5. ASSUME NEW i \in Owing, NEW j \in Owing, contribution'[i].by \cap contribution'[j].by # {} PROVE i = j
    <3>1. contribution[i].by \cap contribution[j].by # {} \/ i = j
      BY <1>14, <1>15, <2>5
    <3> QED BY <3>1 DEF ThriftInv, SharesSound
  <2> QED BY <1>9, <2>1, <2>2, <2>3, <2>4, <2>5 DEF SharesSound
<1>17. ASSUME NEW q \in Contributors PROVE ThriftHookSound(q)'
  <2>1. payment[q].status \in Settled => payment'[q].status \in Settled
    BY <1>1, <1>8 DEF Settled
  <2>2. \A j \in Owing : q \in contribution[j].by => q \in contribution'[j].by /\ (Paid(j)' <=> Paid(j))
    BY <1>11, <1>15
  <2>3. hook'[q] = hook[q] /\ ThriftTypes /\ ThriftHookSound(q)
    BY <1>3 DEF ThriftInv
  <2> QED BY <1>9, <1>11, <2>1, <2>2, <2>3, ThriftHookStaysSound
<1>18. PoolSound'
  <2>1. Pooled' = Pooled
    BY <1>3, <1>9, <1>11 DEF Pooled
  <2> QED BY <1>3, <2>1 DEF ThriftInv, PoolSound, Number
<1> QED BY <1>12, <1>13, <1>16, <1>17, <1>18 DEF ThriftInv

\* The commit pays the contribution the hook held.  If its count had found nobody
\* else unpaid, the whole cycle is paid now and its payout is due.
LEMMA CommitContributionInv ==
  ASSUME ThriftAssumption, ThriftInv, NEW p \in Contributors, CommitContribution(p) PROVE ThriftInv'
<1>1. hook[p].pc = "commit" /\ payment[p].status \in Settled
  BY DEF CommitContribution, HookAt, ThriftInv, ThriftHookSound
<1>2. PICK k \in Owing :
        /\ p \in contribution[k].by
        /\ hook[p].fresh <=> ~Paid(k)
        /\ hook[p].unpaid = {} => \A j \in Owing : j[1] = k[1] /\ j # k => Paid(j)
  BY <1>1 DEF ThriftInv, ThriftHookSound
<1>3. For(p) = {k} /\ CycleOf(p) = k[1]
  BY <1>2, ForIsOne
<1> DEFINE n     == k[1]
           ready == hook[p].unpaid = {} /\ cycle[n] = "pending_contributions"
<1>4. contribution \in [Owing -> Shares]
  BY DEF ThriftInv, ThriftTypes
<1>5. /\ contribution' = [j \in DOMAIN contribution |->
           IF j \in For(p) THEN [contribution[j] EXCEPT !.status = "paid"] ELSE contribution[j]]
      /\ cycle' = IF ready THEN [cycle EXCEPT ![n] = "ready_for_payout"] ELSE cycle
      /\ payout' = IF ready /\ payout[n] = "none" THEN [payout EXCEPT ![n] = "pending"] ELSE payout
      /\ pool' = IF hook[p].fresh THEN pool + 1 ELSE pool
      /\ hook' = [hook EXCEPT ![p].pc = "applied"]
      /\ UNCHANGED <<groupVars, payment, refunds>>
  BY <1>3 DEF CommitContribution
<1>6. n \in 1 .. group.current
  BY DEF Owing
<1>7. ready => payout[n] = "none" /\ n = group.current
  BY <1>6 DEF ThriftInv, CyclesSound, ThriftTypes
<1>8. Owing' = Owing /\ Active' = Active /\ member' \in [Users -> {"none", "confirmed", "active"}]
  BY <1>5, ActiveSame DEF groupVars, Owing, ThriftInv, ThriftTypes
<1> DEFINE share == [contribution[k] EXCEPT !.status = "paid"]
<1>9. share \in Shares /\ share.by = contribution[k].by /\ share.status = "paid"
  BY <1>4 DEF Shares
<1>10. /\ contribution' \in [Owing' -> Shares]
       /\ contribution'[k] = share /\ \A j \in Owing \ {k} : contribution'[j] = contribution[j]
  BY <1>3, <1>4, <1>5, <1>8, <1>9
<1> HIDE DEF share
<1>11. \A j \in Owing : contribution'[j].by = contribution[j].by /\ (Paid(j)' <=> Paid(j) \/ j = k)
  BY <1>9, <1>10 DEF Paid
<1>12. /\ cycle' \in Seq(CycleStates) /\ Len(cycle') = group.current
       /\ payout' \in Seq(PotStates) /\ Len(payout') = group.current
  <2>1. cycle \in Seq(CycleStates) /\ payout \in Seq(PotStates) /\ n \in 1 .. Len(cycle) /\ n \in 1 .. Len(payout)
    BY <1>6 DEF ThriftInv, ThriftTypes
  <2>2. /\ [cycle EXCEPT ![n] = "ready_for_payout"] \in Seq(CycleStates)
        /\ Len([cycle EXCEPT ![n] = "ready_for_payout"]) = Len(cycle)
    <3>1. "ready_for_payout" \in CycleStates
      BY DEF CycleStates
    <3> QED BY <2>1, <3>1, ExceptSeq
  <2>3. /\ [payout EXCEPT ![n] = "pending"] \in Seq(PotStates)
        /\ Len([payout EXCEPT ![n] = "pending"]) = Len(payout)
    <3>1. "pending" \in PotStates
      BY DEF PotStates
    <3> QED BY <2>1, <3>1, ExceptSeq
  <2>4. Len(cycle) = group.current /\ Len(payout) = group.current
    BY DEF ThriftInv, ThriftTypes
  <2> HIDE DEF ready, n
  <2> QED BY <1>5, <2>1, <2>2, <2>3, <2>4
<1>13. \A m \in 1 .. group.current :
         /\ payout'[m] = IF ready /\ m = n THEN "pending" ELSE payout[m]
         /\ cycle'[m] = IF ready /\ m = n THEN "ready_for_payout" ELSE cycle[m]
  BY <1>5, <1>6, <1>7 DEF ThriftInv, ThriftTypes
<1> HIDE DEF ready
<1>14. ThriftTypes'
  <2>1. hook' \in [Contributors -> HookStates]
    BY <1>5, HookTypes DEF HookStates
  <2>2. pool' \in Int
    BY <1>5 DEF ThriftInv, ThriftTypes
  <2> QED BY <1>5, <1>8, <1>10, <1>12, <2>1, <2>2 DEF ThriftInv, ThriftTypes, HookStates, groupVars
<1>15. GroupSound'
  BY <1>5, <1>8 DEF ThriftInv, GroupSound, Inviting, Number, groupVars
<1>16. CyclesSound'
  <2>1. group' = group
    BY <1>5 DEF groupVars
  <2>2. \A m \in 1 .. group.current : /\ payout'[m] = "none" <=> cycle'[m] = "pending_contributions"
                                      /\ m < group.current => payout'[m] = "completed"
    BY <1>6, <1>7, <1>13 DEF ThriftInv, CyclesSound, ThriftTypes
  <2>3. payout'[group.current] = "completed" <=> payout[group.current] = "completed"
    <3>1. group.current \in 1 .. group.current
      BY <1>6 DEF ThriftInv, ThriftTypes
    <3> QED BY <1>7, <1>13, <3>1
  <2> QED BY <2>1, <2>2, <2>3 DEF ThriftInv, CyclesSound, Inviting
<1>17. SharesSound'
  <2>1. payment' = payment
    BY <1>5
  <2>2. \A j \in Owing : /\ \A q \in contribution'[j].by : payment'[q].by = {j[2]} /\ payment'[q].status # "none"
                         /\ \A q, r \in contribution'[j].by : q = r
    BY <1>11, <2>1 DEF ThriftInv, SharesSound
  <2>3. ASSUME NEW j \in Owing, Paid(j)' PROVE \E q \in contribution'[j].by : payment'[q].status \in Settled
    BY <1>1, <1>2, <1>11, <2>1, <2>3 DEF ThriftInv, SharesSound
  <2>4. ASSUME NEW j \in Owing, payout'[j[1]] # "none" PROVE Paid(j)'
    <3>1. j[1] \in 1 .. group.current
      BY DEF Owing
    <3>2. CASE ready /\ j[1] = n
      BY <1>2, <1>11, <3>2 DEF ready
    <3>3. CASE ~(ready /\ j[1] = n)
      <4>1. payout[j[1]] # "none"
        BY <1>13, <2>4, <3>1, <3>3
      <4> QED BY <1>11, <4>1 DEF ThriftInv, SharesSound
    <3> QED BY <3>2, <3>3
  <2>5. \A i, j \in Owing : contribution'[i].by \cap contribution'[j].by # {} => i = j
    BY <1>11 DEF ThriftInv, SharesSound
  <2> QED BY <1>8, <2>2, <2>3, <2>4, <2>5 DEF SharesSound
<1>18. ASSUME NEW q \in Contributors PROVE ThriftHookSound(q)'
  <2>1. CASE q = p
    <3>1. hook'[p].pc = "applied" /\ payment' = payment
      BY <1>5, HookTypes DEF HookStates
    <3> QED BY <1>1, <2>1, <3>1 DEF ThriftHookSound
  <2>2. CASE q # p
    <3>1. hook'[q] = hook[q] /\ payment' = payment /\ ThriftTypes /\ ThriftHookSound(q)
      BY <1>5, <2>2, HookTypes DEF ThriftInv
    <3>2. q \notin contribution[k].by
      BY <1>2, <2>2 DEF ThriftInv, SharesSound
    <3>3. \A j \in Owing : q \in contribution[j].by => q \in contribution'[j].by /\ (Paid(j)' <=> Paid(j))
      BY <1>11, <3>2
    <3> QED BY <1>8, <1>11, <3>1, <3>3, ThriftHookStaysSound
  <2> QED BY <2>1, <2>2
<1>19. PoolSound'
  <2>1. \A j \in Owing : payout'[j[1]] = "completed" <=> payout[j[1]] = "completed"
    <3> SUFFICES ASSUME NEW j \in Owing PROVE payout'[j[1]] = "completed" <=> payout[j[1]] = "completed"
      OBVIOUS
    <3>1. j[1] \in 1 .. group.current
      BY DEF Owing
    <3> QED BY <1>7, <1>13, <3>1
  <2>2. IsFiniteSet(Pooled) /\ Cardinality(Pooled) \in Nat
    BY OwingIsFinite, FS_Subset, FS_CardinalityType DEF ThriftInv, Pooled
  <2>3. CASE hook[p].fresh
    <3>1. ~Paid(k) /\ payout[k[1]] = "none"
      BY <1>2, <2>3 DEF ThriftInv, SharesSound
    <3>2. Pooled' = Pooled \cup {k} /\ k \notin Pooled
      BY <1>8, <1>11, <2>1, <3>1 DEF Pooled
    <3>3. Cardinality(Pooled') = Cardinality(Pooled) + 1
      BY <2>2, <3>2, FS_AddElement
    <3>4. refunds = 0 => pool = Cardinality(Pooled)
      BY DEF ThriftInv, PoolSound, Number
    <3>5. pool' = pool + 1 /\ refunds' = refunds
      BY <1>5, <2>3
    <3>6. refunds' = 0 => pool' = Cardinality(Pooled')
      BY <3>3, <3>4, <3>5
    <3> QED BY <3>6 DEF PoolSound, Number
  <2>4. CASE ~hook[p].fresh
    <3>1. Pooled' = Pooled
      BY <1>2, <1>8, <1>11, <2>1, <2>4 DEF Pooled
    <3> QED BY <1>5, <2>4, <3>1 DEF ThriftInv, PoolSound, Number
  <2> QED BY <2>3, <2>4
<1> QED BY <1>14, <1>15, <1>16, <1>17, <1>18, <1>19 DEF ThriftInv

-----------------------------------------------------------------------------
(* Payouts. *)

\* Only the last cycle may have its payout due, and then everybody paid it.
LEMMA DuePayoutIsLast ==
  ASSUME ThriftInv, NEW n \in Cycles, payout[n] = "pending"
  PROVE  /\ n = group.current /\ n \in 1 .. group.current /\ group.status = "active"
         /\ \A k \in Owing : k[1] = n => Paid(k)
<1>1. n \in 1 .. group.current /\ group.current \in Nat
  BY DEF Cycles, ThriftInv, ThriftTypes
<1>2. n = group.current
  BY <1>1 DEF ThriftInv, CyclesSound
<1>3. ~Inviting /\ group.status # "completed"
  BY <1>1, <1>2 DEF ThriftInv, GroupSound, CyclesSound
<1>4. group.status = "active"
  BY <1>3 DEF Inviting, ThriftInv, ThriftTypes, GroupStates
<1>5. \A k \in Owing : k[1] = n => Paid(k)
  BY DEF ThriftInv, SharesSound
<1> QED BY <1>1, <1>2, <1>4, <1>5

\* The pool pays out what the cycle put in.
LEMMA PoolPaysPot ==
  ASSUME ThriftAssumption, ThriftInv, NEW n \in Cycles, payout[n] = "pending",
         pool' = pool - Number(Pot(n)), refunds' = refunds, Pooled' = {k \in Pooled : k[1] # n}
  PROVE  PoolSound' /\ pool' \in Int
<1>1. IsFiniteSet(Owing) /\ Pot(n) = {k \in Owing : k[1] = n}
  BY OwingIsFinite DEF ThriftInv, ThriftTypes, Pot
<1>2. Pot(n) \subseteq Pooled /\ Pooled \subseteq Owing
  BY <1>1, DuePayoutIsLast DEF Pooled
<1>3. IsFiniteSet(Pooled) /\ Pooled \cap Pot(n) = Pot(n) /\ Pooled' = Pooled \ Pot(n)
  BY <1>1, <1>2, FS_Subset
<1>4. Cardinality(Pooled') = Cardinality(Pooled) - Cardinality(Pot(n))
  BY <1>3, FS_Difference
<1>5. IsFiniteSet(Pot(n)) /\ Cardinality(Pot(n)) \in Nat
  BY <1>1, <1>2, FS_Subset, FS_CardinalityType
<1>6. pool' \in Int
  BY <1>5 DEF Number, ThriftInv, ThriftTypes
<1>7. refunds = 0 => pool = Cardinality(Pooled)
  BY DEF ThriftInv, PoolSound, Number
<1>8. refunds' = 0 => pool' = Cardinality(Pooled')
  BY <1>4, <1>7 DEF Number
<1> QED BY <1>6, <1>8 DEF PoolSound, Number

\* The last payout of a rotation ends the group.
LEMMA LastPayoutInv ==
  ASSUME ThriftAssumption, ThriftInv, NEW n \in Cycles, MarkThriftPayoutCompleted(n), LastCycle(n)
  PROVE  ThriftInv'
<1>1. /\ payout[n] = "pending" /\ pool' = pool - Number(Pot(n))
      /\ cycle' = [cycle EXCEPT ![n] = "payout_completed"]
      /\ payout' = [payout EXCEPT ![n] = "completed"]
      /\ group' = [group EXCEPT !.status = "completed"]
      /\ UNCHANGED <<contribution, member, position, payment, hook, refunds>>
  BY DEF MarkThriftPayoutCompleted
<1>2. /\ n = group.current /\ n \in 1 .. group.current /\ group.status = "active"
      /\ \A k \in Owing : k[1] = n => Paid(k)
  BY <1>1, DuePayoutIsLast
<1>3. /\ group' \in [status : GroupStates, target : Nat \ {0}, current : Nat]
      /\ group'.status = "completed" /\ group'.target = group.target /\ group'.current = group.current
  BY <1>1 DEF ThriftInv, ThriftTypes, GroupStates
<1>4. cycle \in Seq(CycleStates) /\ payout \in Seq(PotStates) /\ n \in 1 .. Len(cycle) /\ n \in 1 .. Len(payout)
  BY <1>2 DEF ThriftInv, ThriftTypes
<1>5. "payout_completed" \in CycleStates /\ "completed" \in PotStates
  BY DEF CycleStates, PotStates
<1>6. /\ cycle' \in Seq(CycleStates) /\ Len(cycle') = Len(cycle)
      /\ \A i \in 1 .. Len(cycle) : cycle'[i] = IF i = n THEN "payout_completed" ELSE cycle[i]
  BY <1>1, <1>4, <1>5, ExceptSeq
<1>7. /\ payout' \in Seq(PotStates) /\ Len(payout') = Len(payout)
      /\ \A i \in 1 .. Len(payout) : payout'[i] = IF i = n THEN "completed" ELSE payout[i]
  BY <1>1, <1>4, <1>5, ExceptSeq
<1>8. Len(cycle) = group.current /\ Len(payout) = group.current
  BY DEF ThriftInv, ThriftTypes
<1>9. Owing' = Owing /\ Active' = Active
  BY <1>1, <1>3, ActiveSame DEF Owing
<1>10. \A k \in Owing : (Paid(k)' <=> Paid(k)) /\ k[1] \in 1 .. group.current
  BY <1>1 DEF Paid, Owing
<1>11. ~Inviting /\ ~Inviting' /\ group.current = group.target
  BY <1>2, <1>3 DEF Inviting, LastCycle, ThriftInv, GroupSound, ThriftTypes
<1>12. GroupSound'
  BY <1>1, <1>3, <1>9, <1>11 DEF ThriftInv, GroupSound, Number
<1>13. CyclesSound'
  BY <1>2, <1>3, <1>6, <1>7, <1>8, <1>11 DEF ThriftInv, CyclesSound
<1>14. SharesSound'
  BY <1>1, <1>2, <1>7, <1>8, <1>9, <1>10 DEF ThriftInv, SharesSound
<1>15. \A p \in Contributors : ThriftHookSound(p)'
  BY <1>1, <1>9 DEF ThriftInv, ThriftHookSound, Paid
<1>16. Pooled' = {k \in Pooled : k[1] # n}
  BY <1>1, <1>7, <1>8, <1>9, <1>10 DEF Pooled
<1>17. PoolSound' /\ pool' \in Int
  BY <1>1, <1>16, PoolPaysPot
<1>18. ThriftTypes'
  BY <1>1, <1>3, <1>6, <1>7, <1>8, <1>9, <1>17 DEF ThriftInv, ThriftTypes
<1> QED BY <1>12, <1>13, <1>14, <1>15, <1>17, <1>18 DEF ThriftInv

\* Another payout opens the next cycle, in which every member owes again.
LEMMA NextCycleInv ==
  ASSUME ThriftAssumption, ThriftInv, NEW n \in Cycles, MarkThriftPayoutCompleted(n), ~LastCycle(n)
  PROVE  ThriftInv'
<1> DEFINE closed == [cycle EXCEPT ![n] = "payout_completed"]
           given  == [payout EXCEPT ![n] = "completed"]
<1>1. /\ payout[n] = "pending" /\ pool' = pool - Number(Pot(n))
      /\ cycle' = Append(closed, "pending_contributions")
      /\ payout' = Append(given, "none")
      /\ contribution' = OpenCycle(n + 1, Active)
      /\ group' = [group EXCEPT !.current = n + 1]
      /\ UNCHANGED <<member, position, payment, hook, refunds>>
  BY DEF MarkThriftPayoutCompleted
<1>2. /\ n = group.current /\ n \in 1 .. group.current /\ group.status = "active"
      /\ \A k \in Owing : k[1] = n => Paid(k)
  BY <1>1, DuePayoutIsLast
<1>3. /\ group' \in [status : GroupStates, target : Nat \ {0}, current : Nat]
      /\ group'.status = "active" /\ group'.target = group.target /\ group'.current = n + 1
  BY <1>1, <1>2 DEF ThriftInv, ThriftTypes, GroupStates
<1>4. cycle \in Seq(CycleStates) /\ payout \in Seq(PotStates) /\ n \in 1 .. Len(cycle) /\ n \in 1 .. Len(payout)
  BY <1>2 DEF ThriftInv, ThriftTypes
<1>5. /\ "payout_completed" \in CycleStates /\ "pending_contributions" \in CycleStates
      /\ "completed" \in PotStates /\ "none" \in PotStates
  BY DEF CycleStates, PotStates
<1>6. Len(cycle) = n /\ Len(payout) = n /\ n \in Nat
  BY <1>2 DEF ThriftInv, ThriftTypes
<1>7. /\ closed \in Seq(CycleStates) /\ Len(closed) = n
      /\ \A i \in 1 .. n : closed[i] = IF i = n THEN "payout_completed" ELSE cycle[i]
  BY <1>4, <1>5, <1>6, ExceptSeq
<1>8. /\ given \in Seq(PotStates) /\ Len(given) = n
      /\ \A i \in 1 .. n : given[i] = IF i = n THEN "completed" ELSE payout[i]
  BY <1>4, <1>5, <1>6, ExceptSeq
<1> HIDE DEF closed, given
<1>9. /\ cycle' \in Seq(CycleStates) /\ Len(cycle') = n + 1
      /\ cycle'[n + 1] = "pending_contributions" /\ \A i \in 1 .. n : cycle'[i] = closed[i]
  BY <1>1, <1>5, <1>7, AppendProperties
<1>10. /\ payout' \in Seq(PotStates) /\ Len(payout') = n + 1
       /\ payout'[n + 1] = "none" /\ \A i \in 1 .. n : payout'[i] = given[i]
  BY <1>1, <1>5, <1>8, AppendProperties
<1>11. Active' = Active
  BY <1>1, ActiveSame
<1> DEFINE opened == {<<n + 1, u>> : u \in Active}
<1>12. Owing' = Owing \cup opened
  <2>1. 1 .. n + 1 = (1 .. n) \cup {n + 1}
    BY <1>6
  <2>2. Owing = (1 .. n) \X Active /\ Owing' = (1 .. n + 1) \X Active
    BY <1>2, <1>3, <1>11 DEF Owing
  <2>3. {n + 1} \X Active = opened
    OBVIOUS
  <2> QED BY <2>1, <2>2, <2>3
<1>13. \A k \in Owing : k[1] \in 1 .. n /\ k \notin opened
  BY <1>2, <1>6 DEF Owing
<1>14. \A k \in opened : k[1] = n + 1
  OBVIOUS
<1>15. contribution' = [k \in Owing' |-> IF k \in Owing THEN contribution[k] ELSE [status |-> "awaiting", by |-> {}]]
  BY <1>1, <1>12 DEF OpenCycle, ThriftInv, ThriftTypes
<1> HIDE DEF opened
<1>16. contribution' \in [Owing' -> Shares]
  BY <1>15 DEF Shares, ThriftInv, ThriftTypes
<1>17. /\ \A k \in Owing : contribution'[k] = contribution[k]
       /\ \A k \in opened : contribution'[k].status = "awaiting" /\ contribution'[k].by = {}
  BY <1>12, <1>13, <1>15
<1>18. (\A k \in Owing : Paid(k)' <=> Paid(k)) /\ (\A k \in opened : ~Paid(k)')
  BY <1>17 DEF Paid
<1>19. ~Inviting /\ ~Inviting' /\ n < group.target
  BY <1>2, <1>3, <1>6 DEF Inviting, LastCycle, ThriftInv, ThriftTypes
<1>20. GroupSound'
  BY <1>1, <1>3, <1>6, <1>11, <1>19 DEF ThriftInv, GroupSound, ThriftTypes, Number
<1>21. CyclesSound'
  <2>1. ASSUME NEW i \in 1 .. n + 1
        PROVE  /\ payout'[i] = "none" <=> cycle'[i] = "pending_contributions"
               /\ i < n + 1 => payout'[i] = "completed"
    <3>1. CASE i = n + 1
      BY <1>6, <1>9, <1>10, <3>1
    <3>2. CASE i \in 1 .. n
      BY <1>2, <1>6, <1>7, <1>8, <1>9, <1>10, <3>2 DEF ThriftInv, CyclesSound
    <3> QED BY <1>6, <3>1, <3>2
  <2> QED BY <1>3, <1>10, <2>1 DEF CyclesSound
<1>22. \A k \in Owing : payout'[k[1]] = IF k[1] = n THEN "completed" ELSE payout[k[1]]
  BY <1>8, <1>10, <1>13
<1>23. SharesSound'
  <2>1. ASSUME NEW k \in Owing'
        PROVE  /\ \A p \in contribution'[k].by : payment'[p].by = {k[2]} /\ payment'[p].status # "none"
               /\ \A p, q \in contribution'[k].by : p = q
               /\ Paid(k)' => \E p \in contribution'[k].by : payment'[p].status \in Settled
               /\ payout'[k[1]] # "none" => Paid(k)'
    <3>1. CASE k \in Owing
      <4>1. payout'[k[1]] # "none" => Paid(k)
        BY <1>2, <1>22, <3>1 DEF ThriftInv, SharesSound
      <4>2. contribution'[k].by = contribution[k].by /\ payment' = payment /\ (Paid(k)' <=> Paid(k))
        BY <1>1, <1>17, <1>18, <3>1
      <4>3. /\ \A p \in contribution[k].by : payment[p].by = {k[2]} /\ payment[p].status # "none"
            /\ \A p, q \in contribution[k].by : p = q
            /\ Paid(k) => \E p \in contribution[k].by : payment[p].status \in Settled
        BY <3>1 DEF ThriftInv, SharesSound
      <4> QED BY <4>1, <4>2, <4>3
    <3>2. CASE k \in opened
      BY <1>10, <1>14, <1>17, <1>18, <3>2
    <3> QED BY <1>12, <3>1, <3>2
  <2>2. ASSUME NEW j \in Owing', NEW k \in Owing', contribution'[j].by \cap contribution'[k].by # {} PROVE j = k
    <3>1. j \in Owing /\ k \in Owing
      BY <1>12, <1>17, <2>2
    <3> QED BY <1>17, <2>2, <3>1 DEF ThriftInv, SharesSound
  <2> QED BY <2>1, <2>2 DEF SharesSound
<1>24. ASSUME NEW p \in Contributors PROVE ThriftHookSound(p)'
  <2>1. /\ ThriftTypes /\ ThriftHookSound(p) /\ hook'[p] = hook[p]
        /\ payment[p].status \in Settled => payment'[p].status \in Settled
    BY <1>1 DEF ThriftInv
  <2>2. Owing \subseteq Owing' /\ \A j \in Owing' \ Owing : j[1] \notin 1 .. group.current
    BY <1>2, <1>6, <1>12, <1>14
  <2>3. /\ \A k \in Owing : p \in contribution[k].by => p \in contribution'[k].by /\ (Paid(k)' <=> Paid(k))
        /\ \A j \in Owing : Paid(j) => Paid(j)'
    BY <1>17, <1>18
  <2> QED BY <2>1, <2>2, <2>3, ThriftHookStaysSound
<1>25. Pooled' = {k \in Pooled : k[1] # n}
  BY <1>12, <1>13, <1>18, <1>22 DEF Pooled
<1>26. PoolSound' /\ pool' \in Int
  BY <1>1, <1>25, PoolPaysPot
<1>27. ThriftTypes'
  BY <1>1, <1>3, <1>9, <1>10, <1>16, <1>26 DEF ThriftInv, ThriftTypes
<1> QED BY <1>20, <1>21, <1>23, <1>24, <1>26, <1>27 DEF ThriftInv

-----------------------------------------------------------------------------
LEMMA ThriftStaysInv ==
  ASSUME ThriftInv, UNCHANGED thriftVars PROVE ThriftInv'
<1>1. member' \in [Users -> {"none", "confirmed", "active"}] /\ Active' = Active
  BY ActiveSame DEF thriftVars, groupVars, ThriftInv, ThriftTypes
<1> QED BY <1>1, NobodyActivatedInv DEF thriftVars, groupVars

LEMMA ThriftNextInv ==
  ASSUME ThriftAssumption, ThriftInv, [ThriftNext]_<<tail, append, thriftVars>> PROVE ThriftInv'
<1>1. CASE UNCHANGED <<tail, append, thriftVars>>
  BY <1>1, ThriftStaysInv
<1>2. CASE Membership
  BY <1>2, CountMembersInv, JoinThriftGroupInv, ActivateThriftGroupInv, UpdateThriftGroupInv DEF Membership
<1>3. CASE Gateway
  BY <1>3, SucceedsInv, FailsInv, DraftContributionInv DEF Gateway
<1>4. ASSUME NEW p \in Contributors, ApplyHook(p) PROVE ThriftInv'
  BY <1>4, ApplyContributionInv, PostContributionInv, CountUnpaidInv, CommitContributionInv, ContributionDoneInv
     DEF ApplyHook
<1>5. ASSUME NEW p \in Contributors, ContributionHookFails(p) \/ RefundContribution(p) PROVE ThriftInv'
  BY <1>5, ContributionHookFailsInv, RefundContributionInv
<1>6. ASSUME NEW n \in Cycles, MarkThriftPayoutCompleted(n) PROVE ThriftInv'
  BY <1>6, LastPayoutInv, NextCycleInv
<1>7. ASSUME NEW o \in Others, OtherPosting(o) PROVE ThriftInv'
  BY <1>7, ThriftStaysInv DEF OtherPosting
<1> QED BY <1>1, <1>2, <1>3, <1>4, <1>5, <1>6, <1>7 DEF ThriftNext

\* A pot is paid out only when every member of the rotation paid that cycle with a
\* payment of their own that succeeded, the pool holds what cycles not yet paid out
\* took in, and every member gets exactly one pot, in turn, for any members,
\* payments and hooks that overlap, fail and run again (ActivateThriftGroup,
\* ApplyThriftContributionPaymentSuccess, MarkThriftPayoutCompleted).
THEOREM ThriftGroupsAreSafe == ThriftSpec => []ThriftSafe
<1>1. LedgerInit /\ ThriftInit => ThriftInv
  BY ThriftAssumption, ThriftInitInv
<1>2. ThriftInv /\ [ThriftNext]_<<tail, append, thriftVars>> => ThriftInv'
  BY ThriftAssumption, ThriftNextInv
<1>3. ThriftInv => ThriftSafe
  BY ThriftAssumption, ThriftInvIsSafe
<1> QED BY <1>1, <1>2, <1>3, PTL DEF ThriftSpec
=============================================================================
